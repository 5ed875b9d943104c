---------------------------- MODULE Launch_proofs ----------------------------
(***************************************************************************)
(* That each phase and each fetch of Launch is charged its own crossings,  *)
(* that the report adds up, and that a result is on the SD, for every set  *)
(* of calls and pools.                                                     *)
(***************************************************************************)
EXTENDS Launch, WellFoundedInduction, FiniteSetTheorems, SequenceTheorems, TLAPS

-----------------------------------------------------------------------------
(* Sums and selections: the loops of Tally have the values their turns give *)

Below == {p \in Nat \X Nat : p[1] < p[2]}

\* The order of the naturals has no endless descent.
LEMMA BelowWellFounded == IsWellFoundedOn(Below, Nat)
  BY NatLessThanWellFounded DEF OpToRel, Below

\* Some naturals have a least one.
LEMMA LeastNatural ==
  ASSUME NEW T \in SUBSET Nat, T # {}
  PROVE  \E x \in T : \A y \in T : x <= y
<1>1. PICK x \in T : \A y \in T : <<y, x>> \notin Below
  BY BelowWellFounded, WFMin
<1>2. ASSUME NEW y \in T, ~(x <= y) PROVE FALSE
  <2>1. <<y, x>> \in Nat \X Nat /\ <<y, x>>[1] < <<y, x>>[2]
    BY <1>2
  <2> QED BY <2>1, <1>1, <1>2 DEF Below
<1> QED BY <1>1, <1>2

\* What holds of 0 and, with a number, of the next, holds of every number.
LEMMA InductionTo ==
  ASSUME NEW n \in Nat, NEW T \in SUBSET Nat, 0 \in T,
         \A i \in 1..n : i - 1 \in T => i \in T
  PROVE  0..n \subseteq T
<1> SUFFICES ASSUME (0..n) \ T # {} PROVE FALSE
  OBVIOUS
<1>1. PICK x \in (0..n) \ T : \A y \in (0..n) \ T : x <= y
  <2>1. (0..n) \ T \in SUBSET Nat
    OBVIOUS
  <2> QED BY <2>1, LeastNatural
<1>2. x # 0 /\ x \in 1..n /\ x - 1 \in 0..n
  BY <1>1
<1>3. x - 1 \in T
  BY <1>1, <1>2
<1> QED BY <1>1, <1>2, <1>3

\* What a loop of n turns holds after each, from a and by g.
Loops(n, A, a, g) ==
  {f \in [0..n -> A] : f[0] = a /\ \A i \in 1..n : f[i] = g[<<i, f[i - 1]>>]}

\* A loop that passes its turns on is a function of the turn.
LEMMA LoopExists ==
  ASSUME NEW n \in Nat, NEW A, NEW a \in A, NEW g \in [(1..n) \X A -> A]
  PROVE  \E f : f \in Loops(n, A, a, g)
<1> DEFINE Runs(m) == \E f \in [0..m -> A] : f[0] = a /\ \A i \in 1..m : f[i] = g[<<i, f[i - 1]>>]
           T == {m \in 0..n : Runs(m)}
<1>1. 0 \in T
  <2>1. Runs(0)
    <3> DEFINE h == [i \in 0..0 |-> a]
    <3>1. h \in [0..0 -> A] /\ h[0] = a
      OBVIOUS
    <3>2. \A i \in 1..0 : h[i] = g[<<i, h[i - 1]>>]
      OBVIOUS
    <3> HIDE DEF h
    <3> QED BY <3>1, <3>2
  <2> QED BY <2>1
<1>2. ASSUME NEW m \in 1..n, m - 1 \in T PROVE m \in T
  <2>1. PICK f \in [0..(m-1) -> A] : f[0] = a /\ \A i \in 1..(m-1) : f[i] = g[<<i, f[i - 1]>>]
    BY <1>2
  <2> DEFINE h == [i \in 0..m |-> IF i = m THEN g[<<m, f[m-1]>>] ELSE f[i]]
  <2>2. g[<<m, f[m-1]>>] \in A
    <3>1. <<m, f[m-1]>> \in (1..n) \X A
      BY <1>2, <2>1
    <3> QED BY <3>1
  <2>3. h \in [0..m -> A]
    BY <1>2, <2>1, <2>2
  <2>4. h[0] = a
    BY <1>2, <2>1
  <2>5. ASSUME NEW i \in 1..m PROVE h[i] = g[<<i, h[i - 1]>>]
    <3>1. h[i-1] = f[i-1]
      BY <1>2, <2>5
    <3>2. CASE i = m
      BY <3>1, <3>2, <1>2
    <3>3. CASE i # m
      <4>1. i \in 1..(m-1) /\ h[i] = f[i]
        BY <3>3, <1>2, <2>5
      <4> QED BY <4>1, <3>1, <2>1
    <3> QED BY <3>2, <3>3
  <2>6. Runs(m)
    <3> HIDE DEF h
    <3> QED BY <2>3, <2>4, <2>5
  <2> QED BY <2>6
<1>3. T \in SUBSET Nat
  OBVIOUS
<1>4. n \in T
  <2> HIDE DEF T
  <2>1. 0..n \subseteq T
    BY <1>1, <1>2, <1>3, InductionTo
  <2> QED BY <2>1
<1> QED BY <1>4 DEF Loops

\* A running sum is what it is meant to be: each turn adds an entry.
LEMMA RunningSum ==
  ASSUME NEW s \in Seq(Int)
  PROVE  /\ Total(s) = Running(s)[Len(s)]
         /\ Running(s) \in [0..Len(s) -> Int]
         /\ Running(s)[0] = 0
         /\ \A i \in 1..Len(s) : Running(s)[i] = Running(s)[i - 1] + s[i]
<1> PICK n \in Nat : n = Len(s)
  OBVIOUS
<1> DEFINE g == [p \in (1..n) \X Int |-> p[2] + s[p[1]]]
<1>1. g \in [(1..n) \X Int -> Int]
  OBVIOUS
<1>2. PICK f \in [0..n -> Int] : f[0] = 0 /\ \A i \in 1..n : f[i] = g[<<i, f[i - 1]>>]
  <2> HIDE DEF g
  <2> PICK A : A = Int
    OBVIOUS
  <2>1. 0 \in A /\ g \in [(1..n) \X A -> A]
    BY <1>1
  <2>2. PICK f : f \in Loops(n, A, 0, g)
    BY ONLY <2>1, n \in Nat, LoopExists
  <2> QED BY ONLY <2>2, A = Int DEF Loops
<1>3. ASSUME NEW i \in 1..n PROVE f[i] = f[i - 1] + s[i]
  <2>1. <<i, f[i-1]>> \in (1..n) \X Int
    <3>1. i - 1 \in 0..n
      BY <1>3
    <3>2. f[i - 1] \in Int
      BY <3>1
    <3> QED BY <3>2
  <2> QED BY <2>1, <1>2
<1>4. f = [i \in 0..n |-> IF i = 0 THEN 0 ELSE f[i - 1] + s[i]]
  BY <1>2, <1>3
<1> HIDE DEF g
<1>5. Running(s) = [i \in 0..n |-> IF i = 0 THEN 0 ELSE Running(s)[i - 1] + s[i]]
  BY ONLY <1>4, n = Len(s) DEF Running
<1>6. Total(s) = Running(s)[n]
  BY n = Len(s) DEF Total
<1> PICK r : r = Running(s)
  OBVIOUS
<1>7. r[0] = 0 /\ \A i \in 1..n : r[i] = r[i - 1] + s[i]
  BY ONLY <1>5, r = Running(s), n \in Nat
<1>8. \A i \in 0..n : r[i] = f[i]
  <2> DEFINE T == {i \in 0..n : r[i] = f[i]}
  <2>1. 0 \in T /\ T \in SUBSET Nat
    BY <1>2, <1>7
  <2>2. ASSUME NEW i \in 1..n, i - 1 \in T PROVE i \in T
    BY <2>2, <1>3, <1>7
  <2>3. 0..n \subseteq T
    <3> HIDE DEF T
    <3> QED BY ONLY <2>1, <2>2, n \in Nat, InductionTo
  <2> QED BY <2>3
<1>9. r = [i \in 0..n |-> r[i]]
  BY ONLY <1>5, r = Running(s)
<1>10. r \in [0..n -> Int]
  BY <1>8, <1>9, <1>2
<1> QED BY <1>6, <1>7, <1>10

\* Nothing adds up to 0,
LEMMA TotalOfNone == Total(<<>>) = 0
<1>1. <<>> \in Seq(Int) /\ Len(<<>>) = 0
  OBVIOUS
<1> QED BY <1>1, RunningSum

\* integers to an integer,
LEMMA TotalType ==
  ASSUME NEW s \in Seq(Int)
  PROVE  Total(s) \in Int
<1>1. Len(s) \in 0..Len(s)
  OBVIOUS
<1> QED BY <1>1, RunningSum

\* and one entry more adds itself.
LEMMA TotalAppend ==
  ASSUME NEW s \in Seq(Int), NEW x \in Int
  PROVE  Total(Append(s, x)) = Total(s) + x
<1> PICK n \in Nat : n = Len(s)
  OBVIOUS
<1> PICK u : u = Append(s, x)
  OBVIOUS
<1>1. u \in Seq(Int) /\ Len(u) = n + 1 /\ u[n + 1] = x /\ \A i \in 1..n : u[i] = s[i]
  OBVIOUS
<1> PICK r, v : r = Running(s) /\ v = Running(u)
  OBVIOUS
<1>2. Total(s) = r[n] /\ r[0] = 0 /\ \A i \in 1..n : r[i] = r[i - 1] + s[i]
  BY ONLY n = Len(s), r = Running(s), s \in Seq(Int), RunningSum
<1>3. Total(u) = v[n + 1] /\ v[0] = 0 /\ \A i \in 1..(n+1) : v[i] = v[i - 1] + u[i]
  BY ONLY <1>1, v = Running(u), RunningSum
<1>4. \A i \in 0..n : r[i] = v[i]
  <2> DEFINE T == {i \in 0..n : r[i] = v[i]}
  <2>1. 0 \in T /\ T \in SUBSET Nat
    BY <1>2, <1>3
  <2>2. ASSUME NEW i \in 1..n, i - 1 \in T PROVE i \in T
    BY <2>2, <1>1, <1>2, <1>3
  <2>3. 0..n \subseteq T
    <3> HIDE DEF T
    <3> QED BY ONLY <2>1, <2>2, n \in Nat, InductionTo
  <2> QED BY <2>3
<1> QED BY <1>1, <1>2, <1>3, <1>4
\* What is kept of s up to each of its entries, as Kept has it.
KeptUpTo(s, S) ==
  CHOOSE k : k = [i \in 0..Len(s) |->
                    IF i = 0 THEN <<>>
                    ELSE IF s[i] \in S THEN Append(k[i - 1], s[i]) ELSE k[i - 1]]

\* k is what is kept of s after each of its entries.
Keeps(k, s, S) ==
  /\ k[0] = <<>>
  /\ \A i \in 1..Len(s) : k[i] = IF s[i] \in S THEN Append(k[i - 1], s[i]) ELSE k[i - 1]

\* Kept does what is meant: each turn adds the entry it keeps.
LEMMA KeptEach ==
  ASSUME NEW B, NEW s \in Seq(B), NEW S
  PROVE  /\ Kept(s, S) = KeptUpTo(s, S)[Len(s)]
         /\ KeptUpTo(s, S) \in [0..Len(s) -> Seq(B \cap S)]
         /\ Keeps(KeptUpTo(s, S), s, S)
<1> PICK n \in Nat : n = Len(s)
  OBVIOUS
<1> PICK A : A = Seq(B \cap S)
  OBVIOUS
<1> DEFINE g == [p \in (1..n) \X A |-> IF s[p[1]] \in S THEN Append(p[2], s[p[1]]) ELSE p[2]]
<1>1. g \in [(1..n) \X A -> A]
  <2>1. ASSUME NEW p \in (1..n) \X A
        PROVE  (IF s[p[1]] \in S THEN Append(p[2], s[p[1]]) ELSE p[2]) \in A
    <3>1. p[1] \in 1..n /\ p[2] \in Seq(B \cap S) /\ s[p[1]] \in B
      OBVIOUS
    <3>2. s[p[1]] \in S => Append(p[2], s[p[1]]) \in Seq(B \cap S)
      BY <3>1
    <3> QED BY <3>1, <3>2
  <2> QED BY <2>1
<1>2. PICK f \in [0..n -> A] : f[0] = <<>> /\ \A i \in 1..n : f[i] = g[<<i, f[i - 1]>>]
  <2> HIDE DEF g
  <2>1. <<>> \in A
    OBVIOUS
  <2>2. PICK f : f \in Loops(n, A, <<>>, g)
    BY ONLY <1>1, <2>1, n \in Nat, LoopExists
  <2> QED BY ONLY <2>2 DEF Loops
<1>3. ASSUME NEW i \in 1..n
      PROVE  f[i] = IF s[i] \in S THEN Append(f[i - 1], s[i]) ELSE f[i - 1]
  <2>1. <<i, f[i-1]>> \in (1..n) \X A
    <3>1. i - 1 \in 0..n
      BY <1>3
    <3>2. f[i - 1] \in A
      BY <3>1
    <3> QED BY <3>2
  <2> QED BY <2>1, <1>2
<1> HIDE DEF g
<1>4. f = [i \in 0..n |-> IF i = 0 THEN <<>> ELSE IF s[i] \in S THEN Append(f[i - 1], s[i]) ELSE f[i - 1]]
  <2>1. ASSUME NEW i \in 0..n
        PROVE  f[i] = IF i = 0 THEN <<>> ELSE IF s[i] \in S THEN Append(f[i - 1], s[i]) ELSE f[i - 1]
    <3>1. CASE i = 0
      BY ONLY <3>1, <1>2
    <3>2. CASE i # 0
      <4>1. i \in 1..n
        BY ONLY <2>1, <3>2, n \in Nat
      <4> QED BY ONLY <4>1, <3>2, <1>3
    <3> QED BY <3>1, <3>2
  <2> QED BY ONLY <2>1, f \in [0..n -> A]
<1>5. KeptUpTo(s, S) = [i \in 0..n |-> IF i = 0 THEN <<>>
         ELSE IF s[i] \in S THEN Append(KeptUpTo(s, S)[i - 1], s[i]) ELSE KeptUpTo(s, S)[i - 1]]
  BY ONLY <1>4, n = Len(s) DEF KeptUpTo
<1>6. Kept(s, S) = KeptUpTo(s, S)[n]
  BY DEF Kept, KeptUpTo
<1> PICK r : r = KeptUpTo(s, S)
  OBVIOUS
<1>7. r[0] = <<>> /\ \A i \in 1..n : r[i] = IF s[i] \in S THEN Append(r[i - 1], s[i]) ELSE r[i - 1]
  <2>1. r = [i \in 0..n |-> IF i = 0 THEN <<>> ELSE IF s[i] \in S THEN Append(r[i - 1], s[i]) ELSE r[i - 1]]
    BY ONLY <1>5, r = KeptUpTo(s, S)
  <2>2. r[0] = <<>>
    <3>1. 0 \in 0..n
      OBVIOUS
    <3> QED BY ONLY <2>1, <3>1
  <2>3. ASSUME NEW i \in 1..n
        PROVE  r[i] = IF s[i] \in S THEN Append(r[i - 1], s[i]) ELSE r[i - 1]
    <3>1. i \in 0..n /\ i # 0
      BY ONLY <2>3, n \in Nat
    <3> QED BY ONLY <2>1, <3>1
  <2> QED BY ONLY <2>2, <2>3
<1>8. \A i \in 0..n : r[i] = f[i]
  <2> DEFINE T == {i \in 0..n : r[i] = f[i]}
  <2>1. 0 \in T /\ T \in SUBSET Nat
    BY <1>2, <1>7
  <2>2. ASSUME NEW i \in 1..n, i - 1 \in T PROVE i \in T
    <3>1. r[i - 1] = f[i - 1]
      BY <2>2
    <3>2. r[i] = f[i]
      BY <3>1, <1>3, <1>7
    <3> QED BY <3>2
  <2>3. 0..n \subseteq T
    <3> HIDE DEF T
    <3> QED BY ONLY <2>1, <2>2, n \in Nat, InductionTo
  <2> QED BY <2>3
<1>9. r = [i \in 0..n |-> r[i]]
  BY ONLY <1>5, r = KeptUpTo(s, S)
<1>10. r \in [0..n -> A]
  BY <1>8, <1>9, <1>2
<1>11. Keeps(r, s, S)
  BY ONLY <1>7, n = Len(s) DEF Keeps
<1> QED BY <1>6, <1>10, <1>11

\* Of nothing it keeps nothing,
LEMMA KeptOfNone ==
  ASSUME NEW S
  PROVE  Kept(<<>>, S) = <<>>
<1>1. <<>> \in Seq({}) /\ Len(<<>>) = 0
  OBVIOUS
<1>2. PICK s : s = <<>>
  OBVIOUS
<1>3. Kept(s, S) = KeptUpTo(s, S)[Len(s)] /\ Keeps(KeptUpTo(s, S), s, S)
  BY ONLY <1>1, <1>2, KeptEach
<1> QED BY <1>1, <1>2, <1>3 DEF Keeps

\* what it keeps is of the kind of what there was,
LEMMA KeptType ==
  ASSUME NEW B, NEW s \in Seq(B), NEW S
  PROVE  Kept(s, S) \in Seq(B \cap S)
<1>1. Len(s) \in 0..Len(s)
  OBVIOUS
<1>2. /\ Kept(s, S) = KeptUpTo(s, S)[Len(s)]
      /\ KeptUpTo(s, S) \in [0..Len(s) -> Seq(B \cap S)]
  BY ONLY s \in Seq(B), KeptEach
<1> QED BY ONLY <1>1, <1>2

\* and one entry more is kept or not, by itself.
LEMMA KeptAppend ==
  ASSUME NEW B, NEW s \in Seq(B), NEW x \in B, NEW S
  PROVE  Kept(Append(s, x), S) = IF x \in S THEN Append(Kept(s, S), x) ELSE Kept(s, S)
<1> PICK n \in Nat : n = Len(s)
  OBVIOUS
<1> PICK u : u = Append(s, x)
  OBVIOUS
<1>1. u \in Seq(B) /\ Len(u) = n + 1 /\ u[n + 1] = x /\ \A i \in 1..n : u[i] = s[i]
  OBVIOUS
<1> PICK r, v : r = KeptUpTo(s, S) /\ v = KeptUpTo(u, S)
  OBVIOUS
<1>2. /\ Kept(s, S) = r[n] /\ r[0] = <<>>
      /\ \A i \in 1..n : r[i] = IF s[i] \in S THEN Append(r[i - 1], s[i]) ELSE r[i - 1]
  <2>1. Kept(s, S) = r[n] /\ Keeps(r, s, S)
    BY ONLY n = Len(s), r = KeptUpTo(s, S), s \in Seq(B), KeptEach
  <2> QED BY ONLY <2>1, n = Len(s) DEF Keeps
<1>3. /\ Kept(u, S) = v[n + 1] /\ v[0] = <<>>
      /\ \A i \in 1..(n + 1) : v[i] = IF u[i] \in S THEN Append(v[i - 1], u[i]) ELSE v[i - 1]
  <2>1. Kept(u, S) = v[n + 1] /\ Keeps(v, u, S)
    BY ONLY <1>1, v = KeptUpTo(u, S), KeptEach
  <2> QED BY ONLY <2>1, <1>1 DEF Keeps
<1>4. \A i \in 0..n : r[i] = v[i]
  <2> DEFINE T == {i \in 0..n : r[i] = v[i]}
  <2>1. 0 \in T /\ T \in SUBSET Nat
    BY <1>2, <1>3
  <2>2. ASSUME NEW i \in 1..n, i - 1 \in T PROVE i \in T
    <3>1. r[i - 1] = v[i - 1] /\ u[i] = s[i]
      BY <2>2, <1>1
    <3>2. r[i] = v[i]
      BY <3>1, <1>2, <1>3
    <3> QED BY <3>2
  <2>3. 0..n \subseteq T
    <3> HIDE DEF T
    <3> QED BY ONLY <2>1, <2>2, n \in Nat, InductionTo
  <2> QED BY <2>3
<1>5. v[n + 1] = IF x \in S THEN Append(v[n], x) ELSE v[n]
  BY <1>1, <1>3
<1>6. v[n] = r[n]
  BY <1>4
<1> QED BY <1>2, <1>3, <1>5, <1>6
\* Of subsets of a finite set, some that hold of no subset hold of a least one.
LEMMA LeastSubset ==
  ASSUME NEW S, IsFiniteSet(S), NEW X \in SUBSET SUBSET S, X # {}
  PROVE  \E T \in X : \A U \in SUBSET T : U # T => U \notin X
<1>1. \A T \in SUBSET S : IsFiniteSet(T) /\ Cardinality(T) \in Nat
  BY FS_Subset, FS_CardinalityType
<1> DEFINE C == {Cardinality(T) : T \in X}
<1>2. C \in SUBSET Nat /\ C # {}
  BY <1>1
<1>3. PICK c \in C : \A d \in C : c <= d
  <2> HIDE DEF C
  <2> QED BY ONLY <1>2, LeastNatural
<1>4. PICK T \in X : c = Cardinality(T)
  BY <1>3
<1>5. ASSUME NEW U \in SUBSET T, U # T, U \in X PROVE FALSE
  <2>1. IsFiniteSet(T) /\ Cardinality(T) \in Nat /\ Cardinality(U) \in Nat
    BY <1>1, <1>4, <1>5
  <2>2. Cardinality(U) <= Cardinality(T) /\ (Cardinality(T) = Cardinality(U) => T = U)
    BY ONLY <2>1, U \in SUBSET T, FS_Subset
  <2>3. c <= Cardinality(U)
    BY <1>3, <1>5
  <2> QED BY <2>1, <2>2, <2>3, <1>4, <1>5
<1> QED BY <1>4, <1>5

\* The element TotalOver takes out of T.
Taken(T) == CHOOSE x \in T : TRUE

\* What a turn over a set takes is in the set.
LEMMA TakenIsIn ==
  ASSUME NEW T, T # {}
  PROVE  Taken(T) \in T
  BY DEF Taken

\* t adds up f over every subset of S.
Sums(t, f, S) ==
  /\ t \in [SUBSET S -> Int]
  /\ t[{}] = 0
  /\ \A T \in SUBSET S : T # {} => t[T] = f[Taken(T)] + t[T \ {Taken(T)}]

\* Such a t there is ...
LEMMA SumsExist ==
  ASSUME NEW S, IsFiniteSet(S), NEW f, \A x \in S : f[x] \in Int
  PROVE  \E t : Sums(t, f, S)
<1> DEFINE UpTo(h, m) ==
             /\ h \in [SUBSET S -> Int]
             /\ h[{}] = 0
             /\ \A T \in SUBSET S : T # {} /\ Cardinality(T) <= m
                                      => h[T] = f[Taken(T)] + h[T \ {Taken(T)}]
           n == Cardinality(S)
           M == {m \in 0..n : \E h : UpTo(h, m)}
<1>1. \A T \in SUBSET S : /\ IsFiniteSet(T) /\ Cardinality(T) \in 0..n /\ n \in Nat
                          /\ Cardinality(T) = 0 <=> T = {}
  BY FS_Subset, FS_CardinalityType, FS_EmptySet
<1>2. \A T \in SUBSET S : T # {} => /\ Taken(T) \in S /\ Taken(T) \in T
                                    /\ T \ {Taken(T)} \in SUBSET S
                                    /\ Cardinality(T \ {Taken(T)}) = Cardinality(T) - 1
  BY <1>1, TakenIsIn, FS_RemoveElement
<1>3. 0 \in M
  <2> DEFINE h == [T \in SUBSET S |-> 0]
  <2>1. h \in [SUBSET S -> Int] /\ h[{}] = 0
    OBVIOUS
  <2>2. \A T \in SUBSET S : ~(T # {} /\ Cardinality(T) <= 0)
    BY <1>1
  <2>3. UpTo(h, 0)
    <3> HIDE DEF h
    <3> QED BY <2>1, <2>2
  <2>4. 0 \in 0..n
    BY <1>1
  <2> HIDE DEF h, UpTo, n
  <2> QED BY <2>3, <2>4
<1>4. ASSUME NEW m \in 1..n, m - 1 \in M PROVE m \in M
  <2>1. PICK h : UpTo(h, m - 1)
    BY <1>4
  <2> DEFINE w == [T \in SUBSET S |-> IF Cardinality(T) = m THEN f[Taken(T)] + h[T \ {Taken(T)}] ELSE h[T]]
  <2>2. n \in Nat /\ m # 0
    BY <1>1
  <2>3. ASSUME NEW T \in SUBSET S, Cardinality(T) = m
        PROVE  f[Taken(T)] + h[T \ {Taken(T)}] \in Int
    <3>1. T # {}
      BY <2>2, <2>3, <1>1
    <3>2. Taken(T) \in S /\ T \ {Taken(T)} \in SUBSET S
      BY <3>1, <1>2
    <3>3. h[T \ {Taken(T)}] \in Int
      BY <3>2, <2>1
    <3>4. f[Taken(T)] \in Int
      BY <3>2
    <3> QED BY ONLY <3>3, <3>4
  <2>4. w \in [SUBSET S -> Int]
    BY <2>1, <2>3
  <2>5. w[{}] = 0
    BY <2>1, <2>2, <1>1
  <2>6. ASSUME NEW T \in SUBSET S, T # {}, Cardinality(T) <= m
        PROVE  w[T] = f[Taken(T)] + w[T \ {Taken(T)}]
    <3> PICK U : U = T \ {Taken(T)}
      OBVIOUS
    <3>1. U \in SUBSET S /\ Cardinality(U) = Cardinality(T) - 1 /\ Cardinality(T) \in Int
      BY <2>6, <1>1, <1>2
    <3>2. w[U] = h[U]
      BY <3>1, <2>2, <2>6
    <3>3. w[T] = f[Taken(T)] + h[U]
      <4>1. CASE Cardinality(T) = m
        BY <4>1
      <4>2. CASE Cardinality(T) # m
        <5>1. Cardinality(T) <= m - 1 /\ w[T] = h[T]
          BY <4>2, <3>1, <2>2, <2>6
        <5> QED BY <5>1, <2>1, <2>6
      <4> QED BY <4>1, <4>2
    <3> QED BY <3>2, <3>3
  <2>7. UpTo(w, m)
    <3> HIDE DEF w
    <3> QED BY <2>4, <2>5, <2>6
  <2>8. m \in 0..n
    BY <2>2
  <2> HIDE DEF w, UpTo, n
  <2> QED BY <2>7, <2>8
<1>5. n \in M
  <2>1. n \in Nat /\ M \in SUBSET Nat
    BY <1>1
  <2> HIDE DEF M, n
  <2>2. 0..n \subseteq M
    BY ONLY <1>3, <1>4, <2>1, InductionTo
  <2> QED BY <2>1, <2>2
<1>6. PICK h : UpTo(h, n)
  BY <1>5
<1>7. \A T \in SUBSET S : Cardinality(T) <= n
  BY <1>1
<1>8. \A T \in SUBSET S : T # {} => h[T] = f[Taken(T)] + h[T \ {Taken(T)}]
  <2> HIDE DEF n, M
  <2> QED BY <1>6, <1>7
<1>9. h \in [SUBSET S -> Int] /\ h[{}] = 0
  BY <1>6
<1> QED BY ONLY <1>8, <1>9 DEF Sums

\* TotalOver is the value such a t has on the whole set.
LEMMA TotalOverIs ==
  ASSUME NEW S, IsFiniteSet(S), NEW f, \A x \in S : f[x] \in Int
  PROVE  \E t : Sums(t, f, S) /\ TotalOver(f, S) = t[S]
<1> PICK v : v = (CHOOSE t : t = [T \in SUBSET S |-> IF T = {} THEN 0 ELSE f[Taken(T)] + t[T \ {Taken(T)}]])
  OBVIOUS
<1>1. TotalOver(f, S) = v[S]
  BY DEF TotalOver, Taken
<1>2. PICK h : Sums(h, f, S)
  BY SumsExist
<1>3. h = [T \in SUBSET S |-> IF T = {} THEN 0 ELSE f[Taken(T)] + h[T \ {Taken(T)}]]
  BY <1>2 DEF Sums
<1>4. v = [T \in SUBSET S |-> IF T = {} THEN 0 ELSE f[Taken(T)] + v[T \ {Taken(T)}]]
  BY ONLY <1>3, v = (CHOOSE t : t = [T \in SUBSET S |-> IF T = {} THEN 0 ELSE f[Taken(T)] + t[T \ {Taken(T)}]])
<1>5. v[{}] = 0 /\ \A T \in SUBSET S : T # {} => v[T] = f[Taken(T)] + v[T \ {Taken(T)}]
  BY ONLY <1>4
<1>6. \A T \in SUBSET S : v[T] = h[T]
  <2> DEFINE X == {T \in SUBSET S : v[T] # h[T]}
  <2> SUFFICES ASSUME X # {} PROVE FALSE
    OBVIOUS
  <2>1. PICK T \in X : \A U \in SUBSET T : U # T => U \notin X
    <3>1. X \in SUBSET SUBSET S
      OBVIOUS
    <3> HIDE DEF X
    <3> QED BY ONLY <3>1, X # {}, IsFiniteSet(S), LeastSubset
  <2>2. T # {}
    BY <2>1, <1>2, <1>5 DEF Sums
  <2>3. Taken(T) \in T
    BY <2>2, TakenIsIn
  <2>4. v[T \ {Taken(T)}] = h[T \ {Taken(T)}]
    BY <2>1, <2>3
  <2>5. v[T] = f[Taken(T)] + v[T \ {Taken(T)}] /\ h[T] = f[Taken(T)] + h[T \ {Taken(T)}]
    BY <2>1, <2>2, <1>2, <1>5 DEF Sums
  <2> QED BY <2>1, <2>4, <2>5
<1>7. v \in [SUBSET S -> Int]
  <2>1. v = [T \in SUBSET S |-> v[T]]
    BY ONLY <1>4
  <2> QED BY <2>1, <1>6, <1>2 DEF Sums
<1> QED BY <1>1, <1>5, <1>7 DEF Sums

-----------------------------------------------------------------------------
(* The calls somebody made, one crossing after the other *)

Maker == {"setup", "configure_heap", "get_layered", "initialize", "romfs header",
          "file table", "directory table", "contents", "produced header"}
Entry == [by : Maker, call : Call]

\* A call, its kind and its bytes are what LaunchAssumption says.
LEMMA CallTypes ==
  ASSUME NEW c \in Call
  PROVE  /\ c.kind \in Kind /\ c.bytes \in Nat
         /\ c.ranged \in BOOLEAN /\ c.noted \in BOOLEAN
         /\ c.kind \notin {"read", "write"} => c.bytes = 0
         /\ ~c.ranged => c.bytes = 0
  BY LaunchAssumption DEF Kind

\* The calls someone made are calls.
LEMMA CallsInType ==
  ASSUME NEW l \in Seq(Entry), NEW who
  PROVE  CallsIn(l, who) \in Seq(Call)
<1> DEFINE S == [by : {who}, call : Call]
<1> PICK mine : mine = Kept(l, S)
  OBVIOUS
<1>1. mine \in Seq(Entry \cap S)
  <2> HIDE DEF S
  <2> QED BY KeptType
<1>2. Len(mine) \in Nat /\ DOMAIN mine = 1..Len(mine) /\ \A i \in 1..Len(mine) : mine[i].call \in Call
  <2>1. /\ Len(mine) \in Nat /\ DOMAIN mine = 1..Len(mine)
        /\ \A i \in 1..Len(mine) : mine[i] \in Entry \cap S
    <3> HIDE DEF S
    <3> QED BY ONLY <1>1
  <2> QED BY <2>1 DEF Entry
<1>3. CallsIn(l, who) = [i \in 1..Len(mine) |-> mine[i].call]
  BY <1>2 DEF CallsIn
<1>4. [i \in 1..Len(mine) |-> mine[i].call] \in [1..Len(mine) -> Call]
  BY <1>2
<1>5. \A n \in Nat : \A f \in [1..n -> Call] : f \in Seq(Call)
  OBVIOUS
<1> QED BY <1>2, <1>3, <1>4, <1>5

\* One crossing more is one call more of whoever made it.
LEMMA CallsInAppend ==
  ASSUME NEW l \in Seq(Entry), NEW e \in Entry, NEW who
  PROVE  CallsIn(Append(l, e), who) = IF e.by = who THEN Append(CallsIn(l, who), e.call)
                                                    ELSE CallsIn(l, who)
<1> DEFINE S == [by : {who}, call : Call]
<1> PICK mine : mine = Kept(l, S)
  OBVIOUS
<1> PICK next : next = Kept(Append(l, e), S)
  OBVIOUS
<1>1. /\ mine \in Seq(Entry \cap S)
      /\ next = IF e \in S THEN Append(mine, e) ELSE mine
  <2> HIDE DEF S
  <2> QED BY KeptType, KeptAppend
<1>2. e \in S <=> e.by = who
  BY DEF Entry
<1>3. CallsIn(l, who) = [i \in DOMAIN mine |-> mine[i].call]
  BY DEF CallsIn
<1>4. CallsIn(Append(l, e), who) = [i \in DOMAIN next |-> next[i].call]
  BY DEF CallsIn
<1> HIDE DEF S
<1>5. CASE e.by # who
  BY <1>1, <1>2, <1>3, <1>4, <1>5
<1>6. CASE e.by = who
  <2>1. next = Append(mine, e)
    BY <1>1, <1>2, <1>6
  <2>2. /\ Len(mine) \in Nat /\ DOMAIN mine = 1..Len(mine) /\ DOMAIN next = 1..(Len(mine) + 1)
        /\ \A i \in 1..Len(mine) : next[i] = mine[i]
        /\ next[Len(mine) + 1] = e
    BY <1>1, <2>1
  <2>3. CallsIn(l, who) \in Seq(Call) /\ Len(CallsIn(l, who)) = Len(mine)
    BY <1>3, <2>2, CallsInType
  <2>4. e.call \in Call
    BY DEF Entry
  <2>5. Append(CallsIn(l, who), e.call)
          = [i \in 1..(Len(mine) + 1) |-> IF i <= Len(mine) THEN CallsIn(l, who)[i] ELSE e.call]
    BY <2>2, <2>3, <2>4
  <2>6. \A i \in 1..(Len(mine) + 1) :
          next[i].call = IF i <= Len(mine) THEN CallsIn(l, who)[i] ELSE e.call
    BY <1>3, <2>2
  <2> QED BY <1>4, <1>6, <2>2, <2>5, <2>6
<1> QED BY <1>5, <1>6

\* No calls carry no bytes,
LEMMA BytesOfNone ==
  ASSUME NEW kind
  PROVE  Bytes(<<>>, kind) = 0
<1>1. [i \in DOMAIN <<>> |-> IF <<>>[i].kind = kind THEN <<>>[i].bytes ELSE 0] = <<>>
  OBVIOUS
<1> QED BY <1>1, TotalOfNone DEF Bytes

BytesEach(calls, kind) ==
  [i \in DOMAIN calls |-> IF calls[i].kind = kind THEN calls[i].bytes ELSE 0]

\* each call a number of them,
LEMMA BytesEachType ==
  ASSUME NEW calls \in Seq(Call), NEW kind
  PROVE  /\ BytesEach(calls, kind) \in Seq(Int)
         /\ Bytes(calls, kind) = Total(BytesEach(calls, kind))
<1>1. \A i \in 1..Len(calls) : calls[i].bytes \in Int
  BY CallTypes
<1>2. BytesEach(calls, kind) \in [1..Len(calls) -> Int]
  BY <1>1 DEF BytesEach
<1>3. \A n \in Nat : \A f \in [1..n -> Int] : f \in Seq(Int)
  OBVIOUS
<1> QED BY <1>2, <1>3 DEF Bytes, BytesEach

\* and one call more its own, to the sum of its kind.
LEMMA BytesAppend ==
  ASSUME NEW calls \in Seq(Call), NEW c \in Call, NEW kind
  PROVE  Bytes(Append(calls, c), kind) = Bytes(calls, kind) + IF c.kind = kind THEN c.bytes ELSE 0
<1> PICK x : x = IF c.kind = kind THEN c.bytes ELSE 0
  OBVIOUS
<1>1. x \in Int
  BY CallTypes
<1> PICK u : u = Append(calls, c)
  OBVIOUS
<1>2. /\ u \in Seq(Call) /\ DOMAIN u = 1..(Len(calls) + 1) /\ DOMAIN calls = 1..Len(calls)
      /\ Len(calls) \in Nat
      /\ \A i \in 1..Len(calls) : u[i] = calls[i]
      /\ u[Len(calls) + 1] = c
  OBVIOUS
<1> PICK before : before = BytesEach(calls, kind)
  OBVIOUS
<1> PICK after : after = BytesEach(u, kind)
  OBVIOUS
<1>3. before \in Seq(Int) /\ after \in Seq(Int)
      /\ Bytes(calls, kind) = Total(before) /\ Bytes(u, kind) = Total(after)
  BY <1>2, BytesEachType
<1>4. /\ after = [i \in 1..(Len(calls) + 1) |-> IF u[i].kind = kind THEN u[i].bytes ELSE 0]
      /\ before = [i \in 1..Len(calls) |-> IF calls[i].kind = kind THEN calls[i].bytes ELSE 0]
  BY <1>2 DEF BytesEach
<1>5. Len(after) = Len(calls) + 1 /\ Len(before) = Len(calls)
  BY <1>2, <1>3, <1>4
<1>6. \A i \in 1..Len(calls) : after[i] = before[i]
  BY <1>2, <1>4
<1>7. after[Len(calls) + 1] = x
  BY <1>2, <1>4
<1>8. after = Append(before, x)
  BY <1>1, <1>2, <1>3, <1>5, <1>6, <1>7
<1>9. Total(after) = Total(before) + x
  BY <1>1, <1>3, <1>8, TotalAppend
<1> QED BY <1>3, <1>9

\* No sum of what is not negative is.
LEMMA TotalOverNat ==
  ASSUME NEW S, IsFiniteSet(S), NEW f, \A x \in S : f[x] \in Nat
  PROVE  TotalOver(f, S) \in Nat
<1>1. PICK t : Sums(t, f, S) /\ TotalOver(f, S) = t[S]
  BY TotalOverIs
<1> DEFINE X == {T \in SUBSET S : t[T] \notin Nat}
<1>2. ASSUME X # {} PROVE FALSE
  <2>1. PICK T \in X : \A U \in SUBSET T : U # T => U \notin X
    <3>1. X \in SUBSET SUBSET S
      OBVIOUS
    <3> HIDE DEF X
    <3> QED BY ONLY <3>1, <1>2, IsFiniteSet(S), LeastSubset
  <2>2. T # {}
    <3>1. t[{}] = 0
      BY ONLY <1>1 DEF Sums
    <3>2. t[T] \notin Nat
      OBVIOUS
    <3>3. ASSUME T = {} PROVE FALSE
      <4>1. t[T] = 0
        BY ONLY <3>1, <3>3
      <4> QED BY ONLY <4>1, <3>2
    <3> QED BY <3>3
  <2>3. Taken(T) \in T
    BY <2>2, TakenIsIn
  <2>4. t[T] = f[Taken(T)] + t[T \ {Taken(T)}]
    BY <2>1, <2>2, <1>1 DEF Sums
  <2>5. t[T \ {Taken(T)}] \in Nat /\ f[Taken(T)] \in Nat
    BY <2>1, <2>3
  <2>6. t[T] \in Nat
    BY ONLY <2>4, <2>5
  <2> QED BY <2>1, <2>6
<1> QED BY <1>1, <1>2

-----------------------------------------------------------------------------
(* What a phase is charged, one crossing after the other *)

Counters == [total : Nat, moved : Nat, written : Nat, calls : [Kind -> Nat], ranges : Seq(Call)]
PhaseType == [name : Maker, total : Int, read : Int, written : Int, calls : [Kind -> Int],
              regions : [Pool -> 0..MaxPages], touched : Nat, ranges : Seq(Call)]

\* The ranges a phase kept say what it read and wrote.
RangesTell(phase) ==
  /\ Bytes(phase.ranges, "read") = phase.read
  /\ Bytes(phase.ranges, "write") = phase.written

\* Both: the phase from m to s is charged with calls.
Charges(s, m, calls) ==
  /\ Len(m.ranges) <= Len(s.ranges)
  /\ \A name, regions : LET phase == PhaseRecord(name, s, m, regions)
                        IN IsChargedWith(phase, calls) /\ RangesTell(phase)

\* The counters stay counters.
LEMMA CountingType ==
  ASSUME NEW s \in Counters, NEW c \in Call
  PROVE  Counting(s, c) \in Counters
<1> PICK ranges : ranges = IF c.ranged THEN Append(s.ranges, c) ELSE s.ranges
  OBVIOUS
<1>1. ranges \in Seq(Call)
  BY DEF Counters
<1> PICK calls : calls = [s.calls EXCEPT ![c.kind] = @ + 1]
  OBVIOUS
<1>2. calls \in [Kind -> Nat]
  BY CallTypes DEF Counters
<1> PICK written : written = IF c.kind = "write" THEN s.written + c.bytes ELSE s.written
  OBVIOUS
<1>3. written \in Nat /\ s.total + 1 \in Nat /\ s.moved + c.bytes \in Nat
  <2>1. s.written \in Nat /\ s.total \in Nat /\ s.moved \in Nat
    BY DEF Counters
  <2>2. c.bytes \in Nat
    BY CallTypes
  <2> QED BY ONLY <2>1, <2>2, written = IF c.kind = "write" THEN s.written + c.bytes ELSE s.written
<1> QED BY <1>1, <1>2, <1>3 DEF Counting, Counters

\* A record of a phase is one, and touched is summed of its regions.
LEMMA PhaseRecordType ==
  ASSUME NEW s \in Counters, NEW m \in Counters, NEW name \in Maker,
         NEW regions \in [Pool -> 0..MaxPages]
  PROVE  /\ PhaseRecord(name, s, m, regions) \in PhaseType
         /\ PhaseRecord(name, s, m, regions).touched = Touched(regions)
<1>1. Touched(regions) \in Nat
  <2>1. \A p \in Pool : regions[p] \in Nat
    BY LaunchAssumption
  <2> QED BY <2>1, LaunchAssumption, TotalOverNat DEF Touched
<1> PICK ranges : ranges = SubSeq(s.ranges, Len(m.ranges) + 1, Len(s.ranges))
  OBVIOUS
<1>2. ranges \in Seq(Call)
  <2>1. s.ranges \in Seq(Call) /\ m.ranges \in Seq(Call)
    BY DEF Counters
  <2> QED BY <2>1
<1> PICK calls : calls = [k \in Kind |-> s.calls[k] - m.calls[k]]
  OBVIOUS
<1>3. calls \in [Kind -> Int]
  BY DEF Counters
<1>4. Read(s, m) \in Int /\ s.total - m.total \in Int /\ s.written - m.written \in Int
  BY DEF Counters, Read
<1> QED BY <1>1, <1>2, <1>3, <1>4 DEF PhaseRecord, PhaseType

\* Nothing was crossed since m.
LEMMA ChargesNone ==
  ASSUME NEW m \in Counters
  PROVE  Charges(m, m, <<>>)
<1>1. /\ m.ranges \in Seq(Call) /\ m.calls \in [Kind -> Nat] /\ m.total \in Nat /\ m.moved \in Nat
      /\ m.written \in Nat /\ Len(m.ranges) \in Nat
  BY DEF Counters
<1>2. SubSeq(m.ranges, Len(m.ranges) + 1, Len(m.ranges)) = <<>>
  BY <1>1
<1> SUFFICES ASSUME NEW name, NEW regions
             PROVE  IsChargedWith(PhaseRecord(name, m, m, regions), <<>>)
                    /\ RangesTell(PhaseRecord(name, m, m, regions))
  BY <1>1 DEF Charges
<1> PICK phase : phase = PhaseRecord(name, m, m, regions)
  OBVIOUS
<1>3. /\ phase.total = 0 /\ phase.read = 0 /\ phase.written = 0 /\ phase.ranges = <<>>
      /\ \A k \in Kind : phase.calls[k] = 0
  BY <1>1, <1>2 DEF PhaseRecord, Read
<1>4. \A S : Kept(<<>>, S) = <<>>
  BY KeptOfNone
<1>5. Len(<<>>) = 0
  OBVIOUS
<1>6. \A kind : Bytes(<<>>, kind) = 0
  BY BytesOfNone
<1> QED BY <1>3, <1>4, <1>5, <1>6 DEF IsChargedWith, RangesTell

\* What is appended to a sequence is appended to what follows its b-th entry.
LEMMA TailAppend ==
  ASSUME NEW A, NEW r \in Seq(A), NEW c \in A, NEW b \in Nat, b <= Len(r)
  PROVE  SubSeq(Append(r, c), b + 1, Len(Append(r, c))) = Append(SubSeq(r, b + 1, Len(r)), c)
<1> PICK u : u = Append(r, c)
  OBVIOUS
<1> PICK n \in Nat : n = Len(r)
  OBVIOUS
<1>1. u \in Seq(A) /\ Len(u) = n + 1 /\ u[n + 1] = c /\ \A i \in 1..n : u[i] = r[i]
  OBVIOUS
<1> PICK left : left = SubSeq(u, b + 1, n + 1)
  OBVIOUS
<1> PICK tail : tail = SubSeq(r, b + 1, n)
  OBVIOUS
<1>2. left \in Seq(A) /\ Len(left) = n + 1 - b /\ \A i \in 1..(n + 1 - b) : left[i] = u[b + i]
  BY ONLY <1>1, n \in Nat, b \in Nat, b <= Len(r), n = Len(r), left = SubSeq(u, b + 1, n + 1)
<1>3. tail \in Seq(A) /\ Len(tail) = n - b /\ \A i \in 1..(n - b) : tail[i] = r[b + i]
  BY ONLY r \in Seq(A), n \in Nat, b \in Nat, b <= Len(r), n = Len(r), tail = SubSeq(r, b + 1, n)
<1>4. Append(tail, c) \in Seq(A) /\ Len(Append(tail, c)) = n + 1 - b
      /\ \A i \in 1..(n - b) : Append(tail, c)[i] = tail[i]
      /\ Append(tail, c)[n + 1 - b] = c
  BY <1>3
<1>5. \A i \in 1..(n + 1 - b) : left[i] = Append(tail, c)[i]
  <2> SUFFICES ASSUME NEW i \in 1..(n + 1 - b)
               PROVE  left[i] = Append(tail, c)[i]
    OBVIOUS
  <2>1. left[i] = u[b + i]
    BY <1>2
  <2>2. CASE i = n + 1 - b
    <3>1. b + i = n + 1
      BY <2>2
    <3> QED BY ONLY <3>1, <2>1, <2>2, <1>1, <1>4
  <2>3. CASE i # n + 1 - b
    <3>1. i \in 1..(n - b) /\ b + i \in 1..n
      BY <2>3
    <3> QED BY ONLY <3>1, <2>1, <1>1, <1>3, <1>4
  <2> QED BY <2>2, <2>3
<1>6. left = Append(tail, c)
  BY ONLY <1>2, <1>4, <1>5
<1> QED BY <1>1, <1>6

\* One more crossing is charged as one more call.
LEMMA ChargesOneMore ==
  ASSUME NEW s \in Counters, NEW m \in Counters, NEW calls \in Seq(Call), NEW c \in Call,
         Charges(s, m, calls)
  PROVE  Charges(Counting(s, c), m, Append(calls, c))
<1> PICK next : next = Counting(s, c)
  OBVIOUS
<1> PICK more : more = Append(calls, c)
  OBVIOUS
<1>1. /\ next.total = s.total + 1 /\ next.moved = s.moved + c.bytes
      /\ next.written = (IF c.kind = "write" THEN s.written + c.bytes ELSE s.written)
      /\ next.calls = [s.calls EXCEPT ![c.kind] = @ + 1]
      /\ next.ranges = IF c.ranged THEN Append(s.ranges, c) ELSE s.ranges
  BY DEF Counting
<1>2. /\ s.total \in Nat /\ s.moved \in Nat /\ s.written \in Nat /\ s.calls \in [Kind -> Nat]
      /\ m.total \in Nat /\ m.moved \in Nat /\ m.written \in Nat /\ m.calls \in [Kind -> Nat]
      /\ s.ranges \in Seq(Call) /\ m.ranges \in Seq(Call)
  BY DEF Counters
<1>3. /\ c.kind \in Kind /\ c.bytes \in Nat
      /\ c.kind \notin {"read", "write"} => c.bytes = 0
      /\ ~c.ranged => c.bytes = 0
  BY CallTypes
<1>4. Len(m.ranges) <= Len(s.ranges) /\ Len(m.ranges) \in Nat /\ Len(s.ranges) \in Nat
  BY <1>2 DEF Charges
<1>5. Len(m.ranges) <= Len(next.ranges)
  BY <1>1, <1>2, <1>4
<1> SUFFICES ASSUME NEW name, NEW regions
             PROVE  IsChargedWith(PhaseRecord(name, next, m, regions), more)
                    /\ RangesTell(PhaseRecord(name, next, m, regions))
  BY <1>5 DEF Charges
<1> PICK old : old = PhaseRecord(name, s, m, regions)
  OBVIOUS
<1> PICK new : new = PhaseRecord(name, next, m, regions)
  OBVIOUS
<1>6. IsChargedWith(old, calls) /\ RangesTell(old)
  BY DEF Charges
<1>7. /\ old.total = s.total - m.total /\ old.written = s.written - m.written
      /\ old.read = (s.moved - m.moved) - (s.written - m.written)
      /\ old.calls = [k \in Kind |-> s.calls[k] - m.calls[k]]
      /\ old.ranges = SubSeq(s.ranges, Len(m.ranges) + 1, Len(s.ranges))
  BY DEF PhaseRecord, Read
<1>8. /\ new.total = next.total - m.total /\ new.written = next.written - m.written
      /\ new.read = (next.moved - m.moved) - (next.written - m.written)
      /\ new.calls = [k \in Kind |-> next.calls[k] - m.calls[k]]
      /\ new.ranges = SubSeq(next.ranges, Len(m.ranges) + 1, Len(next.ranges))
  BY DEF PhaseRecord, Read
<1>9. new.total = Len(more)
  <2>1. old.total = Len(calls)
    BY <1>6 DEF IsChargedWith
  <2>2. Len(more) = Len(calls) + 1
    OBVIOUS
  <2> QED BY <2>1, <2>2, <1>1, <1>2, <1>7, <1>8
<1> DEFINE readNow == IF c.kind = "read" THEN c.bytes ELSE 0
           writtenNow == IF c.kind = "write" THEN c.bytes ELSE 0
<1>10. new.read = old.read + readNow /\ new.written = old.written + writtenNow
  <2>1. /\ next.moved = s.moved + c.bytes
        /\ next.written = IF c.kind = "write" THEN s.written + c.bytes ELSE s.written
    BY ONLY <1>1
  <2>2. /\ s.moved \in Nat /\ s.written \in Nat /\ m.moved \in Nat /\ m.written \in Nat
    BY ONLY <1>2
  <2>3. /\ old.written = s.written - m.written
        /\ old.read = (s.moved - m.moved) - (s.written - m.written)
        /\ new.written = next.written - m.written
        /\ new.read = (next.moved - m.moved) - (next.written - m.written)
    BY ONLY <1>7, <1>8
  <2>4. c.bytes \in Nat /\ (c.kind \notin {"read", "write"} => c.bytes = 0)
    BY ONLY <1>3
  <2>5. CASE c.kind = "write"
    BY ONLY <2>1, <2>2, <2>3, <2>4, <2>5
  <2>6. CASE c.kind # "write"
    BY ONLY <2>1, <2>2, <2>3, <2>4, <2>6
  <2> QED BY ONLY <2>5, <2>6
<1>11. new.read = Bytes(more, "read") /\ new.written = Bytes(more, "write")
  <2>1. old.read = Bytes(calls, "read") /\ old.written = Bytes(calls, "write")
    BY <1>6 DEF IsChargedWith
  <2> QED BY <2>1, <1>10, BytesAppend
<1>12. new.ranges = IF c.ranged THEN Append(old.ranges, c) ELSE old.ranges
  <2>1. CASE ~c.ranged
    BY <2>1, <1>1, <1>7, <1>8
  <2>2. CASE c.ranged
    <3> PICK r, b : r = s.ranges /\ b = Len(m.ranges)
      OBVIOUS
    <3>1. r \in Seq(Call) /\ b \in Nat /\ b <= Len(r)
      BY <1>2, <1>4
    <3>2. SubSeq(Append(r, c), b + 1, Len(Append(r, c))) = Append(SubSeq(r, b + 1, Len(r)), c)
      BY ONLY <3>1, c \in Call, TailAppend
    <3> QED BY <3>2, <2>2, <1>1, <1>7, <1>8
  <2> QED BY <2>1, <2>2
<1>13. new.ranges = Kept(more, {x \in Call : x.ranged})
  <2> DEFINE S == {x \in Call : x.ranged}
  <2>1. old.ranges = Kept(calls, S)
    BY <1>6 DEF IsChargedWith
  <2>2. c \in S <=> c.ranged
    OBVIOUS
  <2> HIDE DEF S
  <2>3. Kept(more, S) = IF c \in S THEN Append(Kept(calls, S), c) ELSE Kept(calls, S)
    BY KeptAppend
  <2> QED BY <2>1, <2>2, <2>3, <1>12 DEF S
<1>14. ASSUME NEW k \in Kind
       PROVE  new.calls[k] = Len(Kept(more, {x \in Call : x.kind = k}))
  <2> DEFINE S == {x \in Call : x.kind = k}
  <2>1. old.calls[k] = Len(Kept(calls, S))
    BY <1>6 DEF IsChargedWith
  <2>2. c \in S <=> c.kind = k
    OBVIOUS
  <2> HIDE DEF S
  <2>3. Kept(more, S) = (IF c \in S THEN Append(Kept(calls, S), c) ELSE Kept(calls, S))
        /\ Kept(calls, S) \in Seq(Call \cap S)
    BY KeptAppend, KeptType
  <2>4. Len(Kept(more, S)) = Len(Kept(calls, S)) + IF c \in S THEN 1 ELSE 0
    <3> PICK K : K = Kept(calls, S)
      OBVIOUS
    <3>1. c \in S => Len(Append(K, c)) = Len(K) + 1
      BY <2>3
    <3> QED BY <3>1, <2>3
  <2>5. new.calls[k] = old.calls[k] + IF c.kind = k THEN 1 ELSE 0
    <3>1. old.calls[k] = s.calls[k] - m.calls[k] /\ new.calls[k] = next.calls[k] - m.calls[k]
      BY <1>7, <1>8
    <3>2. s.calls[k] \in Nat /\ m.calls[k] \in Nat
      BY <1>2
    <3>3. next.calls[k] = s.calls[k] + IF c.kind = k THEN 1 ELSE 0
      <4>1. next.calls = [s.calls EXCEPT ![c.kind] = @ + 1]
        BY ONLY <1>1
      <4>2. s.calls \in [Kind -> Nat] /\ c.kind \in Kind
        BY ONLY <1>2, <1>3
      <4>3. CASE c.kind = k
        BY ONLY <4>1, <4>2, <4>3
      <4>4. CASE c.kind # k
        BY ONLY <4>1, <4>2, <4>4, <3>2, k \in Kind
      <4> QED BY ONLY <4>3, <4>4
    <3> QED BY ONLY <3>1, <3>2, <3>3
  <2> QED BY <2>1, <2>2, <2>4, <2>5 DEF S
<1>15. RangesTell(new)
  <2>1. Bytes(old.ranges, "read") = old.read /\ Bytes(old.ranges, "write") = old.written
    BY <1>6 DEF RangesTell
  <2>2. old.ranges \in Seq(Call)
    <3>1. old.ranges = Kept(calls, {x \in Call : x.ranged})
      BY <1>6 DEF IsChargedWith
    <3>2. Kept(calls, {x \in Call : x.ranged}) \in Seq(Call \cap {x \in Call : x.ranged})
      BY KeptType
    <3>3. \A S : Seq(Call \cap S) \subseteq Seq(Call)
      OBVIOUS
    <3> QED BY <3>1, <3>2, <3>3
  <2>3. CASE c.ranged
    BY <2>1, <2>2, <2>3, <1>10, <1>12, BytesAppend DEF RangesTell
  <2>4. CASE ~c.ranged
    <3>1. readNow = 0 /\ writtenNow = 0
      BY <2>4, <1>3
    <3>2. old.read \in Int /\ old.written \in Int
      BY <1>2, <1>7
    <3> QED BY <3>1, <3>2, <2>1, <2>4, <1>10, <1>12 DEF RangesTell
  <2> QED BY <2>3, <2>4
<1> QED BY <1>9, <1>11, <1>13, <1>14, <1>15 DEF IsChargedWith

\* Some first entry of a list of numbers is the highest.
LEMMA FirstHighest ==
  ASSUME NEW n \in Nat \ {0}, NEW f, \A i \in 1..n : f[i] \in Nat
  PROVE  \E i \in 1..n : /\ \A j \in 1..n : f[j] <= f[i]
                         /\ \A j \in 1..(i - 1) : f[j] < f[i]
<1> DEFINE T == {m \in 0..n : m = 0 \/ \E i \in 1..m : \A j \in 1..m : f[j] <= f[i]}
<1>1. 0 \in T /\ T \in SUBSET Nat
  OBVIOUS
<1>2. ASSUME NEW m \in 1..n, m - 1 \in T PROVE m \in T
  <2>1. CASE m = 1
    BY <2>1
  <2>2. CASE m # 1
    <3>1. PICK i \in 1..(m - 1) : \A j \in 1..(m - 1) : f[j] <= f[i]
      BY <1>2, <2>2
    <3>2. CASE f[m] <= f[i]
      <4>1. i \in 1..m /\ \A j \in 1..m : f[j] <= f[i]
        BY <3>1, <3>2
      <4> QED BY <4>1
    <3>3. CASE f[i] < f[m]
      <4>1. \A j \in 1..m : f[j] <= f[m]
        BY <3>1, <3>3
      <4> QED BY <4>1
    <3> QED BY <3>2, <3>3, <3>1
  <2> QED BY <2>1, <2>2
<1>3. n \in T
  <2> HIDE DEF T
  <2>1. 0..n \subseteq T
    BY ONLY <1>1, <1>2, n \in Nat \ {0}, InductionTo
  <2> QED BY <2>1
<1>4. PICK i \in 1..n : \A j \in 1..n : f[j] <= f[i]
  BY <1>3
<1> DEFINE H == {k \in 1..n : f[k] = f[i]}
<1>5. PICK k \in H : \A h \in H : k <= h
  <2>1. H \in SUBSET Nat /\ H # {}
    OBVIOUS
  <2> HIDE DEF H
  <2> QED BY ONLY <2>1, LeastNatural
<1>6. ASSUME NEW j \in 1..(k - 1) PROVE f[j] < f[k]
  <2>1. j \in 1..n /\ j \notin H
    BY <1>5
  <2> QED BY <2>1, <1>4, <1>5
<1> QED BY <1>4, <1>5, <1>6

-----------------------------------------------------------------------------
(* The invariant *)

FetchType == [name : Maker, moved : Int, calls : Int]

Types ==
  /\ at \in {"making", "launching", "launched", "resulting", "over"}
  /\ running \in Maker \cup {Idle}
  /\ stats \in Counters /\ mark \in Counters
  /\ used \in [Pool -> 0..MaxPages]
  /\ phases \in Seq(PhaseType) /\ Len(phases) <= 3
  /\ fetches \in Seq(FetchType)
  /\ reads \in 0..4
  /\ log \in Seq(Entry)
  /\ result.taken \in BOOLEAN

\* A phase that is over has its own name and its own crossings, its ranges and
\* its regions tell what its figures do.
Recorded ==
  \A i \in 1..Len(phases) :
    /\ phases[i].name = Phases[i]
    /\ phases[i].touched = Touched(phases[i].regions)
    /\ IsChargedWith(phases[i], CallsIn(log, phases[i].name))
    /\ RangesTell(phases[i])

\* So does a fetch, of one of the reads that are done.
Fetched ==
  \A i \in 1..Len(fetches) :
    /\ \E j \in 1..reads : fetches[i].name = Reads[j]
    /\ fetches[i].moved = Bytes(CallsIn(log, fetches[i].name), "read")
    /\ fetches[i].calls = Len(CallsIn(log, fetches[i].name))

\* Where run_one is says on whose behalf the build can be running.
WhoRuns ==
  /\ at = "making" => running = "setup" /\ phases = <<>>
  /\ at = "launching" => Len(phases) < 3 /\ running \in {Idle, Phases[Len(phases) + 1]}
  /\ at \in {"making", "launching"} => fetches = <<>> /\ reads = 0
  /\ at = "launched" => reads < 4 /\ Len(phases) = 3 /\ running \in {Idle, Reads[reads + 1]}
  /\ at = "resulting" => running \in {Idle, "produced header"}
  /\ at = "over" => running = Idle

\* A phase or a read that has not begun has no crossing yet.
NotYet ==
  at \in {"making", "launching", "launched"} =>
     /\ \A k \in (Len(phases) + 1)..3 : Phases[k] # running => CallsIn(log, Phases[k]) = <<>>
     /\ \A k \in (reads + 1)..4 : Reads[k] # running => CallsIn(log, Reads[k]) = <<>>

\* One under way is being charged its own.
UnderWay ==
  at \in {"launching", "launched"} /\ running # Idle => Charges(stats, mark, CallsIn(log, running))

Given == result.taken => at = "over" /\ ~dirty /\ ReportAddsUp

IInv == Types /\ Recorded /\ Fetched /\ WhoRuns /\ NotYet /\ UnderWay /\ Given

\* Three phases, four reads,
LEMMA Lengths == Len(Phases) = 3 /\ Len(Reads) = 4
  BY DEF Phases, Reads

\* by these names,
LEMMA Listed ==
  /\ Phases[1] = "configure_heap" /\ Phases[2] = "get_layered" /\ Phases[3] = "initialize"
  /\ Reads[1] = "romfs header" /\ Reads[2] = "file table" /\ Reads[3] = "directory table"
  /\ Reads[4] = "contents"
  BY DEF Phases, Reads

\* none of which is the name of another part of the run
LEMMA PhaseIs ==
  ASSUME NEW i \in 1..3
  PROVE  Phases[i] \in Maker /\ Phases[i] \notin {Idle, "setup", "produced header"}
<1>1. i = 1 \/ i = 2 \/ i = 3
  OBVIOUS
<1> QED BY <1>1, Listed DEF Maker, Idle

\* (nor is one of the reads),
LEMMA ReadIs ==
  ASSUME NEW j \in 1..4
  PROVE  Reads[j] \in Maker /\ Reads[j] \notin {Idle, "setup", "produced header"}
<1>1. j = 1 \/ j = 2 \/ j = 3 \/ j = 4
  OBVIOUS
<1> QED BY <1>1, Listed DEF Maker, Idle

\* no two of them the same,
LEMMA TwoPhases ==
  ASSUME NEW i \in 1..3, NEW j \in 1..3, i # j
  PROVE  Phases[i] # Phases[j]
<1>1. CASE i = 1
  <2>1. j = 2 \/ j = 3
    BY <1>1
  <2> QED BY <1>1, <2>1, Listed
<1>2. CASE i = 2
  <2>1. j = 1 \/ j = 3
    BY <1>2
  <2> QED BY <1>2, <2>1, Listed
<1>3. CASE i = 3
  <2>1. j = 1 \/ j = 2
    BY <1>3
  <2> QED BY <1>3, <2>1, Listed
<1> QED BY <1>1, <1>2, <1>3

\* nor two of the reads,
LEMMA TwoReads ==
  ASSUME NEW i \in 1..4, NEW j \in 1..4, i # j
  PROVE  Reads[i] # Reads[j]
<1>1. CASE i = 1
  <2>1. j = 2 \/ j = 3 \/ j = 4
    BY <1>1
  <2> QED BY <1>1, <2>1, Listed
<1>2. CASE i = 2
  <2>1. j = 1 \/ j = 3 \/ j = 4
    BY <1>2
  <2> QED BY <1>2, <2>1, Listed
<1>3. CASE i = 3
  <2>1. j = 1 \/ j = 2 \/ j = 4
    BY <1>3
  <2> QED BY <1>3, <2>1, Listed
<1>4. CASE i = 4
  <2>1. j = 1 \/ j = 2 \/ j = 3
    BY <1>4
  <2> QED BY <1>4, <2>1, Listed
<1> QED BY <1>1, <1>2, <1>3, <1>4

\* nor a phase and a read.
LEMMA NoPhaseIsARead ==
  ASSUME NEW i \in 1..3, NEW j \in 1..4
  PROVE  Phases[i] # Reads[j]
<1>1. (i = 1 \/ i = 2 \/ i = 3) /\ (j = 1 \/ j = 2 \/ j = 3 \/ j = 4)
  OBVIOUS
<1> QED BY <1>1, Listed

\* The build does not run again for a phase that is recorded.
LEMMA NoPhaseTwice ==
  ASSUME Types, WhoRuns, running # Idle, NEW i \in 1..Len(phases)
  PROVE  Phases[i] # running
<1> PICK n : n = Len(phases)
  OBVIOUS
<1>1. n \in 0..3 /\ i \in 1..3 /\ i <= n /\ reads \in 0..4
  <2>1. n \in Nat /\ n <= 3 /\ reads \in 0..4 /\ i \in 1..n
    BY DEF Types
  <2>2. i \in 1..3
    BY ONLY <2>1
  <2> QED BY ONLY <2>1, <2>2
<1>2. CASE at = "making"
  <2>1. n = 0
    BY <1>2 DEF WhoRuns
  <2> QED BY <2>1, <1>1
<1>3. CASE at = "launching"
  <2> PICK k : k = n + 1
    OBVIOUS
  <2>1. k \in 1..3 /\ k # i /\ running = Phases[k]
    BY <1>1, <1>3 DEF WhoRuns
  <2> QED BY ONLY <2>1, i \in 1..3, TwoPhases, <1>1
<1>4. CASE at = "launched"
  <2> PICK k : k = reads + 1
    OBVIOUS
  <2>1. k \in 1..4 /\ running = Reads[k]
    BY <1>1, <1>4 DEF WhoRuns
  <2> QED BY ONLY <2>1, NoPhaseIsARead, <1>1
<1>5. CASE at = "resulting"
  BY <1>1, <1>5, PhaseIs DEF WhoRuns
<1>6. at # "over"
  BY DEF WhoRuns
<1> QED BY <1>2, <1>3, <1>4, <1>5, <1>6 DEF Types

\* Nor for a read that is done.
LEMMA NoReadTwice ==
  ASSUME Types, WhoRuns, running # Idle, NEW j \in 1..reads
  PROVE  Reads[j] # running
<1>1. reads \in 0..4 /\ j \in 1..4 /\ j <= reads
  BY DEF Types
<1>2. at \notin {"making", "launching", "over"}
  <2>1. reads # 0
    BY <1>1
  <2> QED BY <2>1 DEF WhoRuns
<1>3. CASE at = "launched"
  <2> PICK k : k = reads + 1
    OBVIOUS
  <2>1. k \in 1..4 /\ k # j /\ running = Reads[k]
    BY <1>1, <1>3 DEF WhoRuns
  <2> QED BY ONLY <2>1, TwoReads, <1>1
<1>4. CASE at = "resulting"
  BY <1>1, <1>4, ReadIs DEF WhoRuns
<1> QED BY <1>2, <1>3, <1>4 DEF Types

\* The counters at rest are counters.
LEMMA NoCrossingType == NoCrossing \in Counters
<1>1. <<>> \in Seq(Call)
  OBVIOUS
<1> QED BY <1>1 DEF NoCrossing, Counters

-----------------------------------------------------------------------------
(* The result *)

\* What a result gives adds up when it is taken.
LEMMA ResultAddsUp ==
  ASSUME Types, Recorded
  PROVE  LET InRanges(kind) == Total([i \in DOMAIN phases |-> Bytes(phases[i].ranges, kind)])
         IN  /\ InRanges("read") = Result.totals.read
             /\ InRanges("write") = Result.totals.written
             /\ phases # <<>> => Touched(Result.pools) = Result.totals.peak
<1>1. DOMAIN phases = 1..Len(phases) /\ Len(phases) \in Nat /\ \A i \in 1..Len(phases) : phases[i] \in PhaseType
  BY DEF Types
<1>2. [i \in DOMAIN phases |-> Bytes(phases[i].ranges, "read")] = [i \in DOMAIN phases |-> phases[i].read]
  BY <1>1 DEF Recorded, RangesTell
<1>3. [i \in DOMAIN phases |-> Bytes(phases[i].ranges, "write")] = [i \in DOMAIN phases |-> phases[i].written]
  BY <1>1 DEF Recorded, RangesTell
<1>4. /\ Result.totals.read = Total([i \in DOMAIN phases |-> phases[i].read])
      /\ Result.totals.written = Total([i \in DOMAIN phases |-> phases[i].written])
      /\ Result.totals.peak = Peak
      /\ Result.pools = MemoryUsed
  BY DEF Result, Totals
<1>5. ASSUME phases # <<>> PROVE Touched(MemoryUsed) = Peak
  <2> DEFINE f == [i \in 1..Len(phases) |-> phases[i].touched]
  <2>1. Len(phases) \in Nat \ {0}
    BY <1>5 DEF Types
  <2>2. \A i \in 1..Len(phases) : f[i] \in Nat /\ f[i] = phases[i].touched
    BY <1>1 DEF PhaseType
  <2>3. PICK i \in 1..Len(phases) : /\ \A j \in 1..Len(phases) : f[j] <= f[i]
                                    /\ \A j \in 1..(i - 1) : f[j] < f[i]
    <3> HIDE DEF f
    <3> QED BY ONLY <2>1, <2>2, FirstHighest
  <2> DEFINE touched == {0} \cup {phases[j].touched : j \in DOMAIN phases}
  <2>4. f[i] \in touched /\ \A t \in touched : t <= f[i] /\ t \in Nat
    BY <1>1, <2>2, <2>3
  <2>5. Peak = f[i]
    <3>1. Peak = CHOOSE most \in touched : \A t \in touched : t <= most
      BY DEF Peak
    <3> HIDE DEF touched, f
    <3>2. \A most \in touched : (\A t \in touched : t <= most) => most = f[i]
      BY <2>4
    <3> QED BY <3>1, <3>2, <2>4
  <2>6. phases[i].touched = Peak /\ \A j \in 1..(i - 1) : phases[j].touched < Peak
    <3>1. \A j \in 1..(i - 1) : j \in 1..Len(phases)
      BY <2>1
    <3> HIDE DEF f, touched
    <3> QED BY <3>1, <2>2, <2>3, <2>5
  <2>7. PICK first : first = CHOOSE x \in DOMAIN phases : /\ phases[x].touched = Peak
                                                          /\ \A j \in 1..(x - 1) : phases[j].touched < Peak
    OBVIOUS
  <2>8. first \in DOMAIN phases /\ phases[first].touched = Peak
    BY <1>1, <2>6, <2>7
  <2>9. MemoryUsed = phases[first].regions
    BY <1>5, <2>7 DEF MemoryUsed
  <2> QED BY <1>1, <2>8, <2>9 DEF Recorded
<1> QED BY <1>2, <1>3, <1>4, <1>5

-----------------------------------------------------------------------------
(* What most steps leave alone *)

\* The records hold while the phases and the log stay,
LEMMA SameRecords ==
  ASSUME Recorded, UNCHANGED <<phases, log>>
  PROVE  Recorded'
  BY DEF Recorded

\* and the fetches while they, the reads done and the log do.
LEMMA SameFetches ==
  ASSUME Fetched, UNCHANGED <<fetches, reads, log>>
  PROVE  Fetched'
  BY DEF Fetched

\* No result, then none after a step that takes none.
LEMMA NoResultYet ==
  ASSUME Types, Given, at # "over", UNCHANGED result
  PROVE  Given' /\ result'.taken \in BOOLEAN
  BY DEF Types, Given

\* A step that ends the launch, or the run, with nothing recorded.
LEMMA StopKeeps ==
  ASSUME IInv, at # "over", at' \in {"resulting", "over"}, running' = Idle,
         mark' \in {mark, NoCrossing},
         UNCHANGED <<stats, used, phases, fetches, reads, log, dirty, result>>
  PROVE  IInv'
<1>1. Types'
  BY NoCrossingType DEF IInv, Types
<1>2. Recorded' /\ Fetched'
  BY SameRecords, SameFetches DEF IInv
<1>3. WhoRuns' /\ NotYet' /\ UnderWay'
  BY DEF WhoRuns, NotYet, UnderWay
<1>4. Given'
  BY NoResultYet DEF IInv
<1> QED BY <1>1, <1>2, <1>3, <1>4 DEF IInv

\* Nothing happens.
LEMMA StutterKeeps ==
  ASSUME IInv, UNCHANGED vars
  PROVE  IInv'
  BY DEF IInv, vars, buildVars, harnessVars, Types, Recorded, Fetched, WhoRuns, NotYet, UnderWay,
         Given, ReportAddsUp

-----------------------------------------------------------------------------
(* One step *)

\* A crossing is one more of whoever the build runs for, and nobody else's.
LEMMA CrossesKeeps ==
  ASSUME IInv, NEW c \in Call, Crosses(c)
  PROVE  IInv'
<1> DEFINE e == [by |-> running, call |-> c]
<1>1. /\ running # Idle
      /\ stats' = Counting(stats, c) /\ log' = Append(log, e)
      /\ UNCHANGED <<at, running, mark, used, phases, fetches, reads, result>>
  BY DEF Crosses, harnessVars
<1>2. e \in Entry /\ log \in Seq(Entry) /\ running \in Maker
  BY <1>1 DEF IInv, Types, Entry
<1>3. \A who : CallsIn(log', who) = IF who = running THEN Append(CallsIn(log, who), c) ELSE CallsIn(log, who)
  <2> SUFFICES ASSUME NEW who
               PROVE CallsIn(log', who) = IF who = running THEN Append(CallsIn(log, who), c) ELSE CallsIn(log, who)
    OBVIOUS
  <2>1. e.by = running /\ e.call = c
    OBVIOUS
  <2> HIDE DEF e
  <2> QED BY <1>1, <1>2, <2>1, CallsInAppend
<1>4. Types'
  <2>1. log' \in Seq(Entry)
    <3> HIDE DEF e
    <3> QED BY <1>1, <1>2
  <2>2. stats' \in Counters
    BY <1>1, CountingType DEF IInv, Types
  <2> QED BY <1>1, <2>1, <2>2 DEF IInv, Types
<1> HIDE DEF e
<1>5. at # "over"
  BY <1>1 DEF IInv, WhoRuns
<1>6. Recorded'
  <2> SUFFICES ASSUME NEW i \in 1..Len(phases)
               PROVE  CallsIn(log', phases[i].name) = CallsIn(log, phases[i].name)
    BY <1>1 DEF IInv, Recorded
  <2>1. phases[i].name = Phases[i] /\ i \in 1..3 /\ Len(phases) \in Nat
    BY DEF IInv, Types, Recorded
  <2>2. Phases[i] # running
    BY <2>1, <1>1, NoPhaseTwice DEF IInv
  <2> QED BY <2>1, <2>2, <1>3
<1>7. Fetched'
  <2> SUFFICES ASSUME NEW i \in 1..Len(fetches)
               PROVE  CallsIn(log', fetches[i].name) = CallsIn(log, fetches[i].name)
    BY <1>1 DEF IInv, Fetched
  <2>1. PICK j \in 1..reads : fetches[i].name = Reads[j]
    BY DEF IInv, Fetched
  <2>2. Reads[j] # running
    BY <1>1, NoReadTwice DEF IInv
  <2> QED BY <2>1, <2>2, <1>3
<1>8. WhoRuns'
  BY <1>1 DEF IInv, WhoRuns
<1>9. NotYet'
  BY <1>1, <1>3 DEF IInv, NotYet
<1>10. UnderWay'
  <2> SUFFICES ASSUME at \in {"launching", "launched"}
               PROVE  Charges(stats', mark, CallsIn(log', running))
    BY <1>1 DEF UnderWay
  <2>1. CallsIn(log, running) \in Seq(Call)
    BY <1>2, CallsInType
  <2>2. Charges(stats, mark, CallsIn(log, running)) /\ stats \in Counters /\ mark \in Counters
    BY <1>1 DEF IInv, UnderWay, Types
  <2>3. Charges(Counting(stats, c), mark, Append(CallsIn(log, running), c))
    BY <2>1, <2>2, ChargesOneMore
  <2> QED BY <2>3, <1>1, <1>3
<1>11. Given'
  BY <1>1, <1>5, NoResultYet DEF IInv
<1> QED BY <1>4, <1>6, <1>7, <1>8, <1>9, <1>10, <1>11 DEF IInv

\* The other steps the build takes cross nothing.
LEMMA BuildStepKeeps ==
  ASSUME IInv, running # Idle,
         UNCHANGED <<at, running, stats, mark, phases, fetches, reads, log, dirty, result>>,
         used' \in [Pool -> 0..MaxPages]
  PROVE  IInv'
<1>1. at # "over"
  BY DEF IInv, WhoRuns
<1>2. Types'
  BY DEF IInv, Types
<1>3. Recorded' /\ Fetched'
  BY SameRecords, SameFetches DEF IInv
<1>4. WhoRuns' /\ NotYet' /\ UnderWay'
  BY DEF IInv, WhoRuns, NotYet, UnderWay
<1>5. Given'
  BY <1>1, NoResultYet DEF IInv
<1> QED BY <1>2, <1>3, <1>4, <1>5 DEF IInv

\* The constructor done, no phase or read has a crossing.
LEMMA HarnessIsMadeKeeps ==
  ASSUME IInv, HarnessIsMade
  PROVE  IInv'
<1>1. /\ at = "making" /\ at' = "launching" /\ running' = Idle
      /\ UNCHANGED <<stats, mark, used, phases, fetches, reads, log, dirty, result>>
  BY DEF HarnessIsMade, buildVars, harnessVars
<1>2. Types'
  BY <1>1 DEF IInv, Types
<1>3. Recorded' /\ Fetched'
  BY <1>1, SameRecords, SameFetches DEF IInv
<1>4. running = "setup" /\ phases = <<>> /\ fetches = <<>> /\ reads = 0
  BY <1>1 DEF IInv, WhoRuns
<1>5. WhoRuns' /\ UnderWay'
  BY <1>1, <1>4 DEF WhoRuns, UnderWay
<1>6. NotYet'
  <2>1. /\ \A k \in 1..3 : CallsIn(log, Phases[k]) = <<>>
        /\ \A k \in 1..4 : CallsIn(log, Reads[k]) = <<>>
    <3>1. Len(phases) + 1 = 1 /\ reads + 1 = 1
      BY <1>4
    <3>2. /\ \A k \in 1..3 : Phases[k] # running => CallsIn(log, Phases[k]) = <<>>
          /\ \A k \in 1..4 : Reads[k] # running => CallsIn(log, Reads[k]) = <<>>
      BY ONLY <3>1, <1>1, IInv DEF IInv, NotYet
    <3> QED BY <3>2, <1>4, PhaseIs, ReadIs
  <2>2. Len(phases) + 1 = 1 /\ reads + 1 = 1
    BY <1>4
  <2> QED BY ONLY <2>1, <2>2, <1>1 DEF NotYet
<1>7. Given'
  BY <1>1, NoResultYet DEF IInv
<1> QED BY <1>2, <1>3, <1>5, <1>6, <1>7 DEF IInv

\* A phase begins with none of its own crossings made.
LEMMA BeginPhaseKeeps ==
  ASSUME IInv, BeginPhase
  PROVE  IInv'
<1> PICK k : k = Len(phases) + 1
  OBVIOUS
<1>1. /\ at = "launching" /\ running = Idle /\ Len(phases) < 3
      /\ running' = Phases[k] /\ mark' = stats
      /\ UNCHANGED <<at, stats, used, phases, fetches, reads, log, dirty, result>>
  BY Lengths DEF BeginPhase, buildVars, harnessVars
<1>2. k \in 1..3 /\ Len(phases) \in Nat /\ stats \in Counters
  BY <1>1 DEF IInv, Types
<1>3. Phases[k] \in Maker /\ Phases[k] # Idle
  BY <1>2, PhaseIs
<1>4. Types'
  BY <1>1, <1>3 DEF IInv, Types
<1>5. Recorded' /\ Fetched'
  BY <1>1, SameRecords, SameFetches DEF IInv
<1>6. WhoRuns'
  BY <1>1 DEF IInv, WhoRuns
<1>7. /\ \A i \in k..3 : CallsIn(log, Phases[i]) = <<>>
      /\ \A i \in (reads + 1)..4 : CallsIn(log, Reads[i]) = <<>>
  <2>1. /\ \A i \in k..3 : Phases[i] # Idle => CallsIn(log, Phases[i]) = <<>>
        /\ \A i \in (reads + 1)..4 : Reads[i] # Idle => CallsIn(log, Reads[i]) = <<>>
    BY ONLY IInv, <1>1, k = Len(phases) + 1 DEF IInv, NotYet
  <2>2. /\ \A i \in k..3 : i \in 1..3
        /\ \A i \in (reads + 1)..4 : i \in 1..4
    BY <1>2 DEF IInv, Types
  <2> QED BY <2>1, <2>2, PhaseIs, ReadIs
<1>8. NotYet'
  BY <1>1, <1>7 DEF NotYet
<1>9. UnderWay'
  <2>1. k \in k..3
    BY <1>2
  <2> QED BY <1>1, <1>2, <1>7, <2>1, ChargesNone DEF UnderWay
<1>10. Given'
  BY <1>1, NoResultYet DEF IInv
<1> QED BY <1>4, <1>5, <1>6, <1>8, <1>9, <1>10 DEF IInv

\* A phase that ends is recorded with what it was charged.
LEMMA EndPhaseKeeps ==
  ASSUME IInv, EndPhase
  PROVE  IInv'
<1> PICK k : k = Len(phases) + 1
  OBVIOUS
<1> PICK phase : phase = PhaseRecord(running, stats, mark, used)
  OBVIOUS
<1>1. /\ at = "launching" /\ running # Idle
      /\ phases' = Append(phases, phase)
      /\ running' = Idle /\ mark' = NoCrossing
      /\ at' = IF Len(phases') = 3 THEN "launched" ELSE at
      /\ UNCHANGED <<stats, used, fetches, reads, log, dirty, result>>
  BY Lengths DEF EndPhase, buildVars
<1>2. /\ Len(phases) < 3 /\ running = Phases[k] /\ fetches = <<>> /\ reads = 0
      /\ phases \in Seq(PhaseType) /\ Len(phases) \in Nat
      /\ stats \in Counters /\ mark \in Counters /\ used \in [Pool -> 0..MaxPages] /\ running \in Maker
  BY <1>1 DEF IInv, Types, WhoRuns
<1>3. phase \in PhaseType /\ phase.touched = Touched(used)
  BY <1>2, PhaseRecordType
<1>4. phase.name = running /\ phase.regions = used
  BY DEF PhaseRecord
<1>5. /\ phases' \in Seq(PhaseType) /\ Len(phases') = k
      /\ \A i \in 1..Len(phases) : phases'[i] = phases[i]
      /\ phases'[k] = phase
  BY <1>1, <1>2, <1>3
<1>6. Types'
  BY <1>1, <1>2, <1>5, NoCrossingType DEF IInv, Types
<1>7. Charges(stats, mark, CallsIn(log, running))
  BY <1>1 DEF IInv, UnderWay
<1>8. IsChargedWith(phase, CallsIn(log, running)) /\ RangesTell(phase)
  BY <1>7 DEF Charges
<1>9. Recorded'
  <2> SUFFICES ASSUME NEW i \in 1..k
               PROVE  /\ phases'[i].name = Phases[i]
                      /\ phases'[i].touched = Touched(phases'[i].regions)
                      /\ IsChargedWith(phases'[i], CallsIn(log, phases'[i].name))
                      /\ RangesTell(phases'[i])
    BY <1>1, <1>5 DEF Recorded
  <2>1. CASE i = k
    BY <2>1, <1>2, <1>3, <1>4, <1>5, <1>8
  <2>2. CASE i # k
    <3>1. i \in 1..Len(phases) /\ phases'[i] = phases[i]
      BY <2>2, <1>2, <1>5
    <3> QED BY <3>1 DEF IInv, Recorded
  <2> QED BY <2>1, <2>2
<1>10. Fetched'
  BY <1>1, SameFetches DEF IInv
<1>11. WhoRuns'
  BY <1>1, <1>2, <1>5 DEF WhoRuns
<1>12. NotYet'
  <2>1. /\ \A i \in k..3 : Phases[i] # running => CallsIn(log, Phases[i]) = <<>>
        /\ \A i \in (reads + 1)..4 : Reads[i] # running => CallsIn(log, Reads[i]) = <<>>
    BY ONLY IInv, <1>1, k = Len(phases) + 1 DEF IInv, NotYet
  <2>2. \A i \in (k + 1)..3 : i \in k..3 /\ i \in 1..3 /\ i # k
    BY <1>2
  <2>3. k \in 1..3 /\ \A i \in (reads + 1)..4 : i \in 1..4
    BY <1>2
  <2>4. /\ \A i \in (k + 1)..3 : CallsIn(log, Phases[i]) = <<>>
        /\ \A i \in (reads + 1)..4 : CallsIn(log, Reads[i]) = <<>>
    BY <2>1, <2>2, <2>3, <1>2, TwoPhases, NoPhaseIsARead
  <2> QED BY ONLY <2>4, <1>1, <1>5 DEF NotYet
<1>13. UnderWay'
  BY <1>1 DEF UnderWay
<1>14. Given'
  BY <1>1, NoResultYet DEF IInv
<1> QED BY <1>6, <1>9, <1>10, <1>11, <1>12, <1>13, <1>14 DEF IInv

\* So does a read.
LEMMA BeginReadKeeps ==
  ASSUME IInv, BeginRead
  PROVE  IInv'
<1> PICK k : k = reads + 1
  OBVIOUS
<1>1. /\ at = "launched" /\ running = Idle
      /\ running' = Reads[k] /\ mark' = stats
      /\ UNCHANGED <<at, stats, used, phases, fetches, reads, log, dirty, result>>
  BY DEF BeginRead, buildVars, harnessVars
<1>2. reads < 4 /\ reads \in 0..4 /\ stats \in Counters /\ Len(phases) = 3
  BY <1>1 DEF IInv, Types, WhoRuns
<1>3. k \in 1..4
  BY <1>2
<1>4. Reads[k] \in Maker /\ Reads[k] # Idle
  BY <1>3, ReadIs
<1>5. Types'
  BY <1>1, <1>4 DEF IInv, Types
<1>6. Recorded' /\ Fetched'
  BY <1>1, SameRecords, SameFetches DEF IInv
<1>7. WhoRuns'
  BY <1>1 DEF IInv, WhoRuns
<1>8. \A i \in k..4 : CallsIn(log, Reads[i]) = <<>>
  <2>1. \A i \in k..4 : Reads[i] # Idle => CallsIn(log, Reads[i]) = <<>>
    BY ONLY IInv, <1>1, k = reads + 1 DEF IInv, NotYet
  <2>2. \A i \in k..4 : i \in 1..4
    BY <1>3
  <2> QED BY <2>1, <2>2, ReadIs
<1>9. NotYet'
  <2>1. \A i \in (Len(phases) + 1)..3 : FALSE
    BY <1>2
  <2> QED BY <1>1, <1>8, <2>1 DEF NotYet
<1>10. UnderWay'
  <2>1. k \in k..4
    BY <1>3
  <2> QED BY <1>1, <1>2, <1>8, <2>1, ChargesNone DEF UnderWay
<1>11. Given'
  BY <1>1, NoResultYet DEF IInv
<1> QED BY <1>5, <1>6, <1>7, <1>9, <1>10, <1>11 DEF IInv

\* A read of a table that ends leaves what it was charged.
LEMMA EndReadKeeps ==
  ASSUME IInv, EndRead
  PROVE  IInv'
<1> PICK k : k = reads + 1
  OBVIOUS
<1> PICK fetch : fetch = FetchRecord(running, stats, mark)
  OBVIOUS
<1>1. /\ at = "launched" /\ running # Idle
      /\ fetches' \in {fetches, Append(fetches, fetch)}
      /\ reads' = k /\ running' = Idle /\ mark' = NoCrossing
      /\ at' = IF k = 4 THEN "resulting" ELSE at
      /\ UNCHANGED <<stats, used, phases, log, dirty, result>>
  BY Lengths DEF EndRead, buildVars
<1>2. /\ reads < 4 /\ reads \in 0..4 /\ running = Reads[k] /\ Len(phases) = 3 /\ running \in Maker
      /\ stats \in Counters /\ mark \in Counters /\ fetches \in Seq(FetchType)
  BY <1>1 DEF IInv, Types, WhoRuns
<1>3. k \in 1..4
  BY <1>2
<1>4. Charges(stats, mark, CallsIn(log, running))
  BY <1>1 DEF IInv, UnderWay
<1>5. /\ fetch.name = running
      /\ fetch.moved = Bytes(CallsIn(log, running), "read")
      /\ fetch.calls = Len(CallsIn(log, running))
  <2> PICK phase : phase = PhaseRecord(running, stats, mark, used)
    OBVIOUS
  <2>1. fetch.moved = phase.read /\ fetch.calls = phase.total /\ fetch.name = running
    BY DEF FetchRecord, PhaseRecord
  <2>2. IsChargedWith(phase, CallsIn(log, running))
    BY <1>4 DEF Charges
  <2> QED BY <2>1, <2>2 DEF IsChargedWith
<1>6. fetch \in FetchType
  <2>1. Read(stats, mark) \in Int /\ stats.total - mark.total \in Int
    BY <1>2 DEF Read, Counters
  <2> QED BY <2>1, <1>2 DEF FetchRecord, FetchType
<1>7. Types'
  <2>1. fetches' \in Seq(FetchType)
    BY <1>1, <1>2, <1>6
  <2>2. reads' \in 0..4
    BY <1>1, <1>3
  <2>3. at' \in {"launched", "resulting"}
    BY <1>1
  <2> QED BY <1>1, <2>1, <2>2, <2>3, NoCrossingType DEF IInv, Types
<1>8. Recorded'
  BY <1>1, SameRecords DEF IInv
<1>9. Fetched'
  <2> SUFFICES ASSUME NEW i \in 1..Len(fetches')
               PROVE  /\ \E j \in 1..k : fetches'[i].name = Reads[j]
                      /\ fetches'[i].moved = Bytes(CallsIn(log, fetches'[i].name), "read")
                      /\ fetches'[i].calls = Len(CallsIn(log, fetches'[i].name))
    BY <1>1 DEF Fetched
  <2>1. CASE i \in 1..Len(fetches)
    <3>1. fetches'[i] = fetches[i]
      BY <1>1, <1>2, <1>6, <2>1
    <3>2. PICK j \in 1..reads : fetches[i].name = Reads[j]
      BY <2>1 DEF IInv, Fetched
    <3>3. j \in 1..k
      BY <1>2
    <3>4. /\ fetches[i].moved = Bytes(CallsIn(log, fetches[i].name), "read")
          /\ fetches[i].calls = Len(CallsIn(log, fetches[i].name))
      BY <2>1 DEF IInv, Fetched
    <3> QED BY <3>1, <3>2, <3>3, <3>4
  <2>2. CASE i \notin 1..Len(fetches)
    <3>1. fetches'[i] = fetch
      BY <1>1, <1>2, <1>6, <2>2
    <3> QED BY <3>1, <1>2, <1>3, <1>5
  <2> QED BY <2>1, <2>2
<1>10. WhoRuns'
  BY <1>1, <1>2, <1>3 DEF WhoRuns
<1>11. NotYet'
  <2>1. \A i \in k..4 : Reads[i] # running => CallsIn(log, Reads[i]) = <<>>
    BY ONLY IInv, <1>1, k = reads + 1 DEF IInv, NotYet
  <2>2. \A i \in (k + 1)..4 : i \in k..4 /\ i \in 1..4 /\ i # k
    BY <1>3
  <2>3. \A i \in (k + 1)..4 : CallsIn(log, Reads[i]) = <<>>
    BY <2>1, <2>2, <1>2, <1>3, TwoReads
  <2>4. \A i \in (Len(phases) + 1)..3 : FALSE
    BY <1>2
  <2> QED BY ONLY <2>3, <2>4, <1>1 DEF NotYet
<1>12. UnderWay'
  BY <1>1 DEF UnderWay
<1>13. Given'
  BY <1>1, NoResultYet DEF IInv
<1> QED BY <1>7, <1>8, <1>9, <1>10, <1>11, <1>12, <1>13 DEF IInv

\* The header is read for no phase and no fetch.
LEMMA ReadsHeaderKeeps ==
  ASSUME IInv, ReadsHeader
  PROVE  IInv'
<1>1. /\ at = "resulting" /\ running' = "produced header"
      /\ UNCHANGED <<at, stats, mark, used, phases, fetches, reads, log, dirty, result>>
  BY DEF ReadsHeader, buildVars, harnessVars
<1>2. Types'
  BY <1>1 DEF IInv, Types, Maker
<1>3. Recorded' /\ Fetched'
  BY <1>1, SameRecords, SameFetches DEF IInv
<1>4. WhoRuns' /\ NotYet' /\ UnderWay'
  BY <1>1 DEF WhoRuns, NotYet, UnderWay
<1>5. Given'
  BY <1>1, NoResultYet DEF IInv
<1> QED BY <1>2, <1>3, <1>4, <1>5 DEF IInv

\* The result is taken, and the SD flushed.
LEMMA TakeResultKeeps ==
  ASSUME IInv, TakeResult
  PROVE  IInv'
<1>1. /\ at = "resulting" /\ running = Idle /\ result' = Result /\ dirty' = FALSE /\ at' = "over"
      /\ UNCHANGED <<running, stats, mark, used, phases, fetches, reads, log>>
  BY DEF TakeResult, harnessVars
<1>2. Types'
  BY <1>1 DEF IInv, Types, Result
<1>3. Recorded' /\ Fetched'
  BY <1>1, SameRecords, SameFetches DEF IInv
<1>4. WhoRuns' /\ NotYet' /\ UnderWay'
  BY <1>1 DEF WhoRuns, NotYet, UnderWay
<1>5. Given'
  <2>1. ReportAddsUp'
    BY <1>1, ResultAddsUp DEF IInv, ReportAddsUp
  <2> QED BY <1>1, <2>1 DEF Given
<1> QED BY <1>2, <1>3, <1>4, <1>5 DEF IInv

\* Nobody made a call in an empty log.
LEMMA NoCallYet == \A who : CallsIn(<<>>, who) = <<>>
<1> SUFFICES ASSUME NEW who PROVE CallsIn(<<>>, who) = <<>>
  OBVIOUS
<1> PICK mine : mine = Kept(<<>>, [by : {who}, call : Call])
  OBVIOUS
<1>1. mine = <<>>
  BY KeptOfNone
<1>2. CallsIn(<<>>, who) = [i \in DOMAIN mine |-> mine[i].call]
  BY DEF CallsIn
<1>3. DOMAIN mine = {}
  BY <1>1
<1>4. CallsIn(<<>>, who) = [i \in {} |-> mine[i].call]
  BY <1>2, <1>3
<1>5. <<>> = [i \in {} |-> mine[i].call]
  OBVIOUS
<1> QED BY <1>4, <1>5

\* The invariant holds at first,
LEMMA InitKeeps == Init => IInv
<1> SUFFICES ASSUME Init PROVE IInv
  OBVIOUS
<1>1. Types
  <2>1. <<>> \in Seq(PhaseType) /\ <<>> \in Seq(FetchType) /\ <<>> \in Seq(Entry) /\ Len(<<>>) = 0
    OBVIOUS
  <2>2. 0 \in 0..MaxPages /\ 0 \in 0..4
    BY LaunchAssumption
  <2> QED BY <2>1, <2>2, NoCrossingType DEF Init, Types, None, Maker
<1>2. Recorded /\ Fetched
  <2>1. Len(phases) = 0 /\ Len(fetches) = 0
    BY DEF Init
  <2> QED BY <2>1 DEF Recorded, Fetched
<1>3. NotYet
  <2>1. \A who : CallsIn(log, who) = <<>>
    BY NoCallYet DEF Init
  <2> QED BY <2>1 DEF NotYet
<1>4. WhoRuns /\ UnderWay /\ Given
  BY DEF Init, WhoRuns, UnderWay, Given, None
<1> QED BY <1>1, <1>2, <1>3, <1>4 DEF IInv

\* and every step keeps it.
LEMMA StepKeeps == IInv /\ [Next]_vars => IInv'
<1> SUFFICES ASSUME IInv, [Next]_vars PROVE IInv'
  OBVIOUS
<1>1. ASSUME NEW c \in Call, Crosses(c) PROVE IInv'
  BY <1>1, CrossesKeeps
<1>2. ASSUME NEW p \in Pool, NEW pages \in 0..MaxPages, TouchesMemory(p, pages) PROVE IInv'
  <2>1. used' \in [Pool -> 0..MaxPages]
    BY <1>2 DEF TouchesMemory, IInv, Types
  <2> QED BY <1>2, <2>1, BuildStepKeeps DEF TouchesMemory, harnessVars
<1>3. CASE BeginInitialize
  <2>1. used' \in [Pool -> 0..MaxPages]
    BY <1>3 DEF BeginInitialize, buildVars, IInv, Types
  <2> QED BY <1>3, <2>1, BuildStepKeeps DEF BeginInitialize, buildVars
<1>4. CASE HarnessIsMade
  BY <1>4, HarnessIsMadeKeeps
<1>5. CASE BeginPhase
  BY <1>5, BeginPhaseKeeps
<1>6. CASE EndPhase
  BY <1>6, EndPhaseKeeps
<1>7. CASE BeginRead
  BY <1>7, BeginReadKeeps
<1>8. CASE EndRead
  BY <1>8, EndReadKeeps
<1>9. CASE RomfsIsCorrupt
  BY <1>9, StopKeeps DEF RomfsIsCorrupt, buildVars, harnessVars
<1>10. CASE ReadsHeader
  BY <1>10, ReadsHeaderKeeps
<1>11. CASE HeaderIsRead
  BY <1>11, StopKeeps DEF HeaderIsRead, buildVars
<1>12. CASE HeaderOfNothing
  BY <1>12, StopKeeps DEF HeaderOfNothing, buildVars, harnessVars
<1>13. CASE TakeResult
  BY <1>13, TakeResultKeeps
<1>14. CASE LaunchFails
  BY <1>14, StopKeeps DEF LaunchFails, buildVars, harnessVars
<1>15. CASE ModuleRefuses
  BY <1>15, StopKeeps DEF ModuleRefuses, buildVars, harnessVars
<1>16. CASE SomethingRaises
  BY <1>16, StopKeeps DEF SomethingRaises, buildVars, harnessVars
<1>17. CASE NothingToInitialize
  BY <1>17, StopKeeps DEF NothingToInitialize, buildVars, harnessVars
<1>18. CASE Over
  BY <1>18, StutterKeeps DEF Over
<1>19. CASE UNCHANGED vars
  BY <1>19, StutterKeeps
<1> QED BY <1>1, <1>2, <1>3, <1>4, <1>5, <1>6, <1>7, <1>8, <1>9, <1>10, <1>11, <1>12, <1>13, <1>14,
           <1>15, <1>16, <1>17, <1>18, <1>19 DEF Next

-----------------------------------------------------------------------------
(* The theorems *)

\* The invariant the three below follow from, at every moment of the run.
THEOREM InductiveInvariant == Spec => []IInv
<1> QED BY InitKeeps, StepKeeps, PTL DEF Spec

\* Harness.phase and read_back: however the crossings fall between the
\* constructor, the phases, the reads and the header, a phase is charged every
\* one the build made while it ran and no other, and a fetch what it read.
THEOREM ChargesHold == Spec => []EachIsChargedItsOwn
<1>1. IInv => EachIsChargedItsOwn
  <2> SUFFICES ASSUME IInv PROVE EachIsChargedItsOwn
    OBVIOUS
  <2>1. DOMAIN phases = 1..Len(phases) /\ DOMAIN fetches = 1..Len(fetches)
    BY DEF IInv, Types
  <2> QED BY <2>1 DEF IInv, Recorded, Fetched, EachIsChargedItsOwn, CallsBy
<1> QED BY <1>1, InductiveInvariant, PTL

\* Harness.result: what a result breaks down adds up to the totals beside it.
THEOREM ReportHolds == Spec => []ReportAddsUp
<1>1. IInv => ReportAddsUp
  BY DEF IInv, Given, ReportAddsUp
<1> QED BY <1>1, InductiveInvariant, PTL

\* write_sd: a run that gave a result left nothing of the build's unwritten.
THEOREM FlushHolds == Spec => []ResultIsOnTheSD
<1>1. IInv => ResultIsOnTheSD
  BY DEF IInv, Given, ResultIsOnTheSD
<1> QED BY <1>1, InductiveInvariant, PTL

=============================================================================
