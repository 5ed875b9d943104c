-------------------------- MODULE Accounting_proofs --------------------------
(***************************************************************************)
(* That Accounting charges every byte to a row, tells ground covered again *)
(* from ground that is new, and has every call on one line, for every set  *)
(* of calls, every layout and any number of phases.                        *)
(***************************************************************************)
EXTENDS Accounting, WellFoundedInduction, FiniteSetTheorems, SequenceTheorems, TLAPS

-----------------------------------------------------------------------------
(* Loops, and what Kept keeps *)

Below == {p \in Nat \X Nat : p[1] < p[2]}

\* The order of the naturals has no endless descent.
LEMMA BelowWellFounded == IsWellFoundedOn(Below, Nat)
  BY NatLessThanWellFounded DEF OpToRel, Below

\* Some naturals have a least one.
LEMMA LeastNatural ==
  ASSUME NEW T \in SUBSET Nat, T # {}
  PROVE  \E x \in T : \A y \in T : x <= y
<1>1. PICK x \in T : \A y \in T : <<y, x>> \notin Below
  BY BelowWellFounded, WFMin
<1>2. ASSUME NEW y \in T, ~(x <= y) PROVE FALSE
  <2>1. <<y, x>> \in Nat \X Nat /\ <<y, x>>[1] < <<y, x>>[2]
    BY <1>2
  <2> QED BY <2>1, <1>1, <1>2 DEF Below
<1> QED BY <1>1, <1>2

\* What holds of 0 and, with a number, of the next, holds of every number.
LEMMA InductionTo ==
  ASSUME NEW n \in Nat, NEW T \in SUBSET Nat, 0 \in T,
         \A i \in 1..n : i - 1 \in T => i \in T
  PROVE  0..n \subseteq T
<1> SUFFICES ASSUME (0..n) \ T # {} PROVE FALSE
  OBVIOUS
<1>1. PICK x \in (0..n) \ T : \A y \in (0..n) \ T : x <= y
  <2>1. (0..n) \ T \in SUBSET Nat
    OBVIOUS
  <2> QED BY <2>1, LeastNatural
<1>2. x # 0 /\ x \in 1..n /\ x - 1 \in 0..n
  BY <1>1
<1>3. x - 1 \in T
  BY <1>1, <1>2
<1> QED BY <1>1, <1>2, <1>3

\* What a loop of n turns holds after each, from a and by g.
Loops(n, A, a, g) ==
  {f \in [0..n -> A] : f[0] = a /\ \A i \in 1..n : f[i] = g[<<i, f[i - 1]>>]}

\* A loop that passes its turns on is a function of the turn.
LEMMA LoopExists ==
  ASSUME NEW n \in Nat, NEW A, NEW a \in A, NEW g \in [(1..n) \X A -> A]
  PROVE  \E f : f \in Loops(n, A, a, g)
<1> DEFINE Runs(m) == \E f \in [0..m -> A] : f[0] = a /\ \A i \in 1..m : f[i] = g[<<i, f[i - 1]>>]
           T == {m \in 0..n : Runs(m)}
<1>1. 0 \in T
  <2>1. Runs(0)
    <3> DEFINE h == [i \in 0..0 |-> a]
    <3>1. h \in [0..0 -> A] /\ h[0] = a
      OBVIOUS
    <3>2. \A i \in 1..0 : h[i] = g[<<i, h[i - 1]>>]
      OBVIOUS
    <3> HIDE DEF h
    <3> QED BY <3>1, <3>2
  <2> QED BY <2>1
<1>2. ASSUME NEW m \in 1..n, m - 1 \in T PROVE m \in T
  <2>1. PICK f \in [0..(m-1) -> A] : f[0] = a /\ \A i \in 1..(m-1) : f[i] = g[<<i, f[i - 1]>>]
    BY <1>2
  <2> DEFINE h == [i \in 0..m |-> IF i = m THEN g[<<m, f[m-1]>>] ELSE f[i]]
  <2>2. g[<<m, f[m-1]>>] \in A
    <3>1. <<m, f[m-1]>> \in (1..n) \X A
      BY <1>2, <2>1
    <3> QED BY <3>1
  <2>3. h \in [0..m -> A]
    BY <1>2, <2>1, <2>2
  <2>4. h[0] = a
    BY <1>2, <2>1
  <2>5. ASSUME NEW i \in 1..m PROVE h[i] = g[<<i, h[i - 1]>>]
    <3>1. h[i-1] = f[i-1]
      BY <1>2, <2>5
    <3>2. CASE i = m
      BY <3>1, <3>2, <1>2
    <3>3. CASE i # m
      <4>1. i \in 1..(m-1) /\ h[i] = f[i]
        BY <3>3, <1>2, <2>5
      <4> QED BY <4>1, <3>1, <2>1
    <3> QED BY <3>2, <3>3
  <2>6. Runs(m)
    <3> HIDE DEF h
    <3> QED BY <2>3, <2>4, <2>5
  <2> QED BY <2>6
<1>3. T \in SUBSET Nat
  OBVIOUS
<1>4. n \in T
  <2> HIDE DEF T
  <2>1. 0..n \subseteq T
    BY <1>1, <1>2, <1>3, InductionTo
  <2> QED BY <2>1
<1> QED BY <1>4 DEF Loops

\* What is kept of s up to each of its entries, as Kept has it.
KeptUpTo(s, S) ==
  CHOOSE k : k = [i \in 0..Len(s) |->
                    IF i = 0 THEN <<>>
                    ELSE IF s[i] \in S THEN Append(k[i - 1], s[i]) ELSE k[i - 1]]

\* k is what is kept of s after each of its entries.
Keeps(k, s, S) ==
  /\ k[0] = <<>>
  /\ \A i \in 1..Len(s) : k[i] = IF s[i] \in S THEN Append(k[i - 1], s[i]) ELSE k[i - 1]

\* Kept does what is meant: each turn adds the entry it keeps.
LEMMA KeptEach ==
  ASSUME NEW B, NEW s \in Seq(B), NEW S
  PROVE  /\ Kept(s, S) = KeptUpTo(s, S)[Len(s)]
         /\ KeptUpTo(s, S) \in [0..Len(s) -> Seq(B \cap S)]
         /\ Keeps(KeptUpTo(s, S), s, S)
<1> PICK n \in Nat : n = Len(s)
  OBVIOUS
<1> PICK A : A = Seq(B \cap S)
  OBVIOUS
<1> DEFINE g == [p \in (1..n) \X A |-> IF s[p[1]] \in S THEN Append(p[2], s[p[1]]) ELSE p[2]]
<1>1. g \in [(1..n) \X A -> A]
  <2>1. ASSUME NEW p \in (1..n) \X A
        PROVE  (IF s[p[1]] \in S THEN Append(p[2], s[p[1]]) ELSE p[2]) \in A
    <3>1. p[1] \in 1..n /\ p[2] \in Seq(B \cap S) /\ s[p[1]] \in B
      OBVIOUS
    <3>2. s[p[1]] \in S => Append(p[2], s[p[1]]) \in Seq(B \cap S)
      BY <3>1
    <3> QED BY <3>1, <3>2
  <2> QED BY <2>1
<1>2. PICK f \in [0..n -> A] : f[0] = <<>> /\ \A i \in 1..n : f[i] = g[<<i, f[i - 1]>>]
  <2> HIDE DEF g
  <2>1. <<>> \in A
    OBVIOUS
  <2>2. PICK f : f \in Loops(n, A, <<>>, g)
    BY ONLY <1>1, <2>1, n \in Nat, LoopExists
  <2> QED BY ONLY <2>2 DEF Loops
<1>3. ASSUME NEW i \in 1..n
      PROVE  f[i] = IF s[i] \in S THEN Append(f[i - 1], s[i]) ELSE f[i - 1]
  <2>1. <<i, f[i-1]>> \in (1..n) \X A
    <3>1. i - 1 \in 0..n
      BY <1>3
    <3>2. f[i - 1] \in A
      BY <3>1
    <3> QED BY <3>2
  <2> QED BY <2>1, <1>2
<1> HIDE DEF g
<1>4. f = [i \in 0..n |-> IF i = 0 THEN <<>> ELSE IF s[i] \in S THEN Append(f[i - 1], s[i]) ELSE f[i - 1]]
  <2>1. ASSUME NEW i \in 0..n
        PROVE  f[i] = IF i = 0 THEN <<>> ELSE IF s[i] \in S THEN Append(f[i - 1], s[i]) ELSE f[i - 1]
    <3>1. CASE i = 0
      BY ONLY <3>1, <1>2
    <3>2. CASE i # 0
      <4>1. i \in 1..n
        BY ONLY <2>1, <3>2, n \in Nat
      <4> QED BY ONLY <4>1, <3>2, <1>3
    <3> QED BY <3>1, <3>2
  <2> QED BY ONLY <2>1, f \in [0..n -> A]
<1>5. KeptUpTo(s, S) = [i \in 0..n |-> IF i = 0 THEN <<>>
         ELSE IF s[i] \in S THEN Append(KeptUpTo(s, S)[i - 1], s[i]) ELSE KeptUpTo(s, S)[i - 1]]
  BY ONLY <1>4, n = Len(s) DEF KeptUpTo
<1>6. Kept(s, S) = KeptUpTo(s, S)[n]
  BY DEF Kept, KeptUpTo
<1> PICK r : r = KeptUpTo(s, S)
  OBVIOUS
<1>7. r[0] = <<>> /\ \A i \in 1..n : r[i] = IF s[i] \in S THEN Append(r[i - 1], s[i]) ELSE r[i - 1]
  <2>1. r = [i \in 0..n |-> IF i = 0 THEN <<>> ELSE IF s[i] \in S THEN Append(r[i - 1], s[i]) ELSE r[i - 1]]
    BY ONLY <1>5, r = KeptUpTo(s, S)
  <2>2. r[0] = <<>>
    <3>1. 0 \in 0..n
      OBVIOUS
    <3> QED BY ONLY <2>1, <3>1
  <2>3. ASSUME NEW i \in 1..n
        PROVE  r[i] = IF s[i] \in S THEN Append(r[i - 1], s[i]) ELSE r[i - 1]
    <3>1. i \in 0..n /\ i # 0
      BY ONLY <2>3, n \in Nat
    <3> QED BY ONLY <2>1, <3>1
  <2> QED BY ONLY <2>2, <2>3
<1>8. \A i \in 0..n : r[i] = f[i]
  <2> DEFINE T == {i \in 0..n : r[i] = f[i]}
  <2>1. 0 \in T /\ T \in SUBSET Nat
    BY <1>2, <1>7
  <2>2. ASSUME NEW i \in 1..n, i - 1 \in T PROVE i \in T
    <3>1. r[i - 1] = f[i - 1]
      BY <2>2
    <3>2. r[i] = f[i]
      BY <3>1, <1>3, <1>7
    <3> QED BY <3>2
  <2>3. 0..n \subseteq T
    <3> HIDE DEF T
    <3> QED BY ONLY <2>1, <2>2, n \in Nat, InductionTo
  <2> QED BY <2>3
<1>9. r = [i \in 0..n |-> r[i]]
  BY ONLY <1>5, r = KeptUpTo(s, S)
<1>10. r \in [0..n -> A]
  BY <1>8, <1>9, <1>2
<1>11. Keeps(r, s, S)
  BY ONLY <1>7, n = Len(s) DEF Keeps
<1> QED BY <1>6, <1>10, <1>11

\* what it keeps is of the kind of what there was,
LEMMA KeptType ==
  ASSUME NEW B, NEW s \in Seq(B), NEW S
  PROVE  Kept(s, S) \in Seq(B \cap S)
<1>1. Len(s) \in 0..Len(s)
  OBVIOUS
<1>2. /\ Kept(s, S) = KeptUpTo(s, S)[Len(s)]
      /\ KeptUpTo(s, S) \in [0..Len(s) -> Seq(B \cap S)]
  BY ONLY s \in Seq(B), KeptEach
<1> QED BY ONLY <1>1, <1>2

-----------------------------------------------------------------------------
(* Sums over finite sets *)

\* Of subsets of a finite set, some that hold of no subset hold of a least one.
LEMMA LeastSubset ==
  ASSUME NEW S, IsFiniteSet(S), NEW X \in SUBSET SUBSET S, X # {}
  PROVE  \E T \in X : \A U \in SUBSET T : U # T => U \notin X
<1>1. \A T \in SUBSET S : IsFiniteSet(T) /\ Cardinality(T) \in Nat
  BY FS_Subset, FS_CardinalityType
<1> DEFINE C == {Cardinality(T) : T \in X}
<1>2. C \in SUBSET Nat /\ C # {}
  BY <1>1
<1>3. PICK c \in C : \A d \in C : c <= d
  <2> HIDE DEF C
  <2> QED BY ONLY <1>2, LeastNatural
<1>4. PICK T \in X : c = Cardinality(T)
  BY <1>3
<1>5. ASSUME NEW U \in SUBSET T, U # T, U \in X PROVE FALSE
  <2>1. IsFiniteSet(T) /\ Cardinality(T) \in Nat /\ Cardinality(U) \in Nat
    BY <1>1, <1>4, <1>5
  <2>2. Cardinality(U) <= Cardinality(T) /\ (Cardinality(T) = Cardinality(U) => T = U)
    BY ONLY <2>1, U \in SUBSET T, FS_Subset
  <2>3. c <= Cardinality(U)
    BY <1>3, <1>5
  <2> QED BY <2>1, <2>2, <2>3, <1>4, <1>5
<1> QED BY <1>4, <1>5

\* The element TotalOver takes out of T.
Taken(T) == CHOOSE x \in T : TRUE

\* What a turn over a set takes is in the set.
LEMMA TakenIsIn ==
  ASSUME NEW T, T # {}
  PROVE  Taken(T) \in T
  BY DEF Taken

\* t adds up f over every subset of S.
Sums(t, f, S) ==
  /\ t \in [SUBSET S -> Int]
  /\ t[{}] = 0
  /\ \A T \in SUBSET S : T # {} => t[T] = f[Taken(T)] + t[T \ {Taken(T)}]

\* Such a t there is ...
LEMMA SumsExist ==
  ASSUME NEW S, IsFiniteSet(S), NEW f, \A x \in S : f[x] \in Int
  PROVE  \E t : Sums(t, f, S)
<1> DEFINE UpTo(h, m) ==
             /\ h \in [SUBSET S -> Int]
             /\ h[{}] = 0
             /\ \A T \in SUBSET S : T # {} /\ Cardinality(T) <= m
                                      => h[T] = f[Taken(T)] + h[T \ {Taken(T)}]
           n == Cardinality(S)
           M == {m \in 0..n : \E h : UpTo(h, m)}
<1>1. \A T \in SUBSET S : /\ IsFiniteSet(T) /\ Cardinality(T) \in 0..n /\ n \in Nat
                          /\ Cardinality(T) = 0 <=> T = {}
  BY FS_Subset, FS_CardinalityType, FS_EmptySet
<1>2. \A T \in SUBSET S : T # {} => /\ Taken(T) \in S /\ Taken(T) \in T
                                    /\ T \ {Taken(T)} \in SUBSET S
                                    /\ Cardinality(T \ {Taken(T)}) = Cardinality(T) - 1
  BY <1>1, TakenIsIn, FS_RemoveElement
<1>3. 0 \in M
  <2> DEFINE h == [T \in SUBSET S |-> 0]
  <2>1. h \in [SUBSET S -> Int] /\ h[{}] = 0
    OBVIOUS
  <2>2. \A T \in SUBSET S : ~(T # {} /\ Cardinality(T) <= 0)
    BY <1>1
  <2>3. UpTo(h, 0)
    <3> HIDE DEF h
    <3> QED BY <2>1, <2>2
  <2>4. 0 \in 0..n
    BY <1>1
  <2> HIDE DEF h, UpTo, n
  <2> QED BY <2>3, <2>4
<1>4. ASSUME NEW m \in 1..n, m - 1 \in M PROVE m \in M
  <2>1. PICK h : UpTo(h, m - 1)
    BY <1>4
  <2> DEFINE w == [T \in SUBSET S |-> IF Cardinality(T) = m THEN f[Taken(T)] + h[T \ {Taken(T)}] ELSE h[T]]
  <2>2. n \in Nat /\ m # 0
    BY <1>1
  <2>3. ASSUME NEW T \in SUBSET S, Cardinality(T) = m
        PROVE  f[Taken(T)] + h[T \ {Taken(T)}] \in Int
    <3>1. T # {}
      BY <2>2, <2>3, <1>1
    <3>2. Taken(T) \in S /\ T \ {Taken(T)} \in SUBSET S
      BY <3>1, <1>2
    <3>3. h[T \ {Taken(T)}] \in Int
      BY <3>2, <2>1
    <3>4. f[Taken(T)] \in Int
      BY <3>2
    <3> QED BY ONLY <3>3, <3>4
  <2>4. w \in [SUBSET S -> Int]
    BY <2>1, <2>3
  <2>5. w[{}] = 0
    BY <2>1, <2>2, <1>1
  <2>6. ASSUME NEW T \in SUBSET S, T # {}, Cardinality(T) <= m
        PROVE  w[T] = f[Taken(T)] + w[T \ {Taken(T)}]
    <3> PICK U : U = T \ {Taken(T)}
      OBVIOUS
    <3>1. U \in SUBSET S /\ Cardinality(U) = Cardinality(T) - 1 /\ Cardinality(T) \in Int
      BY <2>6, <1>1, <1>2
    <3>2. w[U] = h[U]
      BY <3>1, <2>2, <2>6
    <3>3. w[T] = f[Taken(T)] + h[U]
      <4>1. CASE Cardinality(T) = m
        BY <4>1
      <4>2. CASE Cardinality(T) # m
        <5>1. Cardinality(T) <= m - 1 /\ w[T] = h[T]
          BY <4>2, <3>1, <2>2, <2>6
        <5> QED BY <5>1, <2>1, <2>6
      <4> QED BY <4>1, <4>2
    <3> QED BY <3>2, <3>3
  <2>7. UpTo(w, m)
    <3> HIDE DEF w
    <3> QED BY <2>4, <2>5, <2>6
  <2>8. m \in 0..n
    BY <2>2
  <2> HIDE DEF w, UpTo, n
  <2> QED BY <2>7, <2>8
<1>5. n \in M
  <2>1. n \in Nat /\ M \in SUBSET Nat
    BY <1>1
  <2> HIDE DEF M, n
  <2>2. 0..n \subseteq M
    BY ONLY <1>3, <1>4, <2>1, InductionTo
  <2> QED BY <2>1, <2>2
<1>6. PICK h : UpTo(h, n)
  BY <1>5
<1>7. \A T \in SUBSET S : Cardinality(T) <= n
  BY <1>1
<1>8. \A T \in SUBSET S : T # {} => h[T] = f[Taken(T)] + h[T \ {Taken(T)}]
  <2> HIDE DEF n, M
  <2> QED BY <1>6, <1>7
<1>9. h \in [SUBSET S -> Int] /\ h[{}] = 0
  BY <1>6
<1> QED BY ONLY <1>8, <1>9 DEF Sums

\* TotalOver is the value such a t has on the whole set.
LEMMA TotalOverIs ==
  ASSUME NEW S, IsFiniteSet(S), NEW f, \A x \in S : f[x] \in Int
  PROVE  \E t : Sums(t, f, S) /\ TotalOver(f, S) = t[S]
<1> PICK v : v = (CHOOSE t : t = [T \in SUBSET S |-> IF T = {} THEN 0 ELSE f[Taken(T)] + t[T \ {Taken(T)}]])
  OBVIOUS
<1>1. TotalOver(f, S) = v[S]
  BY DEF TotalOver, Taken
<1>2. PICK h : Sums(h, f, S)
  BY SumsExist
<1>3. h = [T \in SUBSET S |-> IF T = {} THEN 0 ELSE f[Taken(T)] + h[T \ {Taken(T)}]]
  BY <1>2 DEF Sums
<1>4. v = [T \in SUBSET S |-> IF T = {} THEN 0 ELSE f[Taken(T)] + v[T \ {Taken(T)}]]
  BY ONLY <1>3, v = (CHOOSE t : t = [T \in SUBSET S |-> IF T = {} THEN 0 ELSE f[Taken(T)] + t[T \ {Taken(T)}]])
<1>5. v[{}] = 0 /\ \A T \in SUBSET S : T # {} => v[T] = f[Taken(T)] + v[T \ {Taken(T)}]
  BY ONLY <1>4
<1>6. \A T \in SUBSET S : v[T] = h[T]
  <2> DEFINE X == {T \in SUBSET S : v[T] # h[T]}
  <2> SUFFICES ASSUME X # {} PROVE FALSE
    OBVIOUS
  <2>1. PICK T \in X : \A U \in SUBSET T : U # T => U \notin X
    <3>1. X \in SUBSET SUBSET S
      OBVIOUS
    <3> HIDE DEF X
    <3> QED BY ONLY <3>1, X # {}, IsFiniteSet(S), LeastSubset
  <2>2. T # {}
    BY <2>1, <1>2, <1>5 DEF Sums
  <2>3. Taken(T) \in T
    BY <2>2, TakenIsIn
  <2>4. v[T \ {Taken(T)}] = h[T \ {Taken(T)}]
    BY <2>1, <2>3
  <2>5. v[T] = f[Taken(T)] + v[T \ {Taken(T)}] /\ h[T] = f[Taken(T)] + h[T \ {Taken(T)}]
    BY <2>1, <2>2, <1>2, <1>5 DEF Sums
  <2> QED BY <2>1, <2>4, <2>5
<1>7. v \in [SUBSET S -> Int]
  <2>1. v = [T \in SUBSET S |-> v[T]]
    BY ONLY <1>4
  <2> QED BY <2>1, <1>6, <1>2 DEF Sums
<1> QED BY <1>1, <1>5, <1>7 DEF Sums

\* No sum of what is not negative is.
LEMMA TotalOverNat ==
  ASSUME NEW S, IsFiniteSet(S), NEW f, \A x \in S : f[x] \in Nat
  PROVE  TotalOver(f, S) \in Nat
<1>1. PICK t : Sums(t, f, S) /\ TotalOver(f, S) = t[S]
  BY TotalOverIs
<1> DEFINE X == {T \in SUBSET S : t[T] \notin Nat}
<1>2. ASSUME X # {} PROVE FALSE
  <2>1. PICK T \in X : \A U \in SUBSET T : U # T => U \notin X
    <3>1. X \in SUBSET SUBSET S
      OBVIOUS
    <3> HIDE DEF X
    <3> QED BY ONLY <3>1, <1>2, IsFiniteSet(S), LeastSubset
  <2>2. T # {}
    <3>1. t[{}] = 0
      BY ONLY <1>1 DEF Sums
    <3>2. t[T] \notin Nat
      OBVIOUS
    <3>3. ASSUME T = {} PROVE FALSE
      <4>1. t[T] = 0
        BY ONLY <3>1, <3>3
      <4> QED BY ONLY <4>1, <3>2
    <3> QED BY <3>3
  <2>3. Taken(T) \in T
    BY <2>2, TakenIsIn
  <2>4. t[T] = f[Taken(T)] + t[T \ {Taken(T)}]
    BY <2>1, <2>2, <1>1 DEF Sums
  <2>5. t[T \ {Taken(T)}] \in Nat /\ f[Taken(T)] \in Nat
    BY <2>1, <2>3
  <2>6. t[T] \in Nat
    BY ONLY <2>4, <2>5
  <2> QED BY <2>1, <2>6
<1> QED BY <1>1, <1>2


\* What holds of no elements and, with all but one, of some, holds of the set.
LEMMA SubsetInduction ==
  ASSUME NEW S, IsFiniteSet(S), NEW X, {} \in X,
         \A T \in SUBSET S : T # {} /\ (\A x \in T : T \ {x} \in X) => T \in X
  PROVE  S \in X
<1> DEFINE Y == {T \in SUBSET S : T \notin X}
<1> SUFFICES ASSUME Y # {} PROVE FALSE
  OBVIOUS
<1>1. PICK T \in Y : \A U \in SUBSET T : U # T => U \notin Y
  <2>1. Y \in SUBSET SUBSET S
    OBVIOUS
  <2> HIDE DEF Y
  <2> QED BY ONLY <2>1, Y # {}, IsFiniteSet(S), LeastSubset
<1>2. \A x \in T : T \ {x} \in SUBSET T /\ T \ {x} # T /\ T \ {x} \in SUBSET S
  OBVIOUS
<1>3. \A x \in T : T \ {x} \in X
  BY <1>1, <1>2
<1> QED BY <1>1, <1>3

\* What adds up over a set adds up over its subsets alike.
LEMMA SumsAgree ==
  ASSUME NEW S, IsFiniteSet(S), NEW T \in SUBSET S, NEW f, NEW g, \A x \in T : f[x] = g[x],
         NEW t, Sums(t, f, S), NEW u, Sums(u, g, T)
  PROVE  t[T] = u[T]
<1> DEFINE X == {U \in SUBSET T : t[U] = u[U]}
<1>1. {} \in X
  BY DEF Sums
<1>2. ASSUME NEW U \in SUBSET T, U # {}, \A x \in U : U \ {x} \in X PROVE U \in X
  <2>1. Taken(U) \in U
    BY <1>2, TakenIsIn
  <2>2. U \in SUBSET S
    OBVIOUS
  <2>3. t[U] = f[Taken(U)] + t[U \ {Taken(U)}] /\ u[U] = g[Taken(U)] + u[U \ {Taken(U)}]
    BY <1>2, <2>2 DEF Sums
  <2>4. t[U \ {Taken(U)}] = u[U \ {Taken(U)}] /\ f[Taken(U)] = g[Taken(U)]
    BY <1>2, <2>1
  <2> QED BY <2>3, <2>4
<1>3. IsFiniteSet(T)
  BY FS_Subset
<1> HIDE DEF X
<1>4. T \in X
  BY ONLY <1>1, <1>2, <1>3, SubsetInduction
<1> QED BY <1>4 DEF X

\* A sum is the same of functions that agree on the set.
LEMMA SumSame ==
  ASSUME NEW S, IsFiniteSet(S), NEW f, NEW g, \A x \in S : f[x] \in Int /\ f[x] = g[x]
  PROVE  TotalOver(f, S) = TotalOver(g, S)
<1>1. PICK t : Sums(t, f, S) /\ TotalOver(f, S) = t[S]
  BY TotalOverIs
<1>2. PICK u : Sums(u, g, S) /\ TotalOver(g, S) = u[S]
  <2>1. \A x \in S : g[x] \in Int
    OBVIOUS
  <2> QED BY <2>1, TotalOverIs
<1>3. t[S] = u[S]
  BY <1>1, <1>2, SumsAgree
<1> QED BY <1>1, <1>2, <1>3

\* Integers add up to an integer.
LEMMA TotalOverInt ==
  ASSUME NEW S, IsFiniteSet(S), NEW f, \A x \in S : f[x] \in Int
  PROVE  TotalOver(f, S) \in Int
<1>1. PICK t : Sums(t, f, S) /\ TotalOver(f, S) = t[S]
  BY TotalOverIs
<1> QED BY <1>1 DEF Sums

\* Nothing adds up to 0.
LEMMA TotalOverNone == ASSUME NEW f PROVE TotalOver(f, {}) = 0
<1>1. PICK t : Sums(t, f, {}) /\ TotalOver(f, {}) = t[{}]
  BY FS_EmptySet, TotalOverIs
<1> QED BY <1>1 DEF Sums

\* A sum may take any of its elements first.
LEMMA AnyFirst ==
  ASSUME NEW S, IsFiniteSet(S), NEW f, \A x \in S : f[x] \in Int, NEW t, Sums(t, f, S)
  PROVE  \A T \in SUBSET S : \A x \in T : t[T] = f[x] + t[T \ {x}]
<1> DEFINE Y == {T \in SUBSET S : \E x \in T : t[T] # f[x] + t[T \ {x}]}
<1> SUFFICES ASSUME Y # {} PROVE FALSE
  OBVIOUS
<1>1. PICK T \in Y : \A U \in SUBSET T : U # T => U \notin Y
  <2>1. Y \in SUBSET SUBSET S
    OBVIOUS
  <2> HIDE DEF Y
  <2> QED BY ONLY <2>1, Y # {}, IsFiniteSet(S), LeastSubset
<1>2. PICK x \in T : t[T] # f[x] + t[T \ {x}]
  OBVIOUS
<1> PICK y : y = Taken(T)
  OBVIOUS
<1>3. y \in T /\ t[T] = f[y] + t[T \ {y}]
  <2>1. T # {} /\ T \in SUBSET S
    BY <1>2
  <2>2. y \in T
    BY ONLY <2>1, y = Taken(T), TakenIsIn
  <2> QED BY ONLY <2>1, <2>2, y = Taken(T), Sums(t, f, S) DEF Sums
<1>4. y # x
  BY <1>2, <1>3
<1>5. t[T \ {y}] = f[x] + t[(T \ {y}) \ {x}]
  <2>1. x \in T \ {y} /\ T \ {y} \in SUBSET S /\ T \ {y} \notin Y
    BY <1>1, <1>3, <1>4
  <2> QED BY <2>1
<1>6. t[T \ {x}] = f[y] + t[(T \ {x}) \ {y}]
  <2>1. y \in T \ {x} /\ T \ {x} \in SUBSET S /\ T \ {x} \notin Y
    BY <1>1, <1>3, <1>4
  <2> QED BY <2>1
<1>7. (T \ {y}) \ {x} = (T \ {x}) \ {y}
  OBVIOUS
<1>8. f[x] \in Int /\ f[y] \in Int /\ t[(T \ {x}) \ {y}] \in Int
  <2>1. x \in S /\ y \in S /\ (T \ {x}) \ {y} \in SUBSET S
    BY <1>3
  <2> QED BY <2>1 DEF Sums
<1> PICK a, b, c : a = f[x] /\ b = f[y] /\ c = t[(T \ {x}) \ {y}]
  OBVIOUS
<1>9. t[T] = b + (a + c) /\ t[T \ {x}] = b + c
  BY <1>3, <1>5, <1>6, <1>7
<1>10. t[T] = a + t[T \ {x}]
  BY <1>8, <1>9
<1> QED BY <1>2, <1>10

\* A sum is one of its values and the sum of the others.
LEMMA SumSplit ==
  ASSUME NEW S, IsFiniteSet(S), NEW f, \A x \in S : f[x] \in Int, NEW x \in S
  PROVE  TotalOver(f, S) = f[x] + TotalOver(f, S \ {x})
<1>1. PICK t : Sums(t, f, S) /\ TotalOver(f, S) = t[S]
  BY TotalOverIs
<1> PICK T : T = S \ {x}
  OBVIOUS
<1>2. IsFiniteSet(T) /\ T \in SUBSET S
  BY FS_Subset
<1>3. PICK u : Sums(u, f, T) /\ TotalOver(f, T) = u[T]
  <2>1. \A y \in T : f[y] \in Int
    BY <1>2
  <2> QED BY <1>2, <2>1, TotalOverIs
<1>4. t[T] = u[T]
  BY <1>1, <1>2, <1>3, SumsAgree
<1>5. t[S] = f[x] + t[S \ {x}]
  <2>1. S \in SUBSET S
    OBVIOUS
  <2> QED BY <1>1, <2>1, AnyFirst
<1> QED BY <1>1, <1>3, <1>4, <1>5

\* An element more adds its value.
LEMMA SumAdd ==
  ASSUME NEW S, IsFiniteSet(S), NEW x, x \notin S, NEW f, \A y \in S \cup {x} : f[y] \in Int
  PROVE  TotalOver(f, S \cup {x}) = TotalOver(f, S) + f[x]
<1>1. IsFiniteSet(S \cup {x}) /\ x \in S \cup {x} /\ (S \cup {x}) \ {x} = S
  BY FS_AddElement
<1>2. TotalOver(f, S \cup {x}) = f[x] + TotalOver(f, S)
  <2>1. TotalOver(f, S \cup {x}) = f[x] + TotalOver(f, (S \cup {x}) \ {x})
    BY ONLY <1>1, \A y \in S \cup {x} : f[y] \in Int, SumSplit
  <2> QED BY <1>1, <2>1
<1>3. TotalOver(f, S) \in Int /\ f[x] \in Int
  BY TotalOverInt
<1> QED BY <1>2, <1>3

\* One value changed changes the sum by as much.
LEMMA SumBump ==
  ASSUME NEW S, IsFiniteSet(S), NEW f, NEW g, NEW x \in S,
         \A y \in S : f[y] \in Int /\ g[y] \in Int,
         \A y \in S \ {x} : g[y] = f[y]
  PROVE  TotalOver(g, S) = TotalOver(f, S) + g[x] - f[x]
<1> PICK T : T = S \ {x}
  OBVIOUS
<1>1. IsFiniteSet(T) /\ \A y \in T : f[y] \in Int /\ g[y] \in Int /\ f[y] = g[y]
  BY FS_Subset
<1>2. TotalOver(f, T) = TotalOver(g, T)
  BY ONLY <1>1, SumSame
<1>3. TotalOver(f, S) = f[x] + TotalOver(f, T)
  BY SumSplit
<1>4. TotalOver(g, S) = g[x] + TotalOver(g, T)
  BY SumSplit
<1>5. TotalOver(f, T) \in Int /\ f[x] \in Int /\ g[x] \in Int
  BY <1>1, TotalOverInt
<1> QED BY <1>2, <1>3, <1>4, <1>5

\* What only adds 0 may be left out.
LEMMA SumOnly ==
  ASSUME NEW S, IsFiniteSet(S), NEW T \in SUBSET S, NEW f, \A x \in S : f[x] \in Int,
         \A x \in S \ T : f[x] = 0
  PROVE  TotalOver(f, S) = TotalOver(f, T)
<1> DEFINE X == {U \in SUBSET (S \ T) : TotalOver(f, T \cup U) = TotalOver(f, T)}
<1>1. {} \in X
  OBVIOUS
<1>2. ASSUME NEW U \in SUBSET (S \ T), U # {}, \A x \in U : U \ {x} \in X PROVE U \in X
  <2> PICK x \in U : TRUE
    BY <1>2
  <2> PICK V : V = T \cup (U \ {x})
    OBVIOUS
  <2>1. IsFiniteSet(V) /\ x \notin V /\ V \cup {x} = T \cup U /\ f[x] = 0
        /\ \A y \in V \cup {x} : f[y] \in Int
    <3>1. V \in SUBSET S
      OBVIOUS
    <3> QED BY <3>1, FS_Subset
  <2>2. TotalOver(f, V \cup {x}) = TotalOver(f, V) + f[x]
    BY <2>1, SumAdd
  <2>3. TotalOver(f, V) \in Int /\ TotalOver(f, V) = TotalOver(f, T)
    BY <1>2, <2>1, TotalOverInt
  <2>4. TotalOver(f, T \cup U) = TotalOver(f, T)
    <3>1. TotalOver(f, T \cup U) = TotalOver(f, V) + 0
      BY ONLY <2>1, <2>2
    <3> QED BY ONLY <2>3, <3>1
  <2> QED BY <2>4
<1>3. IsFiniteSet(S \ T) /\ T \cup (S \ T) = S
  BY FS_Subset
<1>4. S \ T \in X
  <2> HIDE DEF X
  <2> QED BY ONLY <1>1, <1>2, <1>3, SubsetInduction
<1> QED BY <1>3, <1>4

\* Sums of two disjoint sets add up.
LEMMA SumUnion ==
  ASSUME NEW S, IsFiniteSet(S), NEW T, IsFiniteSet(T), S \cap T = {},
         NEW f, \A x \in S \cup T : f[x] \in Int
  PROVE  TotalOver(f, S \cup T) = TotalOver(f, S) + TotalOver(f, T)
<1> DEFINE X == {U \in SUBSET T : TotalOver(f, S \cup U) = TotalOver(f, S) + TotalOver(f, U)}
<1>1. {} \in X
  <2>1. TotalOver(f, {}) = 0 /\ TotalOver(f, S) \in Int /\ S \cup {} = S
    BY TotalOverNone, TotalOverInt
  <2> QED BY <2>1
<1>2. ASSUME NEW U \in SUBSET T, U # {}, \A x \in U : U \ {x} \in X PROVE U \in X
  <2> PICK x \in U : TRUE
    BY <1>2
  <2> PICK V, W : V = U \ {x} /\ W = S \cup V
    OBVIOUS
  <2>1. IsFiniteSet(V) /\ IsFiniteSet(U) /\ IsFiniteSet(W)
    BY FS_Subset, FS_Union
  <2>2. /\ x \notin V /\ V \cup {x} = U /\ \A y \in V \cup {x} : f[y] \in Int
        /\ x \notin W /\ W \cup {x} = S \cup U /\ \A y \in W \cup {x} : f[y] \in Int
    OBVIOUS
  <2>3. TotalOver(f, U) = TotalOver(f, V) + f[x]
    <3>1. TotalOver(f, V \cup {x}) = TotalOver(f, V) + f[x]
      BY ONLY <2>1, <2>2, SumAdd
    <3> QED BY ONLY <2>2, <3>1
  <2>4. TotalOver(f, S \cup U) = TotalOver(f, W) + f[x]
    <3>1. TotalOver(f, W \cup {x}) = TotalOver(f, W) + f[x]
      BY ONLY <2>1, <2>2, SumAdd
    <3> QED BY ONLY <2>2, <3>1
  <2>5. TotalOver(f, W) = TotalOver(f, S) + TotalOver(f, V)
    BY <1>2
  <2>6. TotalOver(f, S) \in Int /\ TotalOver(f, V) \in Int /\ f[x] \in Int
    BY <2>1, <2>2, TotalOverInt
  <2>7. TotalOver(f, S \cup U) = TotalOver(f, S) + TotalOver(f, U)
    BY <2>3, <2>4, <2>5, <2>6
  <2> QED BY <2>7
<1>3. T \in X
  <2> HIDE DEF X
  <2> QED BY ONLY <1>1, <1>2, IsFiniteSet(T), SubsetInduction
<1> QED BY <1>3

\* All that M gives to the elements of K.
Parts(K, M) == UNION {M[k] : k \in K}

\* Sums over the disjoint parts M gives to the elements of K add up to the
\* sum over all of them.
LEMMA SumOfParts ==
  ASSUME NEW K, IsFiniteSet(K), NEW M, \A k \in K : IsFiniteSet(M[k]),
         \A k, l \in K : k # l => M[k] \cap M[l] = {},
         NEW f, \A k \in K : \A x \in M[k] : f[x] \in Int,
         NEW h, \A k \in K : h[k] = TotalOver(f, M[k])
  PROVE  IsFiniteSet(Parts(K, M)) /\ TotalOver(h, K) = TotalOver(f, Parts(K, M))
<1> DEFINE Of(L) == Parts(L, M)
           X == {L \in SUBSET K : IsFiniteSet(Of(L)) /\ TotalOver(h, L) = TotalOver(f, Of(L))}
<1>1. {} \in X
  <2>1. Of({}) = {} /\ IsFiniteSet({})
    BY FS_EmptySet DEF Parts
  <2>2. TotalOver(h, {}) = 0 /\ TotalOver(f, {}) = 0
    BY TotalOverNone
  <2> QED BY <2>1, <2>2
<1>2. ASSUME NEW L \in SUBSET K, L # {}, \A k \in L : L \ {k} \in X PROVE L \in X
  <2> PICK k \in L : TRUE
    BY <1>2
  <2> PICK V, P : V = L \ {k} /\ P = Of(V)
    OBVIOUS
  <2>1. IsFiniteSet(V) /\ k \notin V /\ V \cup {k} = L
    BY FS_Subset
  <2>2. IsFiniteSet(P) /\ TotalOver(h, V) = TotalOver(f, P)
    BY <1>2
  <2>3. IsFiniteSet(M[k]) /\ P \cap M[k] = {} /\ Of(L) = P \cup M[k]
    <3>1. \A l \in V : M[l] \cap M[k] = {}
      OBVIOUS
    <3>2. Of(L) = P \cup M[k]
      BY DEF Parts
    <3>3. P \cap M[k] = {}
      BY <3>1 DEF Parts
    <3> QED BY <3>2, <3>3
  <2>4. \A x \in P \cup M[k] : f[x] \in Int
    BY DEF Parts
  <2>5. \A l \in K : h[l] \in Int
    BY TotalOverInt
  <2>6. TotalOver(h, L) = TotalOver(h, V) + h[k]
    <3>1. \A l \in V \cup {k} : h[l] \in Int
      BY <2>5
    <3>2. TotalOver(h, V \cup {k}) = TotalOver(h, V) + h[k]
      BY ONLY <2>1, <3>1, SumAdd
    <3> QED BY <2>1, <3>2
  <2>7. TotalOver(f, P \cup M[k]) = TotalOver(f, P) + TotalOver(f, M[k])
    BY ONLY <2>2, <2>3, <2>4, SumUnion
  <2>8. TotalOver(h, L) = TotalOver(f, Of(L)) /\ IsFiniteSet(Of(L))
    <3>1. IsFiniteSet(P \cup M[k])
      BY <2>2, <2>3, FS_Union
    <3> QED BY <2>2, <2>3, <2>6, <2>7, <3>1
  <2> HIDE DEF Of
  <2> QED BY <2>8
<1>3. K \in X
  <2> HIDE DEF X
  <2> QED BY ONLY <1>1, <1>2, IsFiniteSet(K), SubsetInduction
<1> QED BY <1>3

\* A set has as many elements as there are ones to add up,
LEMMA CardinalityIsSum ==
  ASSUME NEW S, IsFiniteSet(S), NEW f, \A x \in S : f[x] = 1
  PROVE  Cardinality(S) = TotalOver(f, S)
<1> DEFINE X == {T \in SUBSET S : Cardinality(T) = TotalOver(f, T)}
<1>1. {} \in X
  BY FS_EmptySet, TotalOverNone
<1>2. ASSUME NEW T \in SUBSET S, T # {}, \A x \in T : T \ {x} \in X PROVE T \in X
  <2> PICK x \in T : TRUE
    BY <1>2
  <2> PICK V : V = T \ {x}
    OBVIOUS
  <2>1. IsFiniteSet(V) /\ x \notin V /\ V \cup {x} = T /\ \A y \in V \cup {x} : f[y] \in Int
    BY FS_Subset
  <2>2. TotalOver(f, T) = TotalOver(f, V) + 1
    <3>1. TotalOver(f, V \cup {x}) = TotalOver(f, V) + f[x]
      BY <2>1, SumAdd
    <3> QED BY <2>1, <3>1
  <2>3. Cardinality(T) = Cardinality(V) + 1
    BY <2>1, FS_AddElement
  <2>4. Cardinality(V) = TotalOver(f, V)
    BY <1>2
  <2> QED BY <2>2, <2>3, <2>4
<1>3. S \in X
  <2> HIDE DEF X
  <2> QED BY ONLY <1>1, <1>2, IsFiniteSet(S), SubsetInduction
<1> QED BY <1>3

\* and disjoint parts have as many together.
LEMMA CardinalityOfParts ==
  ASSUME NEW K, IsFiniteSet(K), NEW M, \A k \in K : IsFiniteSet(M[k]),
         \A k, l \in K : k # l => M[k] \cap M[l] = {},
         NEW h, \A k \in K : h[k] = Cardinality(M[k])
  PROVE  IsFiniteSet(Parts(K, M)) /\ TotalOver(h, K) = Cardinality(Parts(K, M))
<1> PICK P : P = Parts(K, M)
  OBVIOUS
<1> DEFINE one == [x \in P |-> 1]
<1>1. \A k \in K : M[k] \in SUBSET P
  BY DEF Parts
<1>2. \A k \in K : \A x \in M[k] : one[x] = 1
  BY <1>1
<1>3. \A x \in P : one[x] = 1
  OBVIOUS
<1> HIDE DEF one
<1>4. ASSUME NEW k \in K PROVE h[k] = TotalOver(one, M[k])
  <2>1. IsFiniteSet(M[k]) /\ \A x \in M[k] : one[x] = 1
    BY <1>2
  <2>2. Cardinality(M[k]) = TotalOver(one, M[k])
    BY ONLY <2>1, CardinalityIsSum
  <2> QED BY <2>2
<1>5. \A k \in K : \A x \in M[k] : one[x] \in Int
  BY <1>2
<1>6. IsFiniteSet(P) /\ TotalOver(h, K) = TotalOver(one, P)
  <2>1. \A k \in K : h[k] = TotalOver(one, M[k])
    BY <1>4
  <2>2. IsFiniteSet(Parts(K, M)) /\ TotalOver(h, K) = TotalOver(one, Parts(K, M))
    BY ONLY <2>1, <1>5, IsFiniteSet(K), \A k \in K : IsFiniteSet(M[k]),
            \A k, l \in K : k # l => M[k] \cap M[l] = {}, SumOfParts
  <2> QED BY <2>2
<1>7. Cardinality(P) = TotalOver(one, P)
  BY <1>3, <1>6, CardinalityIsSum
<1> QED BY <1>6, <1>7


-----------------------------------------------------------------------------
(* Spans *)

Span == Nat \X Nat

\* The bytes of one span, and of all of them.
Bytes(span) == span[1] .. (span[2] - 1)
Points(spans) == UNION {Bytes(spans[i]) : i \in DOMAIN spans}

\* Spans in order, no two of which meet.
InOrder(spans) ==
  /\ \A i \in DOMAIN spans : spans[i][1] <= spans[i][2]
  /\ \A i, j \in DOMAIN spans : i < j => spans[i][2] < spans[j][1]

\* The larger and the smaller of two.
LEMMA MaxOfTwo ==
  ASSUME NEW a \in Int, NEW b \in Int
  PROVE  Max({a, b}) = IF a >= b THEN a ELSE b
<1>1. \E x \in {a, b} : \A y \in {a, b} : x >= y
  BY a >= b \/ b >= a
<1> QED BY <1>1 DEF Max

LEMMA MinOfTwo ==
  ASSUME NEW a \in Int, NEW b \in Int
  PROVE  Min({a, b}) = IF a <= b THEN a ELSE b
<1>1. \E x \in {a, b} : \A y \in {a, b} : x <= y
  BY a <= b \/ b <= a
<1> QED BY <1>1 DEF Min

\* What a span shares with start..end are the bytes in both.
LEMMA SharedIs ==
  ASSUME NEW span \in Span, NEW start \in Nat, NEW end \in Nat
  PROVE  /\ IsFiniteSet(Bytes(span) \cap Bytes(<<start, end>>))
         /\ Shared(span, start, end) = Cardinality(Bytes(span) \cap Bytes(<<start, end>>))
         /\ Shared(span, start, end) \in Nat
<1> PICK a \in Nat, b \in Nat : span = <<a, b>>
  BY DEF Span
<1> PICK lo, hi : lo = (IF start >= a THEN start ELSE a) /\ hi = (IF end <= b THEN end ELSE b)
  OBVIOUS
<1>1. lo \in Nat /\ hi \in Nat /\ hi - lo \in Int
  OBVIOUS
<1>2. Shared(span, start, end) = IF 0 >= hi - lo THEN 0 ELSE hi - lo
  <2>1. Max({start, a}) = lo /\ Min({end, b}) = hi
    BY MaxOfTwo, MinOfTwo
  <2>2. Shared(span, start, end) = Max({0, hi - lo})
    BY <2>1 DEF Shared
  <2>3. 0 \in Int
    OBVIOUS
  <2> QED BY ONLY <1>1, <2>2, <2>3, MaxOfTwo
<1>3. Bytes(span) \cap Bytes(<<start, end>>) = lo .. (hi - 1)
  BY DEF Bytes
<1>4. lo \in Int /\ hi - 1 \in Int
  BY <1>1
<1>5. /\ IsFiniteSet(lo .. (hi - 1))
      /\ Cardinality(lo .. (hi - 1)) = IF lo > hi - 1 THEN 0 ELSE (hi - 1) - lo + 1
  BY ONLY <1>4, FS_Interval
<1> PICK c : c = Cardinality(lo .. (hi - 1))
  OBVIOUS
<1>6. c = IF lo > hi - 1 THEN 0 ELSE (hi - 1) - lo + 1
  BY ONLY <1>5, c = Cardinality(lo .. (hi - 1))
<1>7. Shared(span, start, end) = c /\ Shared(span, start, end) \in Nat
  BY ONLY <1>1, <1>2, <1>6, lo \in Nat, hi \in Nat
<1> QED BY ONLY <1>3, <1>5, <1>7, c = Cardinality(lo .. (hi - 1))

\* A sequence's indices are finitely many.
LEMMA IndicesFinite ==
  ASSUME NEW B, NEW s \in Seq(B)
  PROVE  DOMAIN s = 1..Len(s) /\ IsFiniteSet(DOMAIN s)
<1>1. 1 \in Int /\ Len(s) \in Int /\ DOMAIN s = 1..Len(s)
  OBVIOUS
<1>2. IsFiniteSet(1..Len(s))
  BY ONLY <1>1, FS_Interval
<1> QED BY <1>1, <1>2

\* Spans have finitely many bytes,
LEMMA PointsFinite ==
  ASSUME NEW spans \in Seq(Span)
  PROVE  IsFiniteSet(Points(spans)) /\ Points(spans) \in SUBSET Nat
<1> DEFINE M == [i \in DOMAIN spans |-> Bytes(spans[i])]
<1>1. IsFiniteSet(DOMAIN spans)
  BY IndicesFinite
<1>2. \A i \in DOMAIN spans : IsFiniteSet(Bytes(spans[i])) /\ Bytes(spans[i]) \in SUBSET Nat
  <2> TAKE i \in DOMAIN spans
  <2> PICK a \in Nat, b \in Nat : spans[i] = <<a, b>>
    BY DEF Span
  <2>1. Bytes(spans[i]) = a .. (b - 1) /\ a \in Int /\ b - 1 \in Int
    BY DEF Bytes
  <2>2. IsFiniteSet(a .. (b - 1)) /\ a .. (b - 1) \in SUBSET Nat
    BY <2>1, FS_Interval
  <2> QED BY <2>1, <2>2
<1> PICK U : U = {Bytes(spans[i]) : i \in DOMAIN spans}
  OBVIOUS
<1>3. IsFiniteSet(U)
  <2> DEFINE f == [i \in DOMAIN spans |-> Bytes(spans[i])]
  <2>1. f \in Surjection(DOMAIN spans, U)
    BY DEF Surjection
  <2> HIDE DEF f
  <2> QED BY ONLY <1>1, <2>1, FS_Surjection
<1>4. \A T \in U : IsFiniteSet(T)
  BY <1>2
<1>5. IsFiniteSet(UNION U)
  BY ONLY <1>3, <1>4, FS_UNION
<1>6. Points(spans) = UNION U
  BY DEF Points
<1> QED BY <1>2, <1>5, <1>6 DEF Points

\* and what overlaps start..end are those in both, each once.
LEMMA OverlapIs ==
  ASSUME NEW spans \in Seq(Span), InOrder(spans), NEW start \in Nat, NEW end \in Nat
  PROVE  /\ Overlap(spans, start, end) = Cardinality(Points(spans) \cap Bytes(<<start, end>>))
         /\ Overlap(spans, start, end) \in Nat
<1> PICK K, on : K = DOMAIN spans /\ on = Bytes(<<start, end>>)
  OBVIOUS
<1> DEFINE M == [i \in K |-> Bytes(spans[i]) \cap on]
           h == [i \in K |-> Shared(spans[i], start, end)]
<1>1. IsFiniteSet(K)
  BY IndicesFinite
<1>2. \A i \in K : spans[i] \in Span
  OBVIOUS
<1>3. \A i \in K : /\ IsFiniteSet(M[i])
                   /\ h[i] = Cardinality(M[i])
                   /\ h[i] \in Nat
  BY <1>2, SharedIs
<1>4. \A i, j \in K : i # j => M[i] \cap M[j] = {}
  <2> SUFFICES ASSUME NEW i \in K, NEW j \in K, i < j PROVE Bytes(spans[i]) \cap Bytes(spans[j]) = {}
    <3>1. \A i, j \in K : i # j => i < j \/ j < i
      BY IndicesFinite
    <3> QED BY <3>1
  <2>1. spans[i][2] < spans[j][1] /\ spans[i] \in Span /\ spans[j] \in Span
    BY <1>2 DEF InOrder
  <2> PICK a \in Nat, b \in Nat, c \in Nat, d \in Nat : spans[i] = <<a, b>> /\ spans[j] = <<c, d>>
    BY <2>1 DEF Span
  <2>2. b < c
    BY <2>1
  <2> QED BY <2>2 DEF Bytes
<1>5. Parts(K, M) = Points(spans) \cap on
  BY DEF Parts, Points
<1>6. TotalOver(h, K) = Cardinality(Parts(K, M))
  <2> HIDE DEF M, h
  <2> QED BY ONLY <1>1, <1>3, <1>4, CardinalityOfParts
<1>7. TotalOver(h, K) \in Nat
  <2> HIDE DEF M, h
  <2> QED BY ONLY <1>1, <1>3, TotalOverNat
<1>8. Overlap(spans, start, end) = TotalOver(h, K)
  BY DEF Overlap
<1> QED BY <1>5, <1>6, <1>7, <1>8

\* The place of a span among those in order is after those before it.
LEMMA PlaceIs ==
  ASSUME NEW spans \in Seq(Span), InOrder(spans), NEW span \in Span
  PROVE  \E k \in 0..Len(spans) :
           /\ Cardinality({i \in DOMAIN spans : Before(spans[i], span)}) = k
           /\ \A i \in 1..Len(spans) : i <= k <=> Before(spans[i], span)
<1> PICK n \in Nat : n = Len(spans) /\ DOMAIN spans = 1..n
  OBVIOUS
<1> PICK a \in Nat, b \in Nat : span = <<a, b>>
  BY DEF Span
<1>1. ASSUME NEW i \in 1..n
      PROVE  /\ spans[i][1] \in Nat /\ spans[i][2] \in Nat /\ spans[i][1] <= spans[i][2]
             /\ \A j \in 1..n : i < j => spans[i][2] < spans[j][1]
  <2>1. spans[i] \in Span
    OBVIOUS
  <2> QED BY <2>1 DEF Span, InOrder
<1> DEFINE T == {i \in 1..n : ~Before(spans[i], span)}
<1>2. \E k \in 0..n : \A i \in 1..n : i <= k <=> Before(spans[i], span)
  <2>1. CASE T = {}
    <3>1. \A i \in 1..n : i <= n <=> Before(spans[i], span)
      BY <2>1
    <3>2. n \in 0..n
      OBVIOUS
    <3> QED BY ONLY <3>1, <3>2
  <2>2. CASE T # {}
    <3>1. PICK m \in T : \A i \in T : m <= i
      <4>1. T \in SUBSET Nat
        OBVIOUS
      <4> HIDE DEF T
      <4> QED BY ONLY <2>2, <4>1, LeastNatural
    <3>2. \A i \in 1..n : i <= m - 1 => Before(spans[i], span)
      BY <3>1
    <3>3. ASSUME NEW i \in 1..n, ~(i <= m - 1) PROVE ~Before(spans[i], span)
      <4>1. CASE i = m
        BY <4>1
      <4>2. CASE i # m
        <5>1. m \in 1..n /\ m < i /\ ~Before(spans[m], span)
          BY <3>1, <3>3, <4>2
        <5>2. spans[m][1] < spans[i][1]
          BY <5>1, <1>1
        <5>3. /\ spans[m][1] \in Nat /\ spans[i][1] \in Nat
              /\ ~(spans[m][1] < a)
          BY <5>1, <1>1 DEF Before
        <5>4. a < spans[i][1]
          BY <5>2, <5>3
        <5> QED BY <5>3, <5>4 DEF Before
      <4> QED BY <4>1, <4>2
    <3>4. m - 1 \in 0..n
      BY <3>1
    <3> QED BY <3>2, <3>3, <3>4
  <2> QED BY <2>1, <2>2
<1>3. PICK k \in 0..n : \A i \in 1..n : i <= k <=> Before(spans[i], span)
  BY ONLY <1>2
<1>4. {i \in 1..n : Before(spans[i], span)} = 1..k
  BY <1>3
<1>5. Cardinality(1..k) = k
  <2>1. 1 \in Int /\ k \in Int /\ k \in Nat
    OBVIOUS
  <2>2. Cardinality(1..k) = IF 1 > k THEN 0 ELSE k - 1 + 1
    BY ONLY <2>1, FS_Interval
  <2> QED BY <2>1, <2>2
<1> QED BY <1>3, <1>4, <1>5

\* Spans sorted by where they begin, to be merged.
Sorted(s) ==
  /\ \A i \in DOMAIN s : s[i][1] <= s[i][2]
  /\ \A i, j \in DOMAIN s : i < j => s[i][1] <= s[j][1]

\* What sorted() gives is sorted, and has the spans and the new one.
LEMMA SortedWithIs ==
  ASSUME NEW spans \in Seq(Span), InOrder(spans), NEW span \in Span, span[1] <= span[2]
  PROVE  /\ SortedWith(spans, span) \in Seq(Span)
         /\ Len(SortedWith(spans, span)) = Len(spans) + 1
         /\ Sorted(SortedWith(spans, span))
         /\ Points(SortedWith(spans, span)) = Points(spans) \cup Bytes(span)
<1> PICK n \in Nat : n = Len(spans) /\ DOMAIN spans = 1..n
  OBVIOUS
<1>1. PICK k \in 0..n : /\ Cardinality({i \in DOMAIN spans : Before(spans[i], span)}) = k
                        /\ \A i \in 1..n : i <= k <=> Before(spans[i], span)
  BY PlaceIs
<1> PICK s : s = SortedWith(spans, span)
  OBVIOUS
<1> PICK p, q : p = SubSeq(spans, 1, k) /\ q = SubSeq(spans, k + 1, n)
  OBVIOUS
<1>2. s = p \o <<span>> \o q
  <2>1. 1 + k - 1 = k /\ 1 + k = k + 1
    OBVIOUS
  <2>2. s = SubSeq(spans, 1, (1 + k) - 1) \o <<span>> \o SubSeq(spans, 1 + k, n)
    BY <1>1 DEF SortedWith, InsertAt
  <2>3. s = SubSeq(spans, 1, k) \o <<span>> \o SubSeq(spans, k + 1, n)
    BY ONLY <2>1, <2>2
  <2> QED BY <2>3
<1>3. /\ p \in Seq(Span) /\ Len(p) = k /\ \A i \in 1..k : p[i] = spans[i]
      /\ q \in Seq(Span) /\ Len(q) = n - k /\ \A i \in 1..(n - k) : q[i] = spans[k + i]
  OBVIOUS
<1>4. <<span>> \in Seq(Span) /\ Len(<<span>>) = 1 /\ <<span>>[1] = span
  OBVIOUS
<1>5. /\ s \in Seq(Span) /\ Len(s) = n + 1
      /\ \A i \in 1..(n + 1) : s[i] = IF i <= k THEN spans[i] ELSE IF i = k + 1 THEN span ELSE spans[i - 1]
  <2> PICK u : u = p \o <<span>>
    OBVIOUS
  <2>1. u \in Seq(Span) /\ Len(u) = k + 1
    BY <1>3, <1>4
  <2>2. \A i \in 1..(k + 1) : u[i] = IF i <= k THEN spans[i] ELSE span
    BY <1>3, <1>4
  <2>3. /\ s \in Seq(Span) /\ Len(s) = n + 1
        /\ \A i \in 1..(n + 1) : s[i] = IF i <= k + 1 THEN u[i] ELSE q[i - (k + 1)]
    <3>1. s = u \o q
      BY <1>2
    <3>2. /\ s \in Seq(Span) /\ Len(s) = (k + 1) + (n - k)
          /\ \A i \in 1..((k + 1) + (n - k)) : s[i] = IF i <= k + 1 THEN u[i] ELSE q[i - (k + 1)]
      <4>1. Len(u) = k + 1 /\ Len(q) = n - k /\ u \in Seq(Span) /\ q \in Seq(Span)
        BY <1>3, <2>1
      <4>2. /\ s \in Seq(Span) /\ Len(s) = Len(u) + Len(q)
            /\ \A i \in 1..(Len(u) + Len(q)) : s[i] = IF i <= Len(u) THEN u[i] ELSE q[i - Len(u)]
        BY ONLY <3>1, <4>1, ConcatProperties
      <4> QED BY ONLY <4>1, <4>2
    <3>3. (k + 1) + (n - k) = n + 1
      OBVIOUS
    <3> QED BY ONLY <3>2, <3>3
  <2>4. ASSUME NEW i \in 1..(n + 1)
        PROVE  s[i] = IF i <= k THEN spans[i] ELSE IF i = k + 1 THEN span ELSE spans[i - 1]
    <3>1. CASE i <= k + 1
      <4>1. i \in 1..(k + 1) /\ s[i] = u[i]
        BY <2>3, <3>1
      <4> QED BY <4>1, <2>2
    <3>2. CASE ~(i <= k + 1)
      <4>1. i - (k + 1) \in 1..(n - k) /\ s[i] = q[i - (k + 1)] /\ k + (i - (k + 1)) = i - 1
        BY <2>3, <3>2
      <4>2. q[i - (k + 1)] = spans[k + (i - (k + 1))]
        BY <4>1, <1>3
      <4> QED BY <4>1, <4>2, <3>2
    <3> QED BY <3>1, <3>2
  <2> QED BY <2>3, <2>4
<1> HIDE DEF Before
<1>6. \A i \in 1..n : /\ spans[i][1] \in Nat /\ spans[i][2] \in Nat /\ spans[i][1] <= spans[i][2]
                      /\ \A j \in 1..n : i < j => spans[i][2] < spans[j][1]
  <2> TAKE i \in 1..n
  <2>1. spans[i] \in Span
    OBVIOUS
  <2> QED BY <2>1 DEF Span, InOrder
<1>7. span[1] \in Nat /\ span[2] \in Nat
  BY DEF Span
<1>8. /\ \A i \in 1..n : i <= k => spans[i][1] <= span[1]
      /\ \A i \in 1..n : ~(i <= k) => span[1] <= spans[i][1]
  BY <1>1, <1>6, <1>7 DEF Before
<1>9. \A i \in 1..(n + 1) : s[i][1] <= s[i][2]
  <2> TAKE i \in 1..(n + 1)
  <2>1. CASE i <= k
    <3>1. i \in 1..n /\ s[i] = spans[i]
      BY <1>5, <2>1
    <3> QED BY <3>1, <1>6
  <2>2. CASE i = k + 1
    <3>1. s[i] = span
      BY <1>5, <2>2
    <3> QED BY <3>1
  <2>3. CASE i > k + 1
    <3>1. i - 1 \in 1..n /\ s[i] = spans[i - 1]
      BY <1>5, <2>3
    <3> QED BY <3>1, <1>6
  <2> QED BY <2>1, <2>2, <2>3
<1>10. ASSUME NEW i \in 1..(n + 1), NEW j \in 1..(n + 1), i < j PROVE s[i][1] <= s[j][1]
  <2>1. CASE i <= k /\ j <= k
    <3>1. s[i] = spans[i] /\ s[j] = spans[j] /\ i \in 1..n /\ j \in 1..n
      BY <1>5, <2>1
    <3> QED BY <3>1, <1>6, <1>10
  <2>2. CASE i <= k /\ j = k + 1
    <3>1. s[i] = spans[i] /\ s[j] = span /\ i \in 1..n
      BY <1>5, <2>2
    <3> QED BY <3>1, <2>2, <1>8
  <2>3. CASE i <= k /\ j > k + 1
    <3>1. s[i] = spans[i] /\ s[j] = spans[j - 1] /\ i \in 1..n /\ j - 1 \in 1..n /\ i < j - 1
      BY <1>5, <2>3
    <3>2. spans[i][1] <= spans[i][2] /\ spans[i][2] < spans[j - 1][1]
          /\ spans[i][1] \in Nat /\ spans[i][2] \in Nat /\ spans[j - 1][1] \in Nat
      BY <3>1, <1>6
    <3> QED BY <3>1, <3>2
  <2>4. CASE i = k + 1
    <3>1. s[i] = span /\ s[j] = spans[j - 1] /\ j - 1 \in 1..n /\ ~(j - 1 <= k)
      BY <1>5, <1>10, <2>4
    <3> QED BY <3>1, <1>8
  <2>5. CASE i > k + 1
    <3>1. s[i] = spans[i - 1] /\ s[j] = spans[j - 1] /\ i - 1 \in 1..n /\ j - 1 \in 1..n /\ i - 1 < j - 1
      BY <1>5, <1>10, <2>5
    <3>2. spans[i - 1][1] <= spans[i - 1][2] /\ spans[i - 1][2] < spans[j - 1][1]
          /\ spans[i - 1][1] \in Nat /\ spans[i - 1][2] \in Nat /\ spans[j - 1][1] \in Nat
      BY <3>1, <1>6
    <3> QED BY <3>1, <3>2
  <2> QED BY <1>10, <2>1, <2>2, <2>3, <2>4, <2>5
<1>11. DOMAIN s = 1..(n + 1)
  BY <1>5
<1>12. Points(s) = Points(spans) \cup Bytes(span)
  <2>1. ASSUME NEW i \in 1..(n + 1) PROVE Bytes(s[i]) \in SUBSET (Points(spans) \cup Bytes(span))
    <3>1. s[i] = span \/ \E j \in 1..n : s[i] = spans[j]
      <4>1. CASE i <= k
        BY <1>5, <4>1
      <4>2. CASE i = k + 1
        BY <1>5, <4>2
      <4>3. CASE i > k + 1
        <5>1. i - 1 \in 1..n /\ s[i] = spans[i - 1]
          BY <1>5, <4>3
        <5> QED BY <5>1
      <4> QED BY <4>1, <4>2, <4>3
    <3> QED BY <3>1 DEF Points
  <2>2. ASSUME NEW j \in 1..n PROVE \E i \in 1..(n + 1) : s[i] = spans[j]
    <3>1. CASE j <= k
      <4>1. j \in 1..(n + 1) /\ s[j] = spans[j]
        BY <1>5, <3>1
      <4> QED BY <4>1
    <3>2. CASE ~(j <= k)
      <4>1. j + 1 \in 1..(n + 1) /\ ~(j + 1 <= k) /\ j + 1 # k + 1 /\ (j + 1) - 1 = j
        BY <3>2
      <4>2. s[j + 1] = spans[(j + 1) - 1]
        BY <4>1, <1>5
      <4> QED BY <4>1, <4>2
    <3> QED BY <3>1, <3>2
  <2>3. k + 1 \in 1..(n + 1) /\ s[k + 1] = span
    BY <1>5
  <2> QED BY <2>1, <2>2, <2>3, <1>11 DEF Points
<1> QED BY <1>5, <1>9, <1>10, <1>11, <1>12 DEF Sorted

\* A byte of some spans is of one of them.
LEMMA InPoints ==
  ASSUME NEW s \in Seq(Span)
  PROVE  \A x : x \in Points(s) <=> \E i \in 1..Len(s) : x \in Bytes(s[i])
<1>1. DOMAIN s = 1..Len(s)
  OBVIOUS
<1> QED BY <1>1 DEF Points

\* The ends of spans in order.
LEMMA Ends ==
  ASSUME NEW s \in Seq(Span), InOrder(s)
  PROVE  \A i \in 1..Len(s) : /\ s[i] \in Span /\ s[i][1] \in Nat /\ s[i][2] \in Nat
                              /\ s[i][1] <= s[i][2]
                              /\ \A j \in 1..Len(s) : i < j => s[i][2] < s[j][1]
<1> TAKE i \in 1..Len(s)
<1>1. s[i] \in Span /\ DOMAIN s = 1..Len(s)
  OBVIOUS
<1> QED BY <1>1 DEF Span, InOrder

\* A last span that reaches further is still after the others.
LEMMA LastGrows ==
  ASSUME NEW s \in Seq(Span), InOrder(s), NEW n \in 1..Len(s), n = Len(s), NEW span \in Span,
         s[n][1] <= span[1], span[1] <= s[n][2], span[1] <= span[2],
         NEW w, w = [s EXCEPT ![n] = <<s[n][1], Max({s[n][2], span[2]})>>]
  PROVE  /\ w \in Seq(Span) /\ w # <<>> /\ InOrder(w)
         /\ w[Len(w)][1] <= span[1]
         /\ Points(w) = Points(s) \cup Bytes(span)
<1> PICK a \in Nat, b \in Nat : s[n] = <<a, b>>
  <2>1. s[n] \in Span
    OBVIOUS
  <2> QED BY <2>1 DEF Span
<1> PICK c \in Nat, d \in Nat : span = <<c, d>>
  BY DEF Span
<1> PICK m \in Nat : m = IF b >= d THEN b ELSE d
  OBVIOUS
<1>a. s[n][1] = a /\ s[n][2] = b /\ span[1] = c /\ span[2] = d
  BY ONLY s[n] = <<a, b>>, span = <<c, d>>
<1>b. a <= c /\ c <= b /\ c <= d
  BY ONLY <1>a, s[n][1] <= span[1], span[1] <= s[n][2], span[1] <= span[2]
<1>c. w = [s EXCEPT ![n] = <<a, m>>]
  <2>1. Max({b, d}) = m
    BY MaxOfTwo
  <2> QED BY ONLY <1>a, <2>1, w = [s EXCEPT ![n] = <<s[n][1], Max({s[n][2], span[2]})>>]
<1>1. w \in Seq(Span) /\ Len(w) = n /\ \A i \in 1..n : w[i] = IF i = n THEN <<a, m>> ELSE s[i]
  <2>1. <<a, m>> \in Span
    BY DEF Span
  <2> QED BY ONLY <2>1, s \in Seq(Span), n \in 1..Len(s), n = Len(s), <1>c, ExceptSeq
<1>2. DOMAIN w = 1..n
  BY <1>1
<1>3. \A i \in 1..n : /\ s[i] \in Span /\ s[i][1] \in Nat /\ s[i][2] \in Nat
                      /\ s[i][1] <= s[i][2]
                      /\ \A j \in 1..n : i < j => s[i][2] < s[j][1]
  BY Ends
<1>4. a <= m
  BY <1>b
<1>5. ASSUME NEW i \in 1..n PROVE w[i][1] <= w[i][2]
  <2>1. CASE i = n
    <3>1. w[i] = <<a, m>>
      BY ONLY <1>1, <1>5, <2>1
    <3> QED BY ONLY <3>1, <1>4
  <2>2. CASE i # n
    <3>1. w[i] = s[i]
      BY ONLY <1>1, <1>5, <2>2
    <3> QED BY ONLY <3>1, <1>3, <1>5
  <2> QED BY <2>1, <2>2
<1>6. ASSUME NEW i \in 1..n, NEW j \in 1..n, i < j PROVE w[i][2] < w[j][1]
  <2>1. w[i] = s[i]
    <3>1. i # n
      BY <1>6
    <3> QED BY ONLY <3>1, <1>1, <1>6
  <2>2. w[j][1] = s[j][1]
    <3>1. CASE j = n
      <4>1. w[j] = <<a, m>> /\ s[j] = <<a, b>>
        BY ONLY <1>1, <1>6, <3>1, s[n] = <<a, b>>
      <4> QED BY ONLY <4>1
    <3>2. CASE j # n
      BY ONLY <1>1, <1>6, <3>2
    <3> QED BY <3>1, <3>2
  <2>3. s[i][2] < s[j][1]
    BY ONLY <1>3, <1>6
  <2> QED BY ONLY <2>1, <2>2, <2>3
<1>7. InOrder(w)
  BY ONLY <1>2, <1>5, <1>6 DEF InOrder
<1>8. w # <<>> /\ w[Len(w)][1] <= span[1]
  <2>1. w[n] = <<a, m>> /\ n # 0
    BY ONLY <1>1, n \in 1..Len(s), s \in Seq(Span)
  <2>2. w # <<>>
    BY ONLY <2>1, <1>1
  <2>3. w[Len(w)] = <<a, m>>
    BY ONLY <2>1, <1>1
  <2>4. w[Len(w)][1] = a
    BY ONLY <2>3
  <2> QED BY ONLY <2>2, <2>4, <1>a, <1>b
<1>9. Bytes(<<a, m>>) = Bytes(<<a, b>>) \cup Bytes(<<c, d>>)
  BY <1>b DEF Bytes
<1>10. \A x : x \in Points(w) <=> \E i \in 1..n : x \in Bytes(w[i])
  BY ONLY <1>1, InPoints
<1>11. \A x : x \in Points(s) <=> \E i \in 1..n : x \in Bytes(s[i])
  BY ONLY s \in Seq(Span), n = Len(s), InPoints
<1>12. n \in 1..n
  OBVIOUS
<1>13. \A x : (\E i \in 1..n : x \in Bytes(w[i]))
                 <=> (\E i \in 1..n : x \in Bytes(s[i])) \/ x \in Bytes(<<c, d>>)
  <2> TAKE x
  <2>1. ASSUME NEW i \in 1..n, x \in Bytes(w[i])
        PROVE  (\E k \in 1..n : x \in Bytes(s[k])) \/ x \in Bytes(<<c, d>>)
    <3>1. CASE i = n
      <4>1. x \in Bytes(<<a, m>>)
        BY ONLY <1>1, <2>1, <3>1
      <4> QED BY ONLY <4>1, <1>9, <1>12, s[n] = <<a, b>>
    <3>2. CASE i # n
      BY ONLY <1>1, <2>1, <3>2
    <3> QED BY <3>1, <3>2
  <2>2. ASSUME NEW i \in 1..n, x \in Bytes(s[i]) PROVE \E k \in 1..n : x \in Bytes(w[k])
    <3>1. CASE i = n
      <4>1. x \in Bytes(<<a, b>>)
        BY ONLY <2>2, <3>1, s[n] = <<a, b>>
      <4> QED BY ONLY <4>1, <1>1, <1>9, <1>12
    <3>2. CASE i # n
      BY ONLY <1>1, <2>2, <3>2
    <3> QED BY <3>1, <3>2
  <2>3. ASSUME x \in Bytes(<<c, d>>) PROVE \E k \in 1..n : x \in Bytes(w[k])
    BY ONLY <2>3, <1>1, <1>9, <1>12
  <2> QED BY <2>1, <2>2, <2>3
<1>14. Points(w) = Points(s) \cup Bytes(<<c, d>>)
  BY ONLY <1>10, <1>11, <1>13
<1> QED BY ONLY <1>1, <1>7, <1>8, <1>14, span = <<c, d>>

\* A span after the last one follows it.
LEMMA LastFollows ==
  ASSUME NEW s \in Seq(Span), InOrder(s), NEW n \in Nat, n = Len(s), NEW span \in Span,
         span[1] <= span[2], n # 0 => s[n][2] < span[1], NEW w, w = Append(s, span)
  PROVE  /\ w \in Seq(Span) /\ w # <<>> /\ InOrder(w)
         /\ w[Len(w)][1] <= span[1]
         /\ Points(w) = Points(s) \cup Bytes(span)
<1> PICK c \in Nat, d \in Nat : span[1] = c /\ span[2] = d
  BY DEF Span
<1>1. /\ w \in Seq(Span) /\ Len(w) = n + 1 /\ w # <<>> /\ w[n + 1] = span
      /\ \A i \in 1..n : w[i] = s[i]
  BY ONLY s \in Seq(Span), n = Len(s), span \in Span, w = Append(s, span), AppendProperties
<1>2. DOMAIN w = 1..(n + 1) /\ n + 1 \in 1..(n + 1)
      /\ \A i : i \in 1..(n + 1) <=> i \in 1..n \/ i = n + 1
  BY <1>1
<1>3. \A i \in 1..n : /\ s[i] \in Span /\ s[i][1] \in Nat /\ s[i][2] \in Nat
                      /\ s[i][1] <= s[i][2]
                      /\ \A j \in 1..n : i < j => s[i][2] < s[j][1]
  BY Ends
<1>4. ASSUME NEW i \in 1..n PROVE s[i][2] < c
  <2>1. n \in 1..n /\ n # 0
    BY <1>4
  <2>2. s[n][2] < c
    BY ONLY <2>1, n # 0 => s[n][2] < span[1], span[1] = c
  <2>3. CASE i = n
    BY ONLY <2>2, <2>3
  <2>4. CASE i # n
    <3>1. i < n
      BY <2>4
    <3>2. s[i][2] < s[n][1] /\ s[n][1] <= s[n][2] /\ s[n][1] \in Nat /\ s[i][2] \in Nat /\ s[n][2] \in Nat
      BY ONLY <2>1, <3>1, <1>3, <1>4
    <3> QED BY ONLY <3>2, <2>2, c \in Nat
  <2> QED BY <2>3, <2>4
<1>5. ASSUME NEW i \in 1..(n + 1) PROVE w[i][1] <= w[i][2]
  <2>1. CASE i = n + 1
    BY ONLY <1>1, <2>1, span[1] <= span[2]
  <2>2. CASE i \in 1..n
    BY ONLY <1>1, <1>3, <2>2
  <2> QED BY <1>2, <2>1, <2>2
<1>6. ASSUME NEW i \in 1..(n + 1), NEW j \in 1..(n + 1), i < j PROVE w[i][2] < w[j][1]
  <2>1. i \in 1..n
    BY <1>6
  <2>2. w[i] = s[i] /\ s[i][2] < c
    BY ONLY <2>1, <1>1, <1>4
  <2>3. CASE j = n + 1
    BY ONLY <2>2, <2>3, <1>1, span[1] = c
  <2>4. CASE j \in 1..n
    BY ONLY <2>1, <2>2, <2>4, <1>1, <1>3, <1>6
  <2> QED BY <1>2, <2>3, <2>4
<1>7. InOrder(w)
  BY ONLY <1>2, <1>5, <1>6 DEF InOrder
<1>8. w[Len(w)][1] <= span[1]
  BY ONLY <1>1, span[1] = c, c \in Nat
<1>9. \A x : x \in Points(w) <=> \E i \in 1..(n + 1) : x \in Bytes(w[i])
  BY ONLY <1>1, InPoints
<1>10. \A x : x \in Points(s) <=> \E i \in 1..n : x \in Bytes(s[i])
  BY ONLY s \in Seq(Span), n = Len(s), InPoints
<1>11. \A x : (\E i \in 1..(n + 1) : x \in Bytes(w[i]))
                 <=> (\E i \in 1..n : x \in Bytes(s[i])) \/ x \in Bytes(span)
  BY ONLY <1>1, <1>2
<1>12. Points(w) = Points(s) \cup Bytes(span)
  BY ONLY <1>9, <1>10, <1>11
<1> QED BY ONLY <1>1, <1>7, <1>8, <1>12

\* A span that begins no earlier than the last one joins it or follows it.
LEMMA JoinedIs ==
  ASSUME NEW merged \in Seq(Span), InOrder(merged), NEW span \in Span, span[1] <= span[2],
         merged # <<>> => merged[Len(merged)][1] <= span[1], NEW w, w = Joined(merged, span)
  PROVE  /\ w \in Seq(Span) /\ w # <<>> /\ InOrder(w)
         /\ w[Len(w)][1] <= span[1]
         /\ Points(w) = Points(merged) \cup Bytes(span)
<1> PICK n \in Nat : n = Len(merged)
  OBVIOUS
<1> PICK c \in Nat, d \in Nat : span = <<c, d>>
  BY DEF Span
<1>1. CASE merged # <<>> /\ span[1] <= merged[n][2]
  <2>1. n \in 1..Len(merged)
    BY <1>1
  <2>2. merged[n] \in Span
    BY <2>1
  <2>3. w = [merged EXCEPT ![n] = <<merged[n][1], Max({merged[n][2], span[2]})>>]
    BY <1>1 DEF Joined
  <2>4. merged[n][1] <= span[1] /\ span[1] <= merged[n][2]
    BY <1>1
  <2> QED BY ONLY <2>1, <2>3, <2>4, merged \in Seq(Span), InOrder(merged), n = Len(merged),
                  span \in Span, span[1] <= span[2], LastGrows
<1>2. CASE ~(merged # <<>> /\ span[1] <= merged[n][2])
  <2>1. w = Append(merged, span)
    BY <1>2 DEF Joined
  <2>2. n # 0 => merged[n][2] < span[1]
    <3> SUFFICES ASSUME n # 0 PROVE merged[n][2] < span[1]
      OBVIOUS
    <3>1. merged # <<>> /\ merged[n] \in Span
      OBVIOUS
    <3>2. merged[n][2] \in Nat /\ span[1] = c
      BY <3>1 DEF Span
    <3> QED BY ONLY <3>1, <3>2, <1>2, c \in Nat
  <2> QED BY ONLY <2>1, <2>2, merged \in Seq(Span), InOrder(merged), n \in Nat, n = Len(merged),
                  span \in Span, span[1] <= span[2], LastFollows
<1> QED BY <1>1, <1>2

\* r joins the spans of s, one after the other.
Joins(r, s) ==
  /\ r[0] = <<>>
  /\ \A i \in 1..Len(s) : r[i] = Joined(r[i - 1], s[i])

\* The spans merged so far are those looked at.
LEMMA JoinsKeep ==
  ASSUME NEW s \in Seq(Span), Sorted(s), NEW r, Joins(r, s)
  PROVE  r[Len(s)] \in Seq(Span) /\ InOrder(r[Len(s)]) /\ Points(r[Len(s)]) = Points(s)
<1> PICK n \in Nat : n = Len(s) /\ DOMAIN s = 1..n
  OBVIOUS
<1> DEFINE Good(i) == /\ r[i] \in Seq(Span) /\ InOrder(r[i])
                      /\ r[i] # <<>> => i \in 1..n /\ r[i][Len(r[i])][1] <= s[i][1]
                      /\ Points(r[i]) = UNION {Bytes(s[j]) : j \in 1..i}
           T == {i \in 0..n : Good(i)}
<1>1. 0 \in T
  <2>1. r[0] = <<>> /\ Len(<<>>) = 0 /\ DOMAIN <<>> = 1..0 /\ <<>> \in Seq(Span)
    BY DEF Joins
  <2>2. InOrder(<<>>) /\ Points(<<>>) = {}
    BY <2>1 DEF InOrder, Points
  <2>3. Good(0)
    BY <2>1, <2>2
  <2> QED BY <2>3
<1>2. ASSUME NEW i \in 1..n, i - 1 \in T PROVE i \in T
  <2> PICK m, w : m = r[i - 1] /\ w = r[i]
    OBVIOUS
  <2>1. /\ m \in Seq(Span) /\ InOrder(m)
        /\ m # <<>> => i - 1 \in 1..n /\ m[Len(m)][1] <= s[i - 1][1]
        /\ Points(m) = UNION {Bytes(s[j]) : j \in 1..(i - 1)}
    BY <1>2
  <2>2. s[i] \in Span /\ s[i][1] <= s[i][2] /\ s[i][1] \in Nat
    <3>1. s[i] \in Span
      OBVIOUS
    <3> QED BY <3>1 DEF Sorted, Span
  <2>3. m # <<>> => m[Len(m)][1] <= s[i][1]
    <3> SUFFICES ASSUME m # <<>> PROVE m[Len(m)][1] <= s[i][1]
      OBVIOUS
    <3>1. i - 1 \in 1..n /\ m[Len(m)][1] <= s[i - 1][1]
      BY <2>1
    <3>2. s[i - 1][1] <= s[i][1]
      BY <3>1 DEF Sorted
    <3>3. s[i - 1] \in Span /\ s[i - 1][1] \in Nat /\ m[Len(m)] \in Span /\ m[Len(m)][1] \in Nat
      <4>1. s[i - 1] \in Span /\ m[Len(m)] \in Span
        BY <2>1, <3>1
      <4> QED BY <4>1 DEF Span
    <3> QED BY <2>2, <3>1, <3>2, <3>3
  <2>4. w = Joined(m, s[i])
    BY DEF Joins
  <2>5. /\ w \in Seq(Span) /\ w # <<>> /\ InOrder(w)
        /\ w[Len(w)][1] <= s[i][1]
        /\ Points(w) = Points(m) \cup Bytes(s[i])
    BY ONLY <2>1, <2>2, <2>3, <2>4, JoinedIs
  <2>6. Points(w) = UNION {Bytes(s[j]) : j \in 1..i}
    <3>1. \A j : j \in 1..i <=> j \in 1..(i - 1) \/ j = i
      OBVIOUS
    <3> QED BY <2>1, <2>5, <3>1
  <2>7. Good(i)
    BY <2>5, <2>6
  <2> QED BY <2>7
<1>3. 0..n \subseteq T
  <2>1. T \in SUBSET Nat
    OBVIOUS
  <2> HIDE DEF T
  <2> QED BY ONLY <1>1, <1>2, <2>1, n \in Nat, InductionTo
<1>4. n \in T
  <2>1. n \in 0..n
    OBVIOUS
  <2> HIDE DEF T
  <2> QED BY ONLY <1>3, <2>1
<1>5. Good(n)
  BY <1>4
<1> QED BY <1>5 DEF Points

\* What _cover leaves are the spans there were and the new one, merged.
LEMMA CoverIs ==
  ASSUME NEW spans \in Seq(Span), InOrder(spans), NEW start \in Nat, NEW end \in Nat, start <= end
  PROVE  /\ Cover(spans, start, end) \in Seq(Span)
         /\ InOrder(Cover(spans, start, end))
         /\ Points(Cover(spans, start, end)) = Points(spans) \cup Bytes(<<start, end>>)
<1> PICK s : s = SortedWith(spans, <<start, end>>)
  OBVIOUS
<1>1. s \in Seq(Span) /\ Sorted(s) /\ Points(s) = Points(spans) \cup Bytes(<<start, end>>)
  <2>1. <<start, end>> \in Span /\ <<start, end>>[1] <= <<start, end>>[2]
    BY DEF Span
  <2> QED BY <2>1, SortedWithIs
<1> PICK n \in Nat : n = Len(s)
  BY <1>1
<1> PICK r : r = CHOOSE f : f = [i \in 0..n |-> IF i = 0 THEN <<>> ELSE Joined(f[i - 1], s[i])]
  OBVIOUS
<1>2. Cover(spans, start, end) = r[n]
  BY DEF Cover
<1>3. \E f : f = [i \in 0..n |-> IF i = 0 THEN <<>> ELSE Joined(f[i - 1], s[i])]
  <2> PICK A : A = Seq(Span)
    OBVIOUS
  <2> DEFINE g == [p \in (1..n) \X A |-> Joined(p[2], s[p[1]])]
  <2>1. g \in [(1..n) \X A -> A]
    <3> SUFFICES ASSUME NEW m \in Seq(Span), NEW c \in Span PROVE Joined(m, c) \in Seq(Span)
      BY <1>1
    <3>1. CASE m # <<>> /\ c[1] <= m[Len(m)][2]
      <4>1. Len(m) \in 1..Len(m) /\ m[Len(m)] \in Span
        BY <3>1
      <4> PICK x, y : x = m[Len(m)] /\ y = <<x[1], Max({x[2], c[2]})>>
        OBVIOUS
      <4>2. y \in Span
        <5>1. x[1] \in Nat /\ x[2] \in Nat /\ c[2] \in Nat
          BY <4>1 DEF Span
        <5>2. Max({x[2], c[2]}) \in Nat
          <6>1. x[2] \in Int /\ c[2] \in Int
            BY ONLY <5>1
          <6>2. Max({x[2], c[2]}) = IF x[2] >= c[2] THEN x[2] ELSE c[2]
            BY ONLY <6>1, MaxOfTwo
          <6> QED BY ONLY <5>1, <6>2
        <5> QED BY ONLY <5>1, <5>2, y = <<x[1], Max({x[2], c[2]})>> DEF Span
      <4>3. Joined(m, c) = [m EXCEPT ![Len(m)] = y]
        BY <3>1 DEF Joined
      <4>4. [m EXCEPT ![Len(m)] = y] \in Seq(Span)
        BY ONLY <4>1, <4>2, m \in Seq(Span), ExceptSeq
      <4> QED BY ONLY <4>3, <4>4
    <3>2. CASE ~(m # <<>> /\ c[1] <= m[Len(m)][2])
      BY <3>2 DEF Joined
    <3> QED BY <3>1, <3>2
  <2>2. PICK f \in [0..n -> A] : f[0] = <<>> /\ \A i \in 1..n : f[i] = g[<<i, f[i - 1]>>]
    <3> HIDE DEF g
    <3>1. <<>> \in A
      OBVIOUS
    <3>2. PICK f : f \in Loops(n, A, <<>>, g)
      BY ONLY <2>1, <3>1, n \in Nat, LoopExists
    <3> QED BY ONLY <3>2 DEF Loops
  <2>3. ASSUME NEW i \in 1..n PROVE f[i] = Joined(f[i - 1], s[i])
    <3>1. i - 1 \in 0..n
      OBVIOUS
    <3>2. <<i, f[i - 1]>> \in (1..n) \X A
      BY <3>1
    <3> QED BY <3>2, <2>2
  <2>4. ASSUME NEW i \in 0..n PROVE f[i] = IF i = 0 THEN <<>> ELSE Joined(f[i - 1], s[i])
    <3>1. i = 0 \/ i \in 1..n
      OBVIOUS
    <3> QED BY <3>1, <2>2, <2>3
  <2> QED BY <2>4
<1>4. r = [i \in 0..n |-> IF i = 0 THEN <<>> ELSE Joined(r[i - 1], s[i])]
  BY ONLY <1>3, r = CHOOSE f : f = [i \in 0..n |-> IF i = 0 THEN <<>> ELSE Joined(f[i - 1], s[i])]
<1>5. Joins(r, s)
  BY ONLY <1>4, n = Len(s), n \in Nat DEF Joins
<1>6. r[n] \in Seq(Span) /\ InOrder(r[n]) /\ Points(r[n]) = Points(s)
  BY <1>1, <1>5, JoinsKeep
<1> QED BY <1>1, <1>2, <1>6

-----------------------------------------------------------------------------
(* A range on the regions it meets *)

\* What the constants are, of one crossing and one layout.
LEMMA LayoutIs ==
  ASSUME NEW t \in Target
  PROVE  /\ Layout[t] \in Seq(Region)
         /\ \A i \in 1..Len(Layout[t]) : /\ Layout[t][i] \in Region
                                         /\ Layout[t][i].first < Layout[t][i].last
         /\ \A i, j \in 1..Len(Layout[t]) : i < j => Layout[t][i].last <= Layout[t][j].first
<1>1. Layout[t] \in Seq(Region) /\ DOMAIN Layout[t] = 1..Len(Layout[t])
  BY AccountingAssumption
<1>2. \A i \in 1..Len(Layout[t]) : Layout[t][i] \in Region
  BY ONLY <1>1
<1> QED BY <1>1, <1>2, AccountingAssumption

\* Every file has its name, and there is one for what is nowhere.
LEMMA NameKnown == Elsewhere \in Name /\ \A t \in Target : NameOf[t] \in Name
  BY DEF Name

\* There are finitely many names.
LEMMA NameFinite == IsFiniteSet(Name)
<1> PICK A, B : /\ A = {NameOf[t] : t \in Target}
                /\ B = {{Layout[t][i].name : i \in DOMAIN Layout[t]} : t \in Target}
  OBVIOUS
<1>1. IsFiniteSet(Target)
  BY AccountingAssumption
<1>2. IsFiniteSet(A)
  <2> DEFINE f == [t \in Target |-> NameOf[t]]
  <2>1. f \in Surjection(Target, A)
    BY DEF Surjection
  <2> HIDE DEF f
  <2> QED BY ONLY <1>1, <2>1, FS_Surjection
<1>3. IsFiniteSet(B)
  <2> DEFINE f == [t \in Target |-> {Layout[t][i].name : i \in DOMAIN Layout[t]}]
  <2>1. f \in Surjection(Target, B)
    BY DEF Surjection
  <2> HIDE DEF f
  <2> QED BY ONLY <1>1, <2>1, FS_Surjection
<1>4. ASSUME NEW t \in Target PROVE IsFiniteSet({Layout[t][i].name : i \in DOMAIN Layout[t]})
  <2> PICK D, C : D = DOMAIN Layout[t] /\ C = {Layout[t][i].name : i \in D}
    OBVIOUS
  <2>1. IsFiniteSet(D)
    BY LayoutIs, IndicesFinite
  <2> DEFINE f == [i \in D |-> Layout[t][i].name]
  <2>2. f \in Surjection(D, C)
    BY DEF Surjection
  <2>3. IsFiniteSet(C)
    <3> HIDE DEF f
    <3> QED BY ONLY <2>1, <2>2, FS_Surjection
  <2> QED BY <2>3
<1>5. IsFiniteSet(UNION B)
  <2>1. \A T \in B : IsFiniteSet(T)
    BY <1>4
  <2> QED BY ONLY <1>3, <2>1, FS_UNION
<1>6. IsFiniteSet(A \cup {Elsewhere})
  BY <1>2, FS_AddElement
<1>7. Name = (A \cup {Elsewhere}) \cup UNION B
  BY DEF Name
<1> QED BY ONLY <1>5, <1>6, <1>7, FS_Union

\* g is a region r meets, or all of r.
Takes(r, g) ==
  \/ g.first < g.last /\ Meets(r, g)
  \/ g.first = r.offset /\ g.last = r.offset + r.size

\* Where a range lands is in both.
LEMMA LandingIs ==
  ASSUME NEW r \in Crossed, NEW g \in Region, Takes(r, g), NEW on, on = Landing(r, g)
  PROVE  /\ on.start \in Nat /\ on.end \in Nat /\ on.start <= on.end
         /\ r.offset <= on.start /\ on.end <= r.offset + r.size
         /\ g.first <= on.start /\ on.end <= g.last
         /\ Bytes(<<on.start, on.end>>)
              = Within(r, g)
<1> PICK o \in Nat, s \in Nat : o = r.offset /\ s = r.size
  BY DEF Crossed
<1> PICK a \in Nat, b \in Nat : a = g.first /\ b = g.last
  BY DEF Region
<1> PICK lo \in Nat, hi \in Nat : lo = (IF o >= a THEN o ELSE a) /\ hi = (IF o + s <= b THEN o + s ELSE b)
  OBVIOUS
<1>1. Max({o, a}) = lo /\ Min({o + s, b}) = hi
  <2>1. o \in Int /\ a \in Int /\ o + s \in Int /\ b \in Int
    OBVIOUS
  <2>2. Max({o, a}) = IF o >= a THEN o ELSE a
    BY ONLY <2>1, MaxOfTwo
  <2>3. Min({o + s, b}) = IF o + s <= b THEN o + s ELSE b
    BY ONLY <2>1, MinOfTwo
  <2> QED BY <2>2, <2>3
<1>2. on.start = lo /\ on.end = hi
  BY <1>1 DEF Landing
<1>3. (a < b /\ o < b /\ o + s > a) \/ (a = o /\ b = o + s)
  BY DEF Takes, Meets
<1>4. Bytes(<<lo, hi>>) = (o .. (o + s - 1)) \cap (a .. (b - 1))
  BY DEF Bytes
<1>5. lo <= hi /\ o <= lo /\ hi <= o + s /\ a <= lo /\ hi <= b
  BY <1>3
<1>6. Within(r, g) = (o .. (o + s - 1)) \cap (a .. (b - 1))
  BY DEF Within
<1> QED BY ONLY <1>2, <1>4, <1>5, <1>6, lo \in Nat, hi \in Nat, o = r.offset, s = r.size, a = g.first, b = g.last

\* The regions a range is charged to: in order, each one it meets or all of it.
LEMMA RegionsHitIs ==
  ASSUME NEW r \in Crossed, NEW hits, hits = RegionsHit(r)
  PROVE  /\ hits \in Seq(Region) /\ hits # <<>>
         /\ \A i \in 1..Len(hits) : /\ hits[i] \in Region /\ Takes(r, hits[i])
                                    /\ hits[i].name \in NamesOf(r.target)
         /\ \A i, j \in 1..Len(hits) : i < j => hits[i].last <= hits[j].first
<1> PICK t \in Target : t = r.target
  BY DEF Crossed
<1> PICK l, S : l = Layout[t] /\ S = {g \in ToSet(Layout[t]) : Meets(r, g)}
  OBVIOUS
<1> PICK k : k = KeptUpTo(l, S)
  OBVIOUS
<1>1. /\ l \in Seq(Region)
      /\ \A i \in 1..Len(l) : l[i] \in Region /\ l[i].first < l[i].last /\ l[i].name \in NamesOf(t)
      /\ \A i, j \in 1..Len(l) : i < j => l[i].last <= l[j].first
  <2>1. \A i \in 1..Len(l) : l[i].name \in NamesOf(t)
    <3>1. DOMAIN l = 1..Len(l)
      BY LayoutIs
    <3> QED BY <3>1 DEF NamesOf
  <2> QED BY <2>1, LayoutIs
<1> PICK n \in Nat : n = Len(l)
  BY <1>1
<1>2. /\ Kept(l, S) = k[n]
      /\ k \in [0..n -> Seq(Region \cap S)]
      /\ Keeps(k, l, S)
  BY ONLY <1>1, n = Len(l), k = KeptUpTo(l, S), KeptEach
<1> DEFINE Good(i) ==
             /\ \A a \in 1..Len(k[i]) : \E j \in 1..i : k[i][a] = l[j]
             /\ \A a, b \in 1..Len(k[i]) : a < b => k[i][a].last <= k[i][b].first
           T == {i \in 0..n : Good(i)}
<1>3. 0 \in T
  <2>1. k[0] = <<>> /\ Len(<<>>) = 0
    BY <1>2 DEF Keeps
  <2>2. Good(0)
    BY ONLY <2>1
  <2>3. 0 \in 0..n
    OBVIOUS
  <2> HIDE DEF Good
  <2> QED BY ONLY <2>2, <2>3
<1>4. ASSUME NEW i \in 1..n, i - 1 \in T PROVE i \in T
  <2>1. Good(i - 1)
    <3> HIDE DEF Good
    <3> QED BY ONLY <1>4
  <2>a. i - 1 \in 0..n /\ i \in 0..n /\ \A j \in 1..(i - 1) : j \in 1..i
    OBVIOUS
  <2>2. CASE l[i] \notin S
    <3>1. k[i] = k[i - 1]
      BY <1>2, <1>4, <2>2 DEF Keeps
    <3>2. Good(i)
      BY ONLY <2>1, <2>a, <3>1
    <3> HIDE DEF Good
    <3> QED BY ONLY <3>2, <2>a
  <2>3. CASE l[i] \in S
    <3> PICK q, w, m : q = k[i - 1] /\ w = k[i] /\ m = Len(k[i - 1])
      OBVIOUS
    <3>1. q \in Seq(Region) /\ w = Append(q, l[i]) /\ l[i] \in Region /\ m = Len(q)
      <4>1. q \in Seq(Region \cap S)
        BY <1>2, <2>a
      <4>2. Seq(Region \cap S) \subseteq Seq(Region)
        OBVIOUS
      <4>3. w = Append(q, l[i])
        BY <1>2, <1>4, <2>3 DEF Keeps
      <4> QED BY <1>1, <1>4, <4>1, <4>2, <4>3
    <3>2. m \in Nat /\ Len(w) = m + 1 /\ w[m + 1] = l[i] /\ \A a \in 1..m : w[a] = q[a]
      BY ONLY <3>1, AppendProperties
    <3>3. \A a : a \in 1..(m + 1) <=> a \in 1..m \/ a = m + 1
      BY <3>2
    <3>4. /\ \A a \in 1..m : \E j \in 1..(i - 1) : q[a] = l[j]
          /\ \A a, b \in 1..m : a < b => q[a].last <= q[b].first
      BY ONLY <2>1, q = k[i - 1], m = Len(k[i - 1])
    <3>5. \A a \in 1..(m + 1) : \E j \in 1..i : w[a] = l[j]
      <4>1. i \in 1..i
        OBVIOUS
      <4> QED BY ONLY <4>1, <2>a, <3>2, <3>3, <3>4
    <3>6. ASSUME NEW a \in 1..(m + 1), NEW b \in 1..(m + 1), a < b PROVE w[a].last <= w[b].first
      <4>1. a \in 1..m
        BY <3>2, <3>6
      <4>2. CASE b = m + 1
        <5>1. PICK j \in 1..(i - 1) : q[a] = l[j]
          BY ONLY <3>4, <4>1
        <5>2. j \in 1..Len(l) /\ i \in 1..Len(l) /\ j < i
          OBVIOUS
        <5>3. l[j].last <= l[i].first
          BY ONLY <5>2, <1>1
        <5> QED BY ONLY <5>1, <5>3, <3>2, <4>1, <4>2
      <4>3. CASE b \in 1..m
        BY ONLY <3>2, <3>4, <3>6, <4>1, <4>3
      <4> QED BY <3>3, <4>2, <4>3
    <3>7. Good(i)
      BY ONLY <3>2, <3>5, <3>6, w = k[i]
    <3> HIDE DEF Good
    <3> QED BY ONLY <3>7, <2>a
  <2> QED BY <2>2, <2>3
<1>5. 0..n \subseteq T
  <2>1. T \in SUBSET Nat
    OBVIOUS
  <2> HIDE DEF T
  <2> QED BY ONLY <1>3, <1>4, <2>1, n \in Nat, InductionTo
<1>6. n \in 0..n
  OBVIOUS
<1>7. Good(n)
  <2> HIDE DEF Good
  <2> QED BY ONLY <1>5, <1>6
<1> PICK q : q = Kept(l, S)
  OBVIOUS
<1>8. q \in Seq(Region \cap S)
  BY ONLY <1>2, <1>6, q = Kept(l, S)
<1>9. hits = IF q # <<>> THEN q ELSE <<[name |-> NameOf[t], first |-> r.offset, last |-> r.offset + r.size]>>
  BY DEF RegionsHit
<1>10. CASE q # <<>>
  <2>1. hits = q /\ q = k[n]
    BY <1>2, <1>9, <1>10
  <2>2. \A i \in 1..Len(q) : q[i] \in Region /\ q[i] \in S
    BY ONLY <1>8
  <2>3. \A i \in 1..Len(q) : q[i].first < q[i].last /\ q[i].name \in NamesOf(t) /\ Meets(r, q[i])
    <3> TAKE i \in 1..Len(q)
    <3>1. PICK j \in 1..n : q[i] = l[j]
      BY ONLY <1>7, <2>1, i \in 1..Len(q)
    <3>2. q[i] \in S
      BY <2>2
    <3>3. Meets(r, q[i])
      BY ONLY <3>2, S = {g \in ToSet(Layout[t]) : Meets(r, g)}
    <3> QED BY ONLY <3>1, <3>3, <1>1, n = Len(l)
  <2>4. q \in Seq(Region)
    <3>1. Seq(Region \cap S) \subseteq Seq(Region)
      OBVIOUS
    <3> QED BY <3>1, <1>8
  <2> QED BY ONLY <2>1, <2>2, <2>3, <2>4, <1>7, <1>10, t = r.target DEF Takes
<1>11. CASE q = <<>>
  <2> PICK g : g = [name |-> NameOf[t], first |-> r.offset, last |-> r.offset + r.size]
    OBVIOUS
  <2>1. hits = <<g>>
    BY <1>9, <1>11
  <2>2. g \in Region /\ Takes(r, g) /\ g.name \in NamesOf(t)
    <3>1. NameOf[t] \in Name
      BY NameKnown
    <3>2. r.offset \in Nat /\ r.offset + r.size \in Nat
      BY DEF Crossed
    <3> QED BY <3>1, <3>2 DEF Region, Takes, NamesOf
  <2>3. hits \in Seq(Region) /\ hits # <<>> /\ Len(hits) = 1 /\ hits[1] = g
    BY <2>1, <2>2
  <2>4. \A i \in 1..1 : i = 1
    OBVIOUS
  <2>5. \A i, j \in 1..1 : ~(i < j)
    OBVIOUS
  <2> QED BY ONLY <2>2, <2>3, <2>4, <2>5, t = r.target
<1> QED BY <1>10, <1>11

-----------------------------------------------------------------------------
(* What a range adds to the rows *)

\* A row's bytes are the first time of each byte its spans have, and again.
Tells(row) == row.bytes - row.again = Cardinality(Points(row.spans))

\* A row of another call.
LEMMA WithCallIs ==
  ASSUME NEW row \in Row, NEW bytes \in Nat, NEW after, after = WithCall(row, bytes)
  PROVE  /\ after \in Row /\ after.bytes = row.bytes + bytes
         /\ after.again = row.again /\ after.spans = row.spans
<1>1. Max({row.largest, bytes}) \in Nat
  <2>1. row.largest \in Int /\ bytes \in Int /\ row.largest \in Nat
    BY DEF Row
  <2>2. Max({row.largest, bytes}) = IF row.largest >= bytes THEN row.largest ELSE bytes
    BY ONLY <2>1, MaxOfTwo
  <2> QED BY <2>1, <2>2
<1>2. Min({row.smallest, bytes}) \in Nat
  <2>1. row.smallest \in Int /\ bytes \in Int /\ row.smallest \in Nat
    BY DEF Row
  <2>2. Min({row.smallest, bytes}) = IF row.smallest <= bytes THEN row.smallest ELSE bytes
    BY ONLY <2>1, MinOfTwo
  <2> QED BY <2>1, <2>2
<1> PICK x \in Nat, y \in Nat : /\ x = Max({row.largest, bytes})
                                /\ y = IF row.calls = 0 THEN bytes ELSE Min({row.smallest, bytes})
  BY <1>1, <1>2
<1>3. after = [row EXCEPT !.calls = row.calls + 1, !.bytes = row.bytes + bytes,
                          !.largest = x, !.smallest = y]
  BY DEF WithCall
<1> PICK u, v : u = row.calls + 1 /\ v = row.bytes + bytes
  OBVIOUS
<1>4. u \in Nat /\ v \in Nat
  BY DEF Row
<1>5. after = [row EXCEPT !.calls = u, !.bytes = v, !.largest = x, !.smallest = y]
  BY ONLY <1>3, u = row.calls + 1, v = row.bytes + bytes
<1>6. after \in Row
  BY ONLY <1>4, <1>5, row \in Row, x \in Nat, y \in Nat DEF Row
<1>7. after.bytes = v /\ after.again = row.again /\ after.spans = row.spans
  BY ONLY <1>5, row \in Row DEF Row
<1> QED BY ONLY <1>6, <1>7, v = row.bytes + bytes

\* start..end has end - start bytes.
LEMMA BytesMany ==
  ASSUME NEW start \in Nat, NEW end \in Nat, start <= end
  PROVE  IsFiniteSet(Bytes(<<start, end>>)) /\ Cardinality(Bytes(<<start, end>>)) = end - start
<1>1. Bytes(<<start, end>>) = start .. (end - 1) /\ start \in Int /\ end - 1 \in Int
  BY DEF Bytes
<1>2. /\ IsFiniteSet(start .. (end - 1))
      /\ Cardinality(start .. (end - 1)) = IF start > end - 1 THEN 0 ELSE (end - 1) - start + 1
  BY ONLY <1>1, FS_Interval
<1> PICK c : c = Cardinality(start .. (end - 1))
  OBVIOUS
<1>3. c = end - start
  BY ONLY <1>2, c = Cardinality(start .. (end - 1)), start \in Nat, end \in Nat, start <= end
<1> QED BY ONLY <1>1, <1>2, <1>3, c = Cardinality(start .. (end - 1))

\* A landing adds its bytes to a row, to its spans, and to what is again as
\* far as the spans had them.
LEMMA WithLandingIs ==
  ASSUME NEW row \in Row, InOrder(row.spans), NEW on, on.start \in Nat, on.end \in Nat,
         on.start <= on.end, NEW after, after = WithLanding(row, on)
  PROVE  /\ after \in Row /\ after.bytes = row.bytes + (on.end - on.start)
         /\ InOrder(after.spans)
         /\ Points(after.spans) = Points(row.spans) \cup Bytes(<<on.start, on.end>>)
         /\ Tells(row) => Tells(after)
<1> PICK a \in Nat, b \in Nat : a = on.start /\ b = on.end /\ a <= b
  OBVIOUS
<1> PICK called : called = WithCall(row, b - a)
  OBVIOUS
<1> PICK over, cover : over = Overlap(row.spans, a, b) /\ cover = Cover(row.spans, a, b)
  OBVIOUS
<1>1. called \in Row /\ called.bytes = row.bytes + (b - a) /\ called.again = row.again
  <2>1. b - a \in Nat
    OBVIOUS
  <2> QED BY <2>1, WithCallIs
<1>2. row.spans \in Seq(Span) /\ row.bytes \in Nat /\ row.again \in Nat
  BY DEF Row, Span
<1>3. over = Cardinality(Points(row.spans) \cap Bytes(<<a, b>>)) /\ over \in Nat
  BY ONLY <1>2, InOrder(row.spans), a \in Nat, b \in Nat, over = Overlap(row.spans, a, b), OverlapIs
<1>4. cover \in Seq(Span) /\ InOrder(cover) /\ Points(cover) = Points(row.spans) \cup Bytes(<<a, b>>)
  BY ONLY <1>2, InOrder(row.spans), a \in Nat, b \in Nat, a <= b, cover = Cover(row.spans, a, b), CoverIs
<1>5. after = [called EXCEPT !.again = called.again + over, !.spans = cover]
  BY DEF WithLanding
<1>6. /\ after \in Row /\ after.bytes = called.bytes /\ after.again = called.again + over
      /\ after.spans = cover
  <2>1. cover \in Seq(Nat \X Nat) /\ called.again + over \in Nat
    BY <1>1, <1>2, <1>3, <1>4 DEF Span
  <2> QED BY ONLY <1>1, <1>5, <2>1 DEF Row
<1>7. Tells(row) => Tells(after)
  <2>1. IsFiniteSet(Points(row.spans)) /\ IsFiniteSet(Points(cover))
    BY <1>2, <1>4, PointsFinite
  <2>2. IsFiniteSet(Bytes(<<a, b>>)) /\ Cardinality(Bytes(<<a, b>>)) = b - a
    BY BytesMany
  <2> PICK p, q : p = Cardinality(Points(row.spans)) /\ q = Cardinality(Points(cover))
    OBVIOUS
  <2>3. p \in Nat /\ q \in Nat
    BY <2>1, FS_CardinalityType
  <2>4. q = p + (b - a) - over
    BY ONLY <1>3, <1>4, <2>1, <2>2, p = Cardinality(Points(row.spans)), q = Cardinality(Points(cover)), FS_Union
  <2>5. after.bytes - after.again = (row.bytes + (b - a)) - (row.again + over)
    BY <1>1, <1>6
  <2>6. row.bytes - row.again = p => after.bytes - after.again = q
    BY ONLY <1>2, <1>3, <2>3, <2>4, <2>5, a \in Nat, b \in Nat
  <2> QED BY ONLY <2>6, <1>6, p = Cardinality(Points(row.spans)), q = Cardinality(Points(cover)) DEF Tells
<1>8. after.bytes = row.bytes + (b - a)
  BY <1>1, <1>6
<1> QED BY ONLY <1>4, <1>6, <1>7, <1>8, a = on.start, b = on.end

\* The rows of a book, each with its spans in order.
Books == {b \in [Name -> Row] : \A n \in Name : InOrder(b[n].spans)}

\* The bytes of all rows.
Moved(b) == TotalOver([n \in Name |-> b[n].bytes], Name)

\* A row that moved more adds it to the book.
LEMMA MovedMore ==
  ASSUME NEW b \in Books, NEW n \in Name, NEW after \in [Name -> Row], InOrder(after[n].spans),
         \A m \in Name : m # n => after[m] = b[m]
  PROVE  /\ after \in Books /\ Moved(after) = Moved(b) + (after[n].bytes - b[n].bytes)
         /\ Moved(b) \in Int /\ after[n].bytes \in Int /\ b[n].bytes \in Int
<1> PICK row : row = after[n]
  OBVIOUS
<1>1. \A m \in Name : m # n => after[m] = b[m]
  OBVIOUS
<1>2. after \in Books
  BY <1>1 DEF Books
<1> PICK f, g : f = [m \in Name |-> b[m].bytes] /\ g = [m \in Name |-> after[m].bytes]
  OBVIOUS
<1>3. \A m \in Name : f[m] \in Int /\ g[m] \in Int /\ f[m] = b[m].bytes /\ g[m] = after[m].bytes
  <2> TAKE m \in Name
  <2>1. b[m] \in Row /\ after[m] \in Row
    BY <1>1 DEF Books
  <2>2. b[m].bytes \in Nat /\ after[m].bytes \in Nat
    BY <2>1 DEF Row
  <2> QED BY <2>2
<1>4. \A m \in Name \ {n} : g[m] = f[m]
  BY <1>1, <1>3
<1>5. TotalOver(g, Name) = TotalOver(f, Name) + g[n] - f[n]
  <2>1. \A m \in Name : f[m] \in Int /\ g[m] \in Int
    BY <1>3
  <2> PICK S : S = Name
    OBVIOUS
  <2>2. /\ IsFiniteSet(S) /\ n \in S /\ \A m \in S : f[m] \in Int /\ g[m] \in Int
        /\ \A m \in S \ {n} : g[m] = f[m]
    BY <1>4, <2>1, NameFinite
  <2>3. TotalOver(g, S) = TotalOver(f, S) + g[n] - f[n]
    BY ONLY <2>2, SumBump
  <2> QED BY <2>3
<1>6. TotalOver(f, Name) \in Int
  BY <1>3, NameFinite, TotalOverInt
<1>7. g[n] = row.bytes /\ f[n] = b[n].bytes /\ row.bytes \in Int /\ b[n].bytes \in Int
  BY <1>1, <1>3
<1>8. TotalOver(g, Name) = TotalOver(f, Name) + (row.bytes - b[n].bytes)
  BY ONLY <1>5, <1>6, <1>7
<1>9. Moved(b) = TotalOver(f, Name) /\ Moved(after) = TotalOver(g, Name)
  BY DEF Moved
<1> QED BY ONLY <1>2, <1>6, <1>7, <1>8, <1>9, row = after[n]

\* The rows and how much they account for.
Accounts == [book : Books, accounted : Nat]

\* One step of the loop: what w accounts for more than v, and where it is.
OneMore(v, w, r, g) ==
  LET on == Landing(r, g)
  IN /\ w.accounted = v.accounted + (on.end - on.start)
     /\ Moved(w.book) = Moved(v.book) + (on.end - on.start)
     /\ \A n \in Name : /\ Tells(v.book[n]) => Tells(w.book[n])
                        /\ Points(w.book[n].spans) = Points(v.book[n].spans)
                             \cup (IF n = g.name THEN Within(r, g) ELSE {})

\* A landing on g adds to the row of g's name and to what is accounted for.
LEMMA LandedOnIs ==
  ASSUME NEW before \in Accounts, NEW r \in Crossed, NEW g \in Region, Takes(r, g),
         NEW after, after = LandedOn(before, r, g)
  PROVE  after \in Accounts /\ OneMore(before, after, r, g)
<1> PICK on : on = Landing(r, g)
  OBVIOUS
<1> PICK b \in Books : b = before.book
  BY DEF Accounts
<1> PICK name \in Name : name = g.name
  BY DEF Region
<1> PICK row \in Row : row = b[name] /\ InOrder(row.spans)
  BY DEF Books
<1> PICK w : w = WithLanding(row, on)
  OBVIOUS
<1>1. /\ on.start \in Nat /\ on.end \in Nat /\ on.start <= on.end
      /\ Bytes(<<on.start, on.end>>) = Within(r, g)
  BY LandingIs
<1>2. /\ w \in Row /\ w.bytes = row.bytes + (on.end - on.start)
      /\ InOrder(w.spans)
      /\ Points(w.spans) = Points(row.spans) \cup Bytes(<<on.start, on.end>>)
      /\ Tells(row) => Tells(w)
  BY ONLY <1>1, row \in Row, InOrder(row.spans), w = WithLanding(row, on), WithLandingIs
<1> PICK c : c = [b EXCEPT ![name] = w]
  OBVIOUS
<1>3. /\ c \in Books /\ Moved(c) = Moved(b) + (on.end - on.start)
      /\ c[name] = w /\ \A m \in Name : m # name => c[m] = b[m]
  <2>1. /\ c \in [Name -> Row] /\ c[name] = w
        /\ \A m \in Name : m # name => c[m] = b[m]
    BY ONLY <1>2, b \in Books, name \in Name, c = [b EXCEPT ![name] = w] DEF Books
  <2>2. /\ c \in Books /\ Moved(c) = Moved(b) + (c[name].bytes - b[name].bytes)
        /\ Moved(b) \in Int /\ c[name].bytes \in Int /\ b[name].bytes \in Int
    BY ONLY <1>2, <2>1, b \in Books, name \in Name, MovedMore
  <2> QED BY ONLY <1>1, <1>2, <2>1, <2>2, row = b[name]
<1>4. after = [book |-> c, accounted |-> before.accounted + (on.end - on.start)]
  BY DEF LandedOn
<1>5. after.book = c /\ after.accounted = before.accounted + (on.end - on.start)
  BY ONLY <1>4
<1>6. after \in Accounts
  <2>1. before.accounted + (on.end - on.start) \in Nat
    <3>1. before.accounted \in Nat
      BY DEF Accounts
    <3> QED BY ONLY <1>1, <3>1
  <2> QED BY ONLY <1>3, <1>4, <2>1 DEF Accounts
<1>7. ASSUME NEW n \in Name
      PROVE  /\ Tells(b[n]) => Tells(c[n])
             /\ Points(c[n].spans) = Points(b[n].spans) \cup (IF n = name THEN Within(r, g) ELSE {})
  <2>1. CASE n = name
    BY ONLY <2>1, <1>1, <1>2, <1>3, row = b[name]
  <2>2. CASE n # name
    BY ONLY <2>2, <1>3, <1>7
  <2> QED BY <2>1, <2>2
<1> QED BY ONLY <1>3, <1>5, <1>6, <1>7, b = before.book, name = g.name, on = Landing(r, g) DEF OneMore

\* l lands r on each of hits, from b.
LandsOnEach(l, b, r, hits) ==
  /\ l[0] = [book |-> b, accounted |-> 0]
  /\ \A i \in 1..Len(hits) : l[i] = LandedOn(l[i - 1], r, hits[i])

\* The loop over the regions passes on accounts.
LEMMA LandedLoop ==
  ASSUME NEW b \in Books, NEW r \in Crossed, NEW hits, hits = RegionsHit(r)
  PROVE  \E l : LandsOnEach(l, b, r, hits) /\ Landed(b, r) = l[Len(hits)]
<1>1. hits \in Seq(Region) /\ \A i \in 1..Len(hits) : hits[i] \in Region /\ Takes(r, hits[i])
  BY RegionsHitIs
<1> PICK n \in Nat : n = Len(hits)
  BY <1>1
<1> PICK z : z = [book |-> b, accounted |-> 0]
  OBVIOUS
<1> PICK l : l = CHOOSE f : f = [i \in 0..n |-> IF i = 0 THEN z ELSE LandedOn(f[i - 1], r, hits[i])]
  OBVIOUS
<1>2. Landed(b, r) = l[n]
  BY DEF Landed
<1>3. \E f : f = [i \in 0..n |-> IF i = 0 THEN z ELSE LandedOn(f[i - 1], r, hits[i])]
  <2> PICK A : A = Accounts
    OBVIOUS
  <2> DEFINE g == [p \in (1..n) \X A |-> LandedOn(p[2], r, hits[p[1]])]
  <2>1. g \in [(1..n) \X A -> A]
    <3> SUFFICES ASSUME NEW i \in 1..n, NEW m \in Accounts PROVE LandedOn(m, r, hits[i]) \in Accounts
      OBVIOUS
    <3>1. hits[i] \in Region /\ Takes(r, hits[i])
      BY <1>1
    <3> PICK h : h = hits[i]
      OBVIOUS
    <3> QED BY ONLY <3>1, m \in Accounts, r \in Crossed, LandedOnIs
  <2>2. PICK f \in [0..n -> A] : f[0] = z /\ \A i \in 1..n : f[i] = g[<<i, f[i - 1]>>]
    <3> HIDE DEF g
    <3>1. z \in A
      BY DEF Accounts
    <3>2. PICK f : f \in Loops(n, A, z, g)
      BY ONLY <2>1, <3>1, n \in Nat, LoopExists
    <3> QED BY ONLY <3>2 DEF Loops
  <2>3. ASSUME NEW i \in 1..n PROVE f[i] = LandedOn(f[i - 1], r, hits[i])
    <3>1. i - 1 \in 0..n
      OBVIOUS
    <3>2. <<i, f[i - 1]>> \in (1..n) \X A
      BY <3>1
    <3> QED BY <3>2, <2>2
  <2>4. ASSUME NEW i \in 0..n PROVE f[i] = IF i = 0 THEN z ELSE LandedOn(f[i - 1], r, hits[i])
    <3>1. i = 0 \/ i \in 1..n
      OBVIOUS
    <3> QED BY <3>1, <2>2, <2>3
  <2> QED BY <2>4
<1>4. l = [i \in 0..n |-> IF i = 0 THEN z ELSE LandedOn(l[i - 1], r, hits[i])]
  BY ONLY <1>3, l = CHOOSE f : f = [i \in 0..n |-> IF i = 0 THEN z ELSE LandedOn(f[i - 1], r, hits[i])]
<1>5. LandsOnEach(l, b, r, hits)
  BY ONLY <1>4, n = Len(hits), n \in Nat, z = [book |-> b, accounted |-> 0] DEF LandsOnEach
<1> QED BY ONLY <1>2, <1>5, n = Len(hits)

\* A range is on its regions once: what they account for of it is no more
\* than it has, and goes to their rows.
LEMMA LandedIs ==
  ASSUME NEW b \in Books, NEW r \in Crossed, NEW w, w = Landed(b, r)
  PROVE  /\ w \in Accounts /\ w.accounted <= r.size
         /\ Moved(w.book) = Moved(b) + w.accounted
         /\ \A n \in Name : /\ Tells(b[n]) => Tells(w.book[n])
                            /\ Points(w.book[n].spans) = Points(b[n].spans) \cup OnName(r, n)
<1> PICK hits : hits = RegionsHit(r)
  OBVIOUS
<1>1. /\ hits \in Seq(Region) /\ hits # <<>>
      /\ \A i \in 1..Len(hits) : hits[i] \in Region /\ Takes(r, hits[i])
      /\ \A i, j \in 1..Len(hits) : i < j => hits[i].last <= hits[j].first
  BY RegionsHitIs
<1> PICK l : LandsOnEach(l, b, r, hits) /\ w = l[Len(hits)]
  BY LandedLoop
<1> PICK n \in Nat : n = Len(hits) /\ n # 0
  BY <1>1
<1>2. \A i \in 1..n : /\ hits[i] \in Region /\ Takes(r, hits[i])
                      /\ \A j \in 1..n : i < j => hits[i].last <= hits[j].first
  BY <1>1
<1> DEFINE End(i) == Landing(r, hits[i]).end
           Good(i) == /\ l[i] \in Accounts
                      /\ i = 0 => l[i].accounted = 0
                      /\ i # 0 => l[i].accounted <= End(i) - r.offset
                      /\ Moved(l[i].book) = Moved(b) + l[i].accounted
                      /\ \A m \in Name : /\ Tells(b[m]) => Tells(l[i].book[m])
                                         /\ \A x : x \in Points(l[i].book[m].spans) <=>
                                              \/ x \in Points(b[m].spans)
                                              \/ \E j \in 1..i : hits[j].name = m /\ x \in Within(r, hits[j])
           T == {i \in 0..n : Good(i)}
<1>3. Moved(b) \in Int
  <2>1. \A m \in Name : b[m] \in Row /\ b[m].bytes \in Int
    BY DEF Books, Row
  <2> QED BY <2>1, NameFinite, TotalOverInt DEF Moved
<1>4. 0 \in T
  <2>1. l[0].book = b /\ l[0].accounted = 0 /\ l[0] \in Accounts
    <3>1. l[0] = [book |-> b, accounted |-> 0]
      BY DEF LandsOnEach
    <3> QED BY ONLY <3>1, b \in Books DEF Accounts
  <2>2. \A j \in 1..0 : FALSE
    OBVIOUS
  <2>3. Good(0)
    BY ONLY <2>1, <2>2, <1>3
  <2>4. 0 \in 0..n
    OBVIOUS
  <2> HIDE DEF Good
  <2> QED BY ONLY <2>3, <2>4
<1>5. ASSUME NEW i \in 1..n, i - 1 \in T PROVE i \in T
  <2>1. Good(i - 1)
    <3> HIDE DEF Good
    <3> QED BY ONLY <1>5
  <2> PICK p, q, g, on : p = l[i - 1] /\ q = l[i] /\ g = hits[i] /\ on = Landing(r, hits[i])
    OBVIOUS
  <2>2. g \in Region /\ Takes(r, g) /\ p \in Accounts
    BY ONLY <1>2, <2>1, p = l[i - 1], g = hits[i], i \in 1..n
  <2>3. q = LandedOn(p, r, g)
    BY ONLY i \in 1..n, n = Len(hits), p = l[i - 1], q = l[i], g = hits[i], LandsOnEach(l, b, r, hits) DEF LandsOnEach
  <2>4. /\ q \in Accounts
        /\ q.accounted = p.accounted + (on.end - on.start)
        /\ Moved(q.book) = Moved(p.book) + (on.end - on.start)
        /\ \A m \in Name : /\ Tells(p.book[m]) => Tells(q.book[m])
                           /\ Points(q.book[m].spans) = Points(p.book[m].spans)
                                \cup (IF m = g.name THEN Within(r, g) ELSE {})
    <3>1. on = Landing(r, g)
      BY ONLY g = hits[i], on = Landing(r, hits[i])
    <3>2. q \in Accounts /\ OneMore(p, q, r, g)
      BY ONLY <2>2, <2>3, r \in Crossed, LandedOnIs
    <3> QED BY ONLY <3>1, <3>2 DEF OneMore
  <2>5. /\ on.start \in Nat /\ on.end \in Nat /\ on.start <= on.end
        /\ r.offset <= on.start /\ g.first <= on.start /\ r.offset \in Nat
    <3>1. r.offset \in Nat
      BY DEF Crossed
    <3> QED BY ONLY <2>2, <3>1, r \in Crossed, g = hits[i], on = Landing(r, hits[i]), LandingIs
  <2>6. p.accounted \in Nat
    BY <2>2 DEF Accounts
  <2>7. q.accounted <= End(i) - r.offset
    <3>1. End(i) = on.end
      OBVIOUS
    <3>2. CASE i = 1
      <4>1. p.accounted = 0
        BY ONLY <2>1, <3>2, p = l[i - 1]
      <4> QED BY ONLY <4>1, <2>4, <2>5, <3>1
    <3>3. CASE i # 1
      <4> PICK h, e : h = hits[i - 1] /\ e = End(i - 1)
        OBVIOUS
      <4>1. i - 1 \in 1..n /\ i - 1 < i /\ i - 1 # 0
        BY <3>3
      <4>2. h \in Region /\ Takes(r, h) /\ h.last <= g.first
        BY ONLY <1>2, <4>1, h = hits[i - 1], g = hits[i], i \in 1..n
      <4>3. e \in Nat /\ e <= h.last
        BY ONLY <4>2, r \in Crossed, h = hits[i - 1], e = Landing(r, hits[i - 1]).end, LandingIs
      <4>4. p.accounted <= e - r.offset
        BY ONLY <2>1, <4>1, p = l[i - 1], e = Landing(r, hits[i - 1]).end
      <4>5. e <= on.start
        <5>1. h.last \in Nat /\ g.first \in Nat
          BY ONLY <2>2, <4>2 DEF Region
        <5> QED BY ONLY <5>1, <4>2, <4>3, <2>5
      <4> QED BY ONLY <4>3, <4>4, <4>5, <2>4, <2>5, <2>6, <3>1
    <3> QED BY <3>2, <3>3
  <2>8. Moved(q.book) = Moved(b) + q.accounted
    <3>1. Moved(p.book) = Moved(b) + p.accounted
      BY ONLY <2>1, p = l[i - 1]
    <3> QED BY ONLY <3>1, <1>3, <2>4, <2>5, <2>6
  <2>9. ASSUME NEW m \in Name
        PROVE  /\ Tells(b[m]) => Tells(q.book[m])
               /\ \A x : x \in Points(q.book[m].spans) <=>
                    \/ x \in Points(b[m].spans)
                    \/ \E j \in 1..i : hits[j].name = m /\ x \in Within(r, hits[j])
    <3>1. /\ Tells(b[m]) => Tells(p.book[m])
          /\ \A x : x \in Points(p.book[m].spans) <=>
               \/ x \in Points(b[m].spans)
               \/ \E j \in 1..(i - 1) : hits[j].name = m /\ x \in Within(r, hits[j])
      BY ONLY <2>1, p = l[i - 1], m \in Name
    <3>2. \A j : j \in 1..i <=> j \in 1..(i - 1) \/ j = i
      OBVIOUS
    <3>3. /\ Tells(p.book[m]) => Tells(q.book[m])
          /\ \A x : x \in Points(q.book[m].spans)
                      <=> x \in Points(p.book[m].spans) \/ (m = g.name /\ x \in Within(r, g))
      BY ONLY <2>4, m \in Name
    <3> QED BY ONLY <3>1, <3>2, <3>3, g = hits[i]
  <2>10. Good(i)
    <3>1. i # 0
      OBVIOUS
    <3> QED BY ONLY <2>4, <2>7, <2>8, <2>9, <3>1, q = l[i]
  <2>11. i \in 0..n
    OBVIOUS
  <2> HIDE DEF Good
  <2> QED BY ONLY <2>10, <2>11
<1>6. 0..n \subseteq T
  <2>1. T \in SUBSET Nat
    OBVIOUS
  <2> HIDE DEF T
  <2> QED BY ONLY <1>4, <1>5, <2>1, n \in Nat, InductionTo
<1>7. Good(n)
  <2>1. n \in 0..n
    OBVIOUS
  <2> HIDE DEF Good
  <2> QED BY ONLY <1>6, <2>1
<1>8. w \in Accounts /\ Moved(w.book) = Moved(b) + w.accounted
  BY ONLY <1>7, w = l[Len(hits)], n = Len(hits)
<1>9. w.accounted <= r.size
  <2> PICK e : e = Landing(r, hits[n]).end
    OBVIOUS
  <2>1. hits[n] \in Region /\ Takes(r, hits[n])
    BY <1>2
  <2>2. e \in Nat /\ e <= r.offset + r.size
    BY ONLY <2>1, r \in Crossed, e = Landing(r, hits[n]).end, LandingIs
  <2>3. r.offset \in Nat /\ r.size \in Nat
    BY DEF Crossed
  <2>4. w.accounted <= e - r.offset
    BY ONLY <1>7, w = l[Len(hits)], n = Len(hits), n # 0, e = Landing(r, hits[n]).end
  <2>5. w.accounted \in Nat
    BY <1>8 DEF Accounts
  <2> QED BY ONLY <2>2, <2>3, <2>4, <2>5
<1>10. ASSUME NEW m \in Name
       PROVE  /\ Tells(b[m]) => Tells(w.book[m])
              /\ Points(w.book[m].spans) = Points(b[m].spans) \cup OnName(r, m)
  <2>1. /\ Tells(b[m]) => Tells(w.book[m])
        /\ \A x : x \in Points(w.book[m].spans) <=>
             \/ x \in Points(b[m].spans)
             \/ \E j \in 1..n : hits[j].name = m /\ x \in Within(r, hits[j])
    BY ONLY <1>7, m \in Name, w = l[Len(hits)], n = Len(hits)
  <2>2. ToSet(hits) = {hits[j] : j \in 1..n}
    BY <1>1 DEF ToSet
  <2>3. \A x : x \in OnName(r, m) <=> \E j \in 1..n : hits[j].name = m /\ x \in Within(r, hits[j])
    BY ONLY <2>2, hits = RegionsHit(r) DEF OnName
  <2> QED BY ONLY <2>1, <2>3
<1> QED BY ONLY <1>8, <1>9, <1>10

\* after is b with the bytes of r on rows that still tell what is new.
Adds(after, b, r) ==
  /\ after \in Books /\ Moved(after) = Moved(b) + r.size
  /\ \A n \in Name : /\ n # Elsewhere /\ Tells(b[n]) => Tells(after[n])
                     /\ Points(after[n].spans) = Points(b[n].spans) \cup OnName(r, n)

\* What the regions do not account for is elsewhere: a range adds its bytes.
LEMMA ChargedIs ==
  ASSUME NEW b \in Books, NEW r \in Crossed, NEW after, after = Charged(b, r)
  PROVE  Adds(after, b, r)
<1> USE DEF Adds
<1> PICK w : w = Landed(b, r)
  OBVIOUS
<1>1. /\ w \in Accounts /\ w.accounted <= r.size
      /\ Moved(w.book) = Moved(b) + w.accounted
      /\ \A n \in Name : /\ Tells(b[n]) => Tells(w.book[n])
                         /\ Points(w.book[n].spans) = Points(b[n].spans) \cup OnName(r, n)
  BY ONLY b \in Books, r \in Crossed, w = Landed(b, r), LandedIs
<1>2. w.book \in Books /\ w.accounted \in Nat /\ r.size \in Nat /\ Elsewhere \in Name
  BY <1>1, NameKnown DEF Accounts, Crossed
<1>3. Moved(b) \in Int
  <2>1. \A m \in Name : b[m] \in Row /\ b[m].bytes \in Int
    BY DEF Books, Row
  <2> QED BY <2>1, NameFinite, TotalOverInt DEF Moved
<1>4. CASE w.accounted < r.size
  <2> PICK row, rest, c : row = w.book[Elsewhere] /\ rest = r.size - w.accounted /\ c = WithCall(row, rest)
    OBVIOUS
  <2>1. after = [w.book EXCEPT ![Elsewhere] = c]
    BY <1>4 DEF Charged
  <2>2. row \in Row /\ InOrder(row.spans) /\ rest \in Nat
    BY <1>2, <1>4 DEF Books
  <2>3. c \in Row /\ c.bytes = row.bytes + rest /\ c.spans = row.spans
    BY ONLY <2>2, c = WithCall(row, rest), WithCallIs
  <2>4. /\ after \in Books /\ Moved(after) = Moved(w.book) + rest
        /\ after[Elsewhere] = c /\ \A m \in Name : m # Elsewhere => after[m] = w.book[m]
    <3> PICK v : v = w.book
      OBVIOUS
    <3>1. v \in Books /\ InOrder(c.spans) /\ after = [v EXCEPT ![Elsewhere] = c]
      BY <1>2, <2>1, <2>2, <2>3
    <3>2. /\ after \in [Name -> Row] /\ after[Elsewhere] = c
          /\ \A m \in Name : m # Elsewhere => after[m] = v[m]
      BY ONLY <1>2, <2>3, <3>1 DEF Books
    <3>3. /\ after \in Books /\ Moved(after) = Moved(v) + (after[Elsewhere].bytes - v[Elsewhere].bytes)
          /\ Moved(v) \in Int /\ after[Elsewhere].bytes \in Int /\ v[Elsewhere].bytes \in Int
      BY ONLY <1>2, <3>1, <3>2, MovedMore
    <3>4. rest \in Int
      BY <2>2
    <3> QED BY ONLY <2>3, <3>2, <3>3, <3>4, v = w.book, row = w.book[Elsewhere]
  <2>5. Moved(after) = Moved(b) + r.size
    BY ONLY <2>4, <1>1, <1>2, <1>3, rest = r.size - w.accounted
  <2>6. ASSUME NEW n \in Name
        PROVE  /\ n # Elsewhere /\ Tells(b[n]) => Tells(after[n])
               /\ Points(after[n].spans) = Points(b[n].spans) \cup OnName(r, n)
    <3>1. CASE n = Elsewhere
      <4>1. after[n].spans = w.book[n].spans
        BY ONLY <3>1, <2>3, <2>4, row = w.book[Elsewhere]
      <4> QED BY ONLY <3>1, <4>1, <1>1, <2>6
    <3>2. CASE n # Elsewhere
      BY ONLY <3>2, <2>4, <1>1, <2>6
    <3> QED BY <3>1, <3>2
  <2> QED BY ONLY <2>4, <2>5, <2>6
<1>5. CASE ~(w.accounted < r.size)
  <2>1. after = w.book
    BY <1>5 DEF Charged
  <2>2. w.accounted = r.size
    BY ONLY <1>1, <1>2, <1>5
  <2> QED BY ONLY <2>1, <2>2, <1>1, <1>2
<1> QED BY <1>4, <1>5

-----------------------------------------------------------------------------
(* The ranges of the phases *)

\* The phases' ranges, one after the other, are ranges.
LEMMA FlatIs ==
  ASSUME NEW A, NEW s \in Seq(Seq(A))
  PROVE  FlattenSeq(s) \in Seq(A)
<1> PICK n \in Nat : n = Len(s)
  OBVIOUS
<1>1. CASE n = 0
  <2>1. FlattenSeq(s) = s /\ s = <<>>
    BY <1>1, EmptySeq DEF FlattenSeq
  <2> QED BY <2>1
<1>2. CASE n # 0
  <2> PICK f : f = CHOOSE w : w = [i \in 1..n |-> IF i = 1 THEN s[i] ELSE w[i - 1] \o s[i]]
    OBVIOUS
  <2>1. FlattenSeq(s) = f[n]
    BY <1>2 DEF FlattenSeq
  <2> PICK B : B = Seq(A)
    OBVIOUS
  <2>2. \A i \in 1..n : s[i] \in B
    OBVIOUS
  <2> DEFINE g == [p \in (1..n) \X B |-> p[2] \o s[p[1]]]
  <2>3. g \in [(1..n) \X B -> B]
    <3> SUFFICES ASSUME NEW i \in 1..n, NEW m \in Seq(A) PROVE m \o s[i] \in Seq(A)
      OBVIOUS
    <3> PICK t \in Seq(A) : t = s[i]
      BY <2>2
    <3> QED OBVIOUS
  <2>4. PICK h \in [0..n -> B] : h[0] = <<>> /\ \A i \in 1..n : h[i] = g[<<i, h[i - 1]>>]
    <3> HIDE DEF g
    <3> PICK a : a = <<>>
      OBVIOUS
    <3>1. a \in B
      OBVIOUS
    <3>2. PICK h : h \in Loops(n, B, a, g)
      BY ONLY <2>3, <3>1, n \in Nat, LoopExists
    <3> QED BY ONLY <3>2, a = <<>> DEF Loops
  <2> DEFINE k == [i \in 1..n |-> h[i]]
  <2>5. \A i \in 1..n : i - 1 \in 0..n
    OBVIOUS
  <2>6. ASSUME NEW i \in 1..n PROVE h[i] = h[i - 1] \o s[i]
    <3>1. <<i, h[i - 1]>> \in (1..n) \X B
      BY <2>5
    <3> QED BY <3>1, <2>4
  <2>7. ASSUME NEW i \in 1..n PROVE k[i] = IF i = 1 THEN s[i] ELSE k[i - 1] \o s[i]
    <3>1. CASE i = 1
      <4> PICK t \in Seq(A) : t = s[i]
        BY <2>2
      <4> HIDE DEF g, k
      <4>1. h[i] = h[i - 1] \o t /\ i - 1 = 0
        <5>1. i - 1 = 0
          BY <3>1
        <5>2. h[i] = h[i - 1] \o s[i]
          BY ONLY <2>6, i \in 1..n
        <5> QED BY ONLY <5>1, <5>2, t = s[i]
      <4>2. h[i] = <<>> \o t
        BY ONLY <2>4, <4>1
      <4>3. h[i] = t
        BY ONLY <4>2, t \in Seq(A), ConcatEmptySeq
      <4>4. k[i] = h[i]
        BY DEF k
      <4> QED BY ONLY <3>1, <4>3, <4>4, t = s[i]
    <3>2. CASE i # 1
      <4>1. i - 1 \in 1..n
        BY <3>2
      <4> QED BY <3>2, <4>1, <2>6
    <3> QED BY <3>1, <3>2
  <2>8. k = [i \in 1..n |-> IF i = 1 THEN s[i] ELSE k[i - 1] \o s[i]]
    <3> HIDE DEF k
    <3>1. k = [i \in 1..n |-> k[i]]
      BY DEF k
    <3> QED BY ONLY <2>7, <3>1
  <2>9. f = [i \in 1..n |-> IF i = 1 THEN s[i] ELSE f[i - 1] \o s[i]]
    <3> HIDE DEF k
    <3> QED BY ONLY <2>8, f = CHOOSE w : w = [i \in 1..n |-> IF i = 1 THEN s[i] ELSE w[i - 1] \o s[i]]
  <2>10. f[1] \in B /\ \A i \in 1..n : i # 1 /\ f[i - 1] \in B => f[i] \in B
    <3>1. 1 \in 1..n
      BY <1>2
    <3>2. f[1] = s[1]
      BY ONLY <2>9, <3>1
    <3>3. ASSUME NEW i \in 1..n, i # 1, f[i - 1] \in B PROVE f[i] \in B
      <4>1. f[i] = f[i - 1] \o s[i]
        BY ONLY <2>9, <3>3
      <4> PICK t \in Seq(A), u \in Seq(A) : t = s[i] /\ u = f[i - 1]
        BY <2>2, <3>3
      <4>2. u \o t \in Seq(A)
        OBVIOUS
      <4> QED BY <4>1, <4>2
    <3> QED BY <2>2, <3>1, <3>2, <3>3
  <2> PICK T : T = {m \in 0..n : m = 0 \/ f[m] \in B}
    OBVIOUS
  <2> HIDE DEF g, k
  <2>11. 0 \in T /\ T \in SUBSET Nat
    BY ONLY n \in Nat, T = {m \in 0..n : m = 0 \/ f[m] \in B}
  <2>12. ASSUME NEW i \in 1..n, i - 1 \in T PROVE i \in T
    <3>1. i - 1 = 0 \/ f[i - 1] \in B
      BY ONLY <2>12, T = {m \in 0..n : m = 0 \/ f[m] \in B}
    <3>2. i \in 0..n /\ (i - 1 = 0 <=> i = 1)
      OBVIOUS
    <3>3. f[i] \in B
      BY ONLY <2>10, <3>1, <3>2, i \in 1..n
    <3> QED BY ONLY <3>2, <3>3, T = {m \in 0..n : m = 0 \/ f[m] \in B}
  <2>13. 0..n \subseteq T
    BY ONLY <2>11, <2>12, n \in Nat, InductionTo
  <2>14. n \in 0..n
    OBVIOUS
  <2>15. f[n] \in B
    BY ONLY <1>2, <2>13, <2>14, T = {m \in 0..n : m = 0 \/ f[m] \in B}
  <2> QED BY ONLY <2>1, <2>15, B = Seq(A)
<1> QED BY <1>1, <1>2

\* The ranges of the run.
LEMMA CrossingsType ==
  ASSUME NEW p \in Seq(PhaseRecord)
  PROVE  FlattenSeq([i \in DOMAIN p |-> p[i].ranges]) \in Seq(Crossed)
<1> PICK s, n : n = Len(p) /\ s = [i \in DOMAIN p |-> p[i].ranges]
  OBVIOUS
<1>1. n \in Nat /\ DOMAIN p = 1..n /\ \A i \in 1..n : p[i] \in PhaseRecord
  OBVIOUS
<1>2. \A i \in 1..n : p[i].ranges \in Seq(Crossed)
  BY <1>1 DEF PhaseRecord
<1>3. s \in Seq(Seq(Crossed))
  <2> PICK B : B = Seq(Crossed)
    OBVIOUS
  <2>1. s = [i \in 1..n |-> s[i]] /\ \A i \in 1..n : s[i] \in B
    BY <1>1, <1>2
  <2> QED BY ONLY <1>1, <2>1, B = Seq(Crossed), SeqDef
<1> PICK A : A = Crossed
  OBVIOUS
<1>4. FlattenSeq(s) \in Seq(A)
  BY ONLY <1>3, A = Crossed, FlatIs
<1> QED BY <1>4

-----------------------------------------------------------------------------
(* The calls of the phases *)

\* There are finitely many entry points.
LEMMA EntryPointFinite == IsFiniteSet(EntryPoint)
<1> PICK C, A : C = Crossing \cup HandleCall /\ A = {c.call : c \in C}
  OBVIOUS
<1>1. IsFiniteSet(C) /\ IsFiniteSet(BareCall)
  BY AccountingAssumption, FS_Union
<1>2. IsFiniteSet(A)
  <2> DEFINE f == [c \in C |-> c.call]
  <2>1. f \in Surjection(C, A)
    BY DEF Surjection
  <2> HIDE DEF f
  <2> QED BY ONLY <1>1, <2>1, FS_Surjection
<1>3. EntryPoint = A \cup BareCall
  BY DEF EntryPoint
<1> QED BY ONLY <1>1, <1>2, <1>3, FS_Union

\* The calls of some phases: all of them, those of an entry point, and its
\* calls that named a file.
CallsIn(s) == TotalOver([i \in DOMAIN s |-> s[i].fs_calls], DOMAIN s)
CallsOfIn(s, c) == TotalOver([i \in DOMAIN s |-> s[i].calls[c]], DOMAIN s)
TouchesOf(s, c) == {t \in UNION {{<<i, j>> : j \in DOMAIN s[i].touches} : i \in DOMAIN s} :
                      s[t[1]].touches[t[2]].call = c}

\* The entry points add up to what crossed, and no call names two files.
Agree(s) ==
  /\ TotalOver([c \in EntryPoint |-> CallsOfIn(s, c)], EntryPoint) = CallsIn(s)
  /\ \A c \in EntryPoint : /\ IsFiniteSet(TouchesOf(s, c))
                           /\ Cardinality(TouchesOf(s, c)) <= CallsOfIn(s, c)

\* What the calls of some phases are.
LEMMA CallsInIs ==
  ASSUME NEW s \in Seq(PhaseRecord)
  PROVE  /\ IsFiniteSet(DOMAIN s) /\ DOMAIN s = 1..Len(s) /\ Len(s) \in Nat
         /\ \A i \in 1..Len(s) : /\ s[i] \in PhaseRecord /\ s[i].fs_calls \in Nat
                                 /\ \A c \in EntryPoint : s[i].calls[c] \in Nat
         /\ CallsIn(s) \in Nat /\ \A c \in EntryPoint : CallsOfIn(s, c) \in Nat
<1> PICK n \in Nat : n = Len(s)
  OBVIOUS
<1>1. DOMAIN s = 1..n /\ \A i \in 1..n : s[i] \in PhaseRecord
  OBVIOUS
<1>2. IsFiniteSet(1..n)
  BY FS_Interval
<1>3. \A i \in 1..n : s[i].fs_calls \in Nat /\ \A c \in EntryPoint : s[i].calls[c] \in Nat
  BY <1>1 DEF PhaseRecord
<1>4. CallsIn(s) \in Nat
  <2> PICK f : f = [i \in 1..n |-> s[i].fs_calls]
    OBVIOUS
  <2>1. \A i \in 1..n : f[i] \in Nat
    BY <1>3
  <2>2. TotalOver(f, 1..n) \in Nat
    BY ONLY <1>2, <2>1, TotalOverNat
  <2> QED BY <1>1, <2>2 DEF CallsIn
<1>5. ASSUME NEW c \in EntryPoint PROVE CallsOfIn(s, c) \in Nat
  <2> PICK f : f = [i \in 1..n |-> s[i].calls[c]]
    OBVIOUS
  <2>1. \A i \in 1..n : f[i] \in Nat
    BY <1>3
  <2>2. TotalOver(f, 1..n) \in Nat
    BY ONLY <1>2, <2>1, TotalOverNat
  <2> QED BY <1>1, <2>2 DEF CallsOfIn
<1> QED BY <1>1, <1>2, <1>3, <1>4, <1>5

\* p is the phase q after a call of c, which named no more than one file.
CallMade(q, p, c) ==
  /\ p.fs_calls = q.fs_calls + 1
  /\ \A e \in EntryPoint : p.calls[e] = q.calls[e] + (IF e = c THEN 1 ELSE 0)
  /\ p.touches = q.touches \/ \E h \in HandleCall : h.call = c /\ p.touches = Append(q.touches, h)

\* u is s with p for its n-th phase.
Replaces(u, s, n, p) ==
  /\ u \in Seq(PhaseRecord) /\ Len(u) = Len(s)
  /\ \A i \in 1..Len(s) : u[i] = IF i = n THEN p ELSE s[i]

\* A call is one more call of its entry point, and one more of the run.
LEMMA CallCounted ==
  ASSUME NEW s \in Seq(PhaseRecord), NEW n \in 1..Len(s), NEW p \in PhaseRecord, NEW c \in EntryPoint,
         CallMade(s[n], p, c), NEW u, Replaces(u, s, n, p)
  PROVE  /\ CallsIn(u) = CallsIn(s) + 1
         /\ \A e \in EntryPoint : CallsOfIn(u, e) = CallsOfIn(s, e) + (IF e = c THEN 1 ELSE 0)
<1> PICK D : D = 1..Len(s)
  OBVIOUS
<1>1. /\ u \in Seq(PhaseRecord) /\ Len(u) = Len(s) /\ DOMAIN u = D /\ DOMAIN s = D
      /\ \A i \in D : u[i] = IF i = n THEN p ELSE s[i]
  BY DEF Replaces
<1>2. /\ IsFiniteSet(D)
      /\ \A i \in D : /\ s[i].fs_calls \in Nat /\ u[i].fs_calls \in Nat
                      /\ \A e \in EntryPoint : s[i].calls[e] \in Nat /\ u[i].calls[e] \in Nat
  BY <1>1, CallsInIs
<1>3. CallsIn(u) = CallsIn(s) + 1
  <2> PICK f, g : f = [i \in D |-> s[i].fs_calls] /\ g = [i \in D |-> u[i].fs_calls]
    OBVIOUS
  <2>0. IsFiniteSet(D) /\ n \in D
    BY <1>2
  <2>1. \A i \in D : f[i] \in Int /\ g[i] \in Int
    BY <1>2
  <2>2. \A i \in D \ {n} : g[i] = f[i]
    BY <1>1
  <2>3. TotalOver(g, D) = TotalOver(f, D) + g[n] - f[n]
    <3> PICK x : x = n
      OBVIOUS
    <3>1. IsFiniteSet(D) /\ x \in D /\ \A i \in D \ {x} : g[i] = f[i]
      BY ONLY <2>0, <2>2, x = n
    <3>2. TotalOver(g, D) = TotalOver(f, D) + g[x] - f[x]
      BY ONLY <2>1, <3>1, SumBump
    <3> QED BY ONLY <3>2, x = n
  <2>4. g[n] = f[n] + 1 /\ f[n] \in Int
    <3>1. g[n] = p.fs_calls /\ f[n] = s[n].fs_calls
      BY <1>1, <2>0
    <3> QED BY <2>0, <2>1, <3>1 DEF CallMade
  <2>5. TotalOver(f, D) \in Int
    BY ONLY <1>2, <2>1, TotalOverInt
  <2>6. CallsIn(s) = TotalOver(f, D) /\ CallsIn(u) = TotalOver(g, D)
    BY <1>1 DEF CallsIn
  <2> QED BY ONLY <2>3, <2>4, <2>5, <2>6
<1>4. ASSUME NEW e \in EntryPoint PROVE CallsOfIn(u, e) = CallsOfIn(s, e) + (IF e = c THEN 1 ELSE 0)
  <2> PICK f, g : f = [i \in D |-> s[i].calls[e]] /\ g = [i \in D |-> u[i].calls[e]]
    OBVIOUS
  <2>0. IsFiniteSet(D) /\ n \in D
    BY <1>2
  <2>1. \A i \in D : f[i] \in Int /\ g[i] \in Int
    BY <1>2
  <2>2. \A i \in D \ {n} : g[i] = f[i]
    BY <1>1
  <2>3. TotalOver(g, D) = TotalOver(f, D) + g[n] - f[n]
    <3> PICK x : x = n
      OBVIOUS
    <3>1. IsFiniteSet(D) /\ x \in D /\ \A i \in D \ {x} : g[i] = f[i]
      BY ONLY <2>0, <2>2, x = n
    <3>2. TotalOver(g, D) = TotalOver(f, D) + g[x] - f[x]
      BY ONLY <2>1, <3>1, SumBump
    <3> QED BY ONLY <3>2, x = n
  <2>4. g[n] = f[n] + (IF e = c THEN 1 ELSE 0) /\ f[n] \in Int
    <3> PICK q : q = s[n]
      OBVIOUS
    <3>1. u[n] = p
      BY <1>1, <2>0
    <3>2. g[n] = p.calls[e]
      BY ONLY <3>1, <2>0, g = [i \in D |-> u[i].calls[e]]
    <3>3. f[n] = q.calls[e]
      BY ONLY <2>0, q = s[n], f = [i \in D |-> s[i].calls[e]]
    <3>4. p.calls[e] = q.calls[e] + (IF e = c THEN 1 ELSE 0)
      BY ONLY CallMade(s[n], p, c), q = s[n], e \in EntryPoint DEF CallMade
    <3> QED BY ONLY <2>0, <2>1, <3>2, <3>3, <3>4
  <2>5. TotalOver(f, D) \in Int
    BY ONLY <1>2, <2>1, TotalOverInt
  <2>6. CallsOfIn(s, e) = TotalOver(f, D) /\ CallsOfIn(u, e) = TotalOver(g, D)
    BY <1>1 DEF CallsOfIn
  <2> QED BY ONLY <2>3, <2>4, <2>5, <2>6
<1> QED BY ONLY <1>3, <1>4

\* Where the calls of some phases that named a file are.
LEMMA TouchesAre ==
  ASSUME NEW s \in Seq(PhaseRecord), NEW c
  PROVE  \A t : t \in TouchesOf(s, c) <=>
           \E i \in 1..Len(s) : \E j \in 1..Len(s[i].touches) :
             t = <<i, j>> /\ s[i].touches[j].call = c
<1>1. DOMAIN s = 1..Len(s) /\ \A i \in 1..Len(s) : s[i] \in PhaseRecord
  OBVIOUS
<1>2. ASSUME NEW i \in 1..Len(s) PROVE DOMAIN s[i].touches = 1..Len(s[i].touches)
  <2>1. s[i].touches \in Seq(HandleCall)
    BY <1>1 DEF PhaseRecord
  <2> QED BY <2>1
<1>3. UNION {{<<i, j>> : j \in DOMAIN s[i].touches} : i \in DOMAIN s}
        = UNION {{<<i, j>> : j \in 1..Len(s[i].touches)} : i \in 1..Len(s)}
  BY <1>1, <1>2
<1> QED BY <1>3 DEF TouchesOf

\* A call that names a file is one more of the calls that did.
LEMMA CallPlaced ==
  ASSUME NEW s \in Seq(PhaseRecord), NEW n \in 1..Len(s), NEW p \in PhaseRecord, NEW c, NEW e,
         \/ p.touches = s[n].touches
         \/ \E h \in HandleCall : h.call = c /\ p.touches = Append(s[n].touches, h),
         NEW u, Replaces(u, s, n, p), IsFiniteSet(TouchesOf(s, e))
  PROVE  /\ IsFiniteSet(TouchesOf(u, e))
         /\ Cardinality(TouchesOf(u, e)) <= Cardinality(TouchesOf(s, e)) + (IF e = c THEN 1 ELSE 0)
<1>1. /\ u \in Seq(PhaseRecord) /\ Len(u) = Len(s)
      /\ \A i \in 1..Len(s) : u[i] = IF i = n THEN p ELSE s[i]
  BY DEF Replaces
<1> PICK q : q = s[n]
  OBVIOUS
<1> PICK m : m = Len(q.touches)
  OBVIOUS
<1>2. q.touches \in Seq(HandleCall) /\ m \in Nat
  <2>1. q \in PhaseRecord
    OBVIOUS
  <2>2. q.touches \in Seq(HandleCall)
    BY ONLY <2>1 DEF PhaseRecord
  <2> QED BY <2>2
<1> PICK S, U : S = TouchesOf(s, e) /\ U = TouchesOf(u, e)
  OBVIOUS
<1>3. \A t : t \in S <=> \E i \in 1..Len(s) : \E j \in 1..Len(s[i].touches) :
                           t = <<i, j>> /\ s[i].touches[j].call = e
  BY ONLY s \in Seq(PhaseRecord), S = TouchesOf(s, e), TouchesAre
<1>4. \A t : t \in U <=> \E i \in 1..Len(s) : \E j \in 1..Len(u[i].touches) :
                           t = <<i, j>> /\ u[i].touches[j].call = e
  BY ONLY <1>1, U = TouchesOf(u, e), TouchesAre
<1>5. \A i \in 1..Len(s) : i # n => u[i] = s[i]
  BY <1>1
<1>6. u[n] = p
  BY <1>1
<1>7. Cardinality(S) \in Nat
  BY FS_CardinalityType
<1>8. CASE p.touches = q.touches
  <2>1. \A i \in 1..Len(s) : u[i].touches = s[i].touches
    BY <1>1, <1>8
  <2>2. U = S
    <3>1. \A t : t \in U <=> t \in S
      <4> TAKE t
      <4>1. ASSUME t \in U PROVE t \in S
        <5> PICK i \in 1..Len(s) : \E j \in 1..Len(u[i].touches) :
                                      t = <<i, j>> /\ u[i].touches[j].call = e
          BY ONLY <1>4, <4>1
        <5>1. u[i].touches = s[i].touches
          BY ONLY <2>1, i \in 1..Len(s)
        <5>2. \E j \in 1..Len(s[i].touches) : t = <<i, j>> /\ s[i].touches[j].call = e
          BY ONLY <5>1, \E j \in 1..Len(u[i].touches) : t = <<i, j>> /\ u[i].touches[j].call = e
        <5> QED BY ONLY <1>3, <5>2, i \in 1..Len(s)
      <4>2. ASSUME t \in S PROVE t \in U
        <5> PICK i \in 1..Len(s) : \E j \in 1..Len(s[i].touches) :
                                      t = <<i, j>> /\ s[i].touches[j].call = e
          BY ONLY <1>3, <4>2
        <5>1. u[i].touches = s[i].touches
          BY ONLY <2>1, i \in 1..Len(s)
        <5>2. \E j \in 1..Len(u[i].touches) : t = <<i, j>> /\ u[i].touches[j].call = e
          BY ONLY <5>1, \E j \in 1..Len(s[i].touches) : t = <<i, j>> /\ s[i].touches[j].call = e
        <5> QED BY ONLY <1>4, <5>2, i \in 1..Len(s)
      <4> QED BY <4>1, <4>2
    <3> QED BY ONLY <3>1
  <2> QED BY <1>7, <2>2
<1>9. ASSUME NEW h \in HandleCall, h.call = c, p.touches = Append(q.touches, h)
      PROVE  /\ IsFiniteSet(U)
             /\ Cardinality(U) <= Cardinality(S) + (IF e = c THEN 1 ELSE 0)
  <2>1. Len(p.touches) = m + 1 /\ p.touches[m + 1] = h /\ \A j \in 1..m : p.touches[j] = q.touches[j]
    BY ONLY <1>2, <1>9, m = Len(q.touches), h \in HandleCall, AppendProperties
  <2>2. \A j : j \in 1..(m + 1) <=> j \in 1..m \/ j = m + 1
    BY ONLY <1>2
  <2>3. U = IF e = c THEN S \cup {<<n, m + 1>>} ELSE S
    <3>1. ASSUME NEW t
          PROVE  t \in U <=> t \in S \/ (e = c /\ t = <<n, m + 1>>)
      <4>1. t \in U <=> \/ \E i \in 1..Len(s) : i # n /\ \E j \in 1..Len(s[i].touches) :
                             t = <<i, j>> /\ s[i].touches[j].call = e
                        \/ \E j \in 1..(m + 1) : t = <<n, j>> /\ p.touches[j].call = e
        BY ONLY <1>4, <1>5, <1>6, <2>1, n \in 1..Len(s)
      <4>2. t \in S <=> \/ \E i \in 1..Len(s) : i # n /\ \E j \in 1..Len(s[i].touches) :
                             t = <<i, j>> /\ s[i].touches[j].call = e
                        \/ \E j \in 1..m : t = <<n, j>> /\ q.touches[j].call = e
        BY ONLY <1>3, n \in 1..Len(s), q = s[n], m = Len(q.touches)
      <4>3. (\E j \in 1..(m + 1) : t = <<n, j>> /\ p.touches[j].call = e)
              <=> \/ \E j \in 1..m : t = <<n, j>> /\ q.touches[j].call = e
                  \/ t = <<n, m + 1>> /\ c = e
        BY ONLY <1>9, <2>1, <2>2
      <4> QED BY ONLY <4>1, <4>2, <4>3
    <3> QED BY ONLY <3>1
  <2>4. IsFiniteSet(S)
    OBVIOUS
  <2>5. CASE e = c
    <3>1. U = S \cup {<<n, m + 1>>}
      BY ONLY <2>3, <2>5
    <3>2. IsFiniteSet(U) /\ Cardinality(U) <= Cardinality(S) + 1
      <4> PICK x : x = <<n, m + 1>>
        OBVIOUS
      <4>1. /\ IsFiniteSet(S \cup {x})
            /\ Cardinality(S \cup {x}) = IF x \in S THEN Cardinality(S) ELSE Cardinality(S) + 1
        BY ONLY <2>4, FS_AddElement
      <4> QED BY ONLY <1>7, <3>1, <4>1, x = <<n, m + 1>>
    <3> QED BY ONLY <2>5, <3>2
  <2>6. CASE e # c
    BY ONLY <1>7, <2>3, <2>4, <2>6
  <2> QED BY ONLY <2>5, <2>6
<1> QED BY <1>8, <1>9

\* A call keeps the phases in agreement.
LEMMA CallAgrees ==
  ASSUME NEW s \in Seq(PhaseRecord), NEW n \in 1..Len(s), NEW p \in PhaseRecord, NEW c \in EntryPoint,
         CallMade(s[n], p, c), Agree(s), NEW u, Replaces(u, s, n, p)
  PROVE  u \in Seq(PhaseRecord) /\ Len(u) = Len(s) /\ Agree(u)
<1>1. u \in Seq(PhaseRecord) /\ Len(u) = Len(s)
  BY DEF Replaces
<1>3. /\ CallsIn(u) = CallsIn(s) + 1
      /\ \A e \in EntryPoint : CallsOfIn(u, e) = CallsOfIn(s, e) + (IF e = c THEN 1 ELSE 0)
  BY CallCounted
<1>4. CallsIn(s) \in Nat /\ \A e \in EntryPoint : CallsOfIn(s, e) \in Nat /\ CallsOfIn(u, e) \in Nat
  BY <1>1, CallsInIs
<1>5. TotalOver([e \in EntryPoint |-> CallsOfIn(u, e)], EntryPoint) = CallsIn(u)
  <2> PICK E : E = EntryPoint
    OBVIOUS
  <2> PICK f, g : f = [e \in E |-> CallsOfIn(s, e)] /\ g = [e \in E |-> CallsOfIn(u, e)]
    OBVIOUS
  <2>0. \A e \in E : /\ f[e] = CallsOfIn(s, e) /\ g[e] = CallsOfIn(u, e)
                     /\ f[e] \in Nat /\ g[e] = f[e] + (IF e = c THEN 1 ELSE 0)
    BY ONLY <1>3, <1>4, E = EntryPoint, f = [e \in E |-> CallsOfIn(s, e)],
            g = [e \in E |-> CallsOfIn(u, e)]
  <2>1. IsFiniteSet(E) /\ c \in E /\ \A e \in E : f[e] \in Int /\ g[e] \in Int
    BY ONLY <2>0, EntryPointFinite, E = EntryPoint, c \in EntryPoint
  <2>2. \A e \in E \ {c} : g[e] = f[e]
    BY ONLY <2>0
  <2>3. TotalOver(g, E) = TotalOver(f, E) + g[c] - f[c]
    BY ONLY <2>1, <2>2, SumBump
  <2>4. g[c] = f[c] + 1 /\ f[c] \in Int
    BY ONLY <2>0, <2>1
  <2>5. TotalOver(f, E) = CallsIn(s)
    BY DEF Agree
  <2>6. TotalOver(g, E) = CallsIn(u)
    BY ONLY <1>3, <1>4, <2>3, <2>4, <2>5
  <2> QED BY <2>6
<1>6. ASSUME NEW e \in EntryPoint
      PROVE  IsFiniteSet(TouchesOf(u, e)) /\ Cardinality(TouchesOf(u, e)) <= CallsOfIn(u, e)
  <2>1. IsFiniteSet(TouchesOf(s, e)) /\ Cardinality(TouchesOf(s, e)) <= CallsOfIn(s, e)
    BY DEF Agree
  <2>2. \/ p.touches = s[n].touches
        \/ \E h \in HandleCall : h.call = c /\ p.touches = Append(s[n].touches, h)
    BY DEF CallMade
  <2>3. /\ IsFiniteSet(TouchesOf(u, e))
        /\ Cardinality(TouchesOf(u, e)) <= Cardinality(TouchesOf(s, e)) + (IF e = c THEN 1 ELSE 0)
    BY ONLY <2>1, <2>2, s \in Seq(PhaseRecord), n \in 1..Len(s), p \in PhaseRecord,
            Replaces(u, s, n, p), CallPlaced
  <2>4. Cardinality(TouchesOf(u, e)) \in Nat /\ Cardinality(TouchesOf(s, e)) \in Nat
    BY <2>1, <2>3, FS_CardinalityType
  <2>5. CallsOfIn(u, e) = CallsOfIn(s, e) + (IF e = c THEN 1 ELSE 0) /\ CallsOfIn(s, e) \in Nat
    BY <1>3, <1>4
  <2> QED BY ONLY <2>1, <2>3, <2>4, <2>5
<1> QED BY <1>1, <1>5, <1>6 DEF Agree

\* u is s and one more phase.
Opens(u, s) ==
  /\ u \in Seq(PhaseRecord) /\ Len(u) = Len(s) + 1
  /\ \A i \in 1..Len(s) : u[i] = s[i]
  /\ u[Len(s) + 1] = Phase

\* A phase that has nothing yet adds nothing to a sum over the phases.
LEMMA NothingMore ==
  ASSUME NEW n \in Nat, NEW f, NEW g, \A i \in 1..n : f[i] \in Int /\ g[i] = f[i], g[n + 1] = 0
  PROVE  TotalOver(g, 1..(n + 1)) = TotalOver(f, 1..n)
<1> PICK D, x : D = 1..n /\ x = n + 1
  OBVIOUS
<1>1. IsFiniteSet(D) /\ x \notin D /\ 1..(n + 1) = D \cup {x}
  <2>1. 1 \in Int /\ n \in Int
    OBVIOUS
  <2>2. IsFiniteSet(1..n)
    BY ONLY <2>1, FS_Interval
  <2>3. x \notin D /\ \A i : i \in 1..(n + 1) <=> i \in D \/ i = x
    BY ONLY n \in Nat, D = 1..n, x = n + 1
  <2>4. 1..(n + 1) = D \cup {x}
    BY ONLY <2>3
  <2> QED BY ONLY <2>2, <2>3, <2>4, D = 1..n
<1>2. \A i \in D : f[i] \in Int /\ g[i] = f[i]
  BY ONLY D = 1..n, \A i \in 1..n : f[i] \in Int /\ g[i] = f[i]
<1>3. \A i \in D \cup {x} : g[i] \in Int
  BY ONLY <1>2, g[n + 1] = 0, x = n + 1
<1>4. TotalOver(g, D \cup {x}) = TotalOver(g, D) + g[x]
  BY ONLY <1>1, <1>3, SumAdd
<1>5. \A i \in D : f[i] \in Int /\ f[i] = g[i]
  BY ONLY <1>2
<1>6. TotalOver(f, D) = TotalOver(g, D) /\ TotalOver(f, D) \in Int
  BY ONLY <1>1, <1>5, SumSame, TotalOverInt
<1>7. g[x] = 0 /\ TotalOver(g, D) \in Int
  BY ONLY <1>6, g[n + 1] = 0, x = n + 1
<1>8. TotalOver(g, D \cup {x}) = TotalOver(f, D)
  BY ONLY <1>4, <1>6, <1>7
<1> QED BY ONLY <1>1, <1>8, D = 1..n

\* A phase begins with nothing counted.
LEMMA PhaseIs ==
  /\ Phase \in PhaseRecord /\ Phase.fs_calls = 0 /\ Phase.touches = <<>>
  /\ \A e \in EntryPoint : Phase.calls[e] = 0
<1> PICK C : C = [e \in EntryPoint |-> 0]
  OBVIOUS
<1>1. C \in [EntryPoint -> Nat] /\ \A e \in EntryPoint : C[e] = 0
  OBVIOUS
<1>2. Phase = [fs_calls |-> 0, calls |-> C, ranges |-> <<>>, touches |-> <<>>]
  BY DEF Phase
<1>3. <<>> \in Seq(Crossed) /\ <<>> \in Seq(HandleCall)
  BY EmptySeq
<1> QED BY <1>1, <1>2, <1>3 DEF PhaseRecord

\* A new phase keeps the phases in agreement.
LEMMA PhaseAgrees ==
  ASSUME NEW s \in Seq(PhaseRecord), Agree(s), NEW u, Opens(u, s)
  PROVE  Agree(u)
<1> PICK n \in Nat : n = Len(s)
  OBVIOUS
<1>1. /\ u \in Seq(PhaseRecord) /\ Len(u) = n + 1 /\ \A i \in 1..n : u[i] = s[i]
      /\ u[n + 1] = Phase
  BY DEF Opens
<1>2. /\ DOMAIN s = 1..n /\ DOMAIN u = 1..(n + 1)
      /\ \A i \in 1..n : /\ s[i].fs_calls \in Nat
                         /\ \A e \in EntryPoint : s[i].calls[e] \in Nat
  BY <1>1, CallsInIs
<1>3. n + 1 \in 1..(n + 1) /\ \A i \in 1..n : i \in 1..(n + 1)
  OBVIOUS
<1>4. CallsIn(u) = CallsIn(s)
  <2> PICK f, g : f = [i \in 1..n |-> s[i].fs_calls] /\ g = [i \in 1..(n + 1) |-> u[i].fs_calls]
    OBVIOUS
  <2>1. (\A i \in 1..n : f[i] \in Int /\ g[i] = f[i]) /\ g[n + 1] = 0
    BY ONLY <1>1, <1>2, <1>3, PhaseIs, f = [i \in 1..n |-> s[i].fs_calls],
            g = [i \in 1..(n + 1) |-> u[i].fs_calls]
  <2>2. TotalOver(g, 1..(n + 1)) = TotalOver(f, 1..n)
    BY ONLY <2>1, n \in Nat, NothingMore
  <2> QED BY <1>2, <2>2 DEF CallsIn
<1>5. ASSUME NEW e \in EntryPoint PROVE CallsOfIn(u, e) = CallsOfIn(s, e)
  <2> PICK f, g : f = [i \in 1..n |-> s[i].calls[e]] /\ g = [i \in 1..(n + 1) |-> u[i].calls[e]]
    OBVIOUS
  <2>1. (\A i \in 1..n : f[i] \in Int /\ g[i] = f[i]) /\ g[n + 1] = 0
    BY ONLY <1>1, <1>2, <1>3, PhaseIs, e \in EntryPoint, f = [i \in 1..n |-> s[i].calls[e]],
            g = [i \in 1..(n + 1) |-> u[i].calls[e]]
  <2>2. TotalOver(g, 1..(n + 1)) = TotalOver(f, 1..n)
    BY ONLY <2>1, n \in Nat, NothingMore
  <2> QED BY <1>2, <2>2 DEF CallsOfIn
<1>6. ASSUME NEW e PROVE TouchesOf(u, e) = TouchesOf(s, e)
  <2> PICK S, U : S = TouchesOf(s, e) /\ U = TouchesOf(u, e)
    OBVIOUS
  <2>1. \A t : t \in S <=> \E i \in 1..Len(s) : \E j \in 1..Len(s[i].touches) :
                             t = <<i, j>> /\ s[i].touches[j].call = e
    BY ONLY s \in Seq(PhaseRecord), S = TouchesOf(s, e), TouchesAre
  <2>2. \A t : t \in U <=> \E i \in 1..Len(u) : \E j \in 1..Len(u[i].touches) :
                             t = <<i, j>> /\ u[i].touches[j].call = e
    BY ONLY <1>1, U = TouchesOf(u, e), TouchesAre
  <2>3. ASSUME NEW t, t \in S PROVE t \in U
    <3> PICK i \in 1..n : \E j \in 1..Len(s[i].touches) : t = <<i, j>> /\ s[i].touches[j].call = e
      BY ONLY <2>1, <2>3, n = Len(s)
    <3>1. i \in 1..Len(u) /\ u[i] = s[i]
      BY ONLY <1>1, <1>3, i \in 1..n
    <3>2. \E j \in 1..Len(u[i].touches) : t = <<i, j>> /\ u[i].touches[j].call = e
      BY ONLY <3>1, \E j \in 1..Len(s[i].touches) : t = <<i, j>> /\ s[i].touches[j].call = e
    <3> QED BY ONLY <2>2, <3>1, <3>2
  <2>4. ASSUME NEW t, t \in U PROVE t \in S
    <3> PICK i \in 1..(n + 1) : \E j \in 1..Len(u[i].touches) :
                                  t = <<i, j>> /\ u[i].touches[j].call = e
      BY ONLY <1>1, <2>2, <2>4
    <3>1. i # n + 1
      <4> SUFFICES ASSUME i = n + 1 PROVE FALSE
        OBVIOUS
      <4>1. u[i].touches = <<>>
        BY ONLY <1>1, PhaseIs, i = n + 1
      <4>2. Len(u[i].touches) = 0
        BY ONLY <4>1, EmptySeq
      <4> QED BY ONLY <4>2, \E j \in 1..Len(u[i].touches) : t = <<i, j>> /\ u[i].touches[j].call = e
    <3>2. i \in 1..n
      BY <3>1
    <3>3. u[i] = s[i]
      BY ONLY <1>1, <3>2
    <3>4. \E j \in 1..Len(s[i].touches) : t = <<i, j>> /\ s[i].touches[j].call = e
      BY ONLY <3>3, \E j \in 1..Len(u[i].touches) : t = <<i, j>> /\ u[i].touches[j].call = e
    <3> QED BY ONLY <2>1, <3>2, <3>4, n = Len(s)
  <2> QED BY <2>3, <2>4
<1>7. TotalOver([c \in EntryPoint |-> CallsOfIn(u, c)], EntryPoint) = CallsIn(u)
  <2>1. [c \in EntryPoint |-> CallsOfIn(u, c)] = [c \in EntryPoint |-> CallsOfIn(s, c)]
    BY <1>5
  <2> QED BY <1>4, <2>1 DEF Agree
<1>8. ASSUME NEW e \in EntryPoint
      PROVE  IsFiniteSet(TouchesOf(u, e)) /\ Cardinality(TouchesOf(u, e)) <= CallsOfIn(u, e)
  <2>1. IsFiniteSet(TouchesOf(s, e)) /\ Cardinality(TouchesOf(s, e)) <= CallsOfIn(s, e)
    BY DEF Agree
  <2> QED BY ONLY <2>1, <1>5, <1>6, e \in EntryPoint
<1> QED BY <1>7, <1>8 DEF Agree

\* So does the first.
LEMMA FirstAgrees == <<Phase>> \in Seq(PhaseRecord) /\ <<Phase>> # <<>> /\ Agree(<<Phase>>)
<1> PICK z : z = <<>>
  OBVIOUS
<1>1. z \in Seq(PhaseRecord) /\ Len(z) = 0 /\ DOMAIN z = {}
  BY EmptySeq
<1>2. CallsIn(z) = 0 /\ \A e \in EntryPoint : CallsOfIn(z, e) = 0
  BY <1>1, TotalOverNone DEF CallsIn, CallsOfIn
<1>3. \A e : TouchesOf(z, e) = {}
  BY <1>1 DEF TouchesOf
<1>4. TotalOver([c \in EntryPoint |-> CallsOfIn(z, c)], EntryPoint) = 0
  <2> PICK f, E : E = EntryPoint /\ f = [c \in E |-> CallsOfIn(z, c)]
    OBVIOUS
  <2>1. IsFiniteSet(E) /\ \A c \in E : f[c] \in Int
    BY <1>2, EntryPointFinite
  <2>2. {} \in SUBSET E /\ \A c \in E \ {} : f[c] = 0
    BY <1>2
  <2>3. TotalOver(f, E) = TotalOver(f, {})
    BY ONLY <2>1, <2>2, SumOnly
  <2> QED BY <2>3, TotalOverNone
<1>5. Agree(z)
  BY ONLY <1>2, <1>3, <1>4, FS_EmptySet DEF Agree
<1> PICK u : u = <<Phase>>
  OBVIOUS
<1>6. u \in Seq(PhaseRecord) /\ Len(u) = 1 /\ u[1] = Phase
  BY PhaseIs
<1>7. Opens(u, z)
  BY <1>1, <1>6 DEF Opens
<1>8. Agree(u)
  BY ONLY <1>1, <1>5, <1>7, PhaseAgrees
<1> QED BY <1>6, <1>8

-----------------------------------------------------------------------------
(* The lines of a report *)

\* The sum of two functions adds up to the two sums.
LEMMA SumPlus ==
  ASSUME NEW S, IsFiniteSet(S), NEW f, NEW g, NEW h,
         \A x \in S : f[x] \in Int /\ g[x] \in Int /\ h[x] = f[x] + g[x]
  PROVE  TotalOver(h, S) = TotalOver(f, S) + TotalOver(g, S)
<1> DEFINE X == {T \in SUBSET S : TotalOver(h, T) = TotalOver(f, T) + TotalOver(g, T)}
<1>1. {} \in X
  BY TotalOverNone
<1>2. ASSUME NEW T \in SUBSET S, T # {}, \A x \in T : T \ {x} \in X PROVE T \in X
  <2> PICK x \in T : TRUE
    BY <1>2
  <2> PICK U : U = T \ {x}
    OBVIOUS
  <2>1. /\ IsFiniteSet(T) /\ IsFiniteSet(U)
        /\ \A y \in T : f[y] \in Int /\ g[y] \in Int /\ h[y] \in Int
    BY FS_Subset
  <2>2. /\ TotalOver(f, T) = f[x] + TotalOver(f, U) /\ TotalOver(g, T) = g[x] + TotalOver(g, U)
        /\ TotalOver(h, T) = h[x] + TotalOver(h, U)
    BY ONLY <2>1, x \in T, U = T \ {x}, SumSplit
  <2>3. TotalOver(h, U) = TotalOver(f, U) + TotalOver(g, U)
    BY <1>2
  <2>4. TotalOver(f, U) \in Int /\ TotalOver(g, U) \in Int
    <3>1. \A y \in U : f[y] \in Int /\ g[y] \in Int
      BY <2>1
    <3> QED BY ONLY <2>1, <3>1, TotalOverInt
  <2>5. h[x] = f[x] + g[x] /\ f[x] \in Int /\ g[x] \in Int
    OBVIOUS
  <2>6. TotalOver(h, T) = TotalOver(f, T) + TotalOver(g, T)
    BY ONLY <2>2, <2>3, <2>4, <2>5
  <2> QED BY <2>6
<1>3. S \in X
  <2> HIDE DEF X
  <2> QED BY ONLY <1>1, <1>2, IsFiniteSet(S), SubsetInduction
<1> QED BY <1>3

\* The kinds of entry points.
KindNames == {"reads", "writes", "handles", "walks", "upkeep", "other"}

\* No entry point is of two kinds, and each is of one.
LEMMA KindsAre ==
  /\ DOMAIN FSGroups \cup {"other"} = KindNames
  /\ \A k, l \in KindNames : k # l => Members(k) \cap Members(l) = {}
  /\ UNION {Members(k) : k \in KindNames} = EntryPoint
<1>1. DOMAIN FSGroups = {"reads", "writes", "handles", "walks", "upkeep"}
  BY DEF FSGroups
<1>2. ASSUME NEW k \in DOMAIN FSGroups, NEW l \in DOMAIN FSGroups, k # l
      PROVE  FSGroups[k] \cap FSGroups[l] = {}
  BY <1>1, <1>2 DEF FSGroups
<1>3. \A k \in DOMAIN FSGroups : Members(k) = FSGroups[k] \cap EntryPoint
  BY <1>1 DEF Members
<1>4. Members("other") = EntryPoint \ UNION {FSGroups[g] : g \in DOMAIN FSGroups}
  BY DEF Members
<1>5. KindNames = DOMAIN FSGroups \cup {"other"} /\ "other" \notin DOMAIN FSGroups
  BY <1>1 DEF KindNames
<1> PICK D, M, E : D = DOMAIN FSGroups /\ M = [k \in D \cup {"other"} |-> Members(k)] /\ E = EntryPoint
  OBVIOUS
<1> PICK G : G = FSGroups
  OBVIOUS
<1>6. ASSUME NEW k \in KindNames, NEW l \in KindNames, k # l PROVE Members(k) \cap Members(l) = {}
  <2>1. CASE k # "other" /\ l # "other"
    <3>1. k \in DOMAIN FSGroups /\ l \in DOMAIN FSGroups
      BY ONLY <1>5, <1>6, <2>1
    <3>2. FSGroups[k] \cap FSGroups[l] = {}
      BY ONLY <3>1, <1>2, <1>6
    <3> QED BY ONLY <1>3, <3>1, <3>2
  <2>2. CASE k = "other"
    <3>1. l \in DOMAIN FSGroups
      BY ONLY <1>5, <1>6, <2>2
    <3> QED BY ONLY <1>3, <1>4, <2>2, <3>1
  <2>3. CASE l = "other"
    <3>1. k \in DOMAIN FSGroups
      BY ONLY <1>5, <1>6, <2>3
    <3> QED BY ONLY <1>3, <1>4, <2>3, <3>1
  <2> QED BY <2>1, <2>2, <2>3
<1>7. UNION {Members(k) : k \in KindNames} = EntryPoint
  <2>1. \A k \in KindNames : Members(k) \subseteq EntryPoint
    BY ONLY <1>3, <1>4, <1>5
  <2>2. ASSUME NEW c \in EntryPoint PROVE \E k \in KindNames : c \in Members(k)
    BY ONLY <1>3, <1>4, <1>5, c \in EntryPoint
  <2> QED BY ONLY <2>1, <2>2
<1> QED BY ONLY <1>5, <1>6, <1>7

\* A call is of one kind, and counted under it.
LEMMA KindsAdd ==
  ASSUME phases \in Seq(PhaseRecord), Agree(phases)
  PROVE  /\ \A c \in EntryPoint : CallsOf(c) > 0 =>
              Cardinality({kind \in DOMAIN by_kind : c \in DOMAIN by_kind[kind]}) = 1
         /\ TotalOver([kind \in Kinds |-> TotalOver(by_kind[kind], DOMAIN by_kind[kind])], Kinds)
              = TotalCalls
<1> PICK E, K : E = EntryPoint /\ K = Kinds
  OBVIOUS
<1> PICK f : f = [c \in E |-> CallsOf(c)]
  OBVIOUS
<1>1. \A c \in E : f[c] = CallsOf(c) /\ f[c] \in Nat
  <2>1. \A c \in EntryPoint : CallsOfIn(phases, c) \in Nat
    BY CallsInIs
  <2> QED BY <2>1 DEF CallsOfIn, CallsOf
<1>2. TotalOver(f, E) = TotalCalls
  <2>1. f = [c \in EntryPoint |-> CallsOfIn(phases, c)]
    BY DEF CallsOfIn, CallsOf
  <2> QED BY <2>1 DEF Agree, CallsIn, TotalCalls
<1>3. \A k \in KindNames : Called(k) = {c \in Members(k) : f[c] > 0} /\ Called(k) \in SUBSET E
  <2>1. \A k \in KindNames : Members(k) \in SUBSET E
    BY KindsAre
  <2> QED BY ONLY <1>1, <2>1 DEF Called
<1>4. K = {k \in KindNames : Called(k) # {}}
  BY KindsAre DEF Kinds
<1>5. DOMAIN by_kind = K /\ \A k \in K : by_kind[k] = [c \in Called(k) |-> CallsOf(c)]
  BY DEF by_kind
<1>6. \A k \in K : DOMAIN by_kind[k] = Called(k) /\ \A c \in Called(k) : by_kind[k][c] = f[c]
  BY ONLY <1>1, <1>3, <1>4, <1>5
<1>7. ASSUME NEW c \in EntryPoint, CallsOf(c) > 0
      PROVE  Cardinality({kind \in DOMAIN by_kind : c \in DOMAIN by_kind[kind]}) = 1
  <2> PICK k \in KindNames : c \in Members(k)
    BY KindsAre
  <2>1. c \in Called(k) /\ k \in K
    BY <1>4, <1>7 DEF Called
  <2>2. \A l \in K : c \in Called(l) => l = k
    <3>1. \A l \in K : l \in KindNames /\ (c \in Called(l) => c \in Members(l))
      BY <1>4 DEF Called
    <3> QED BY ONLY <3>1, KindsAre, k \in KindNames, c \in Members(k)
  <2>3. {kind \in DOMAIN by_kind : c \in DOMAIN by_kind[kind]} = {k}
    BY ONLY <1>5, <1>6, <2>1, <2>2
  <2> QED BY ONLY <2>3, FS_Singleton
<1>8. TotalOver([kind \in Kinds |-> TotalOver(by_kind[kind], DOMAIN by_kind[kind])], Kinds)
        = TotalCalls
  <2> PICK M, h : /\ M = [k \in K |-> Called(k)]
                  /\ h = [k \in K |-> TotalOver(by_kind[k], DOMAIN by_kind[k])]
    OBVIOUS
  <2>1. IsFiniteSet(E)
    BY EntryPointFinite
  <2>2. IsFiniteSet(K)
    <3> PICK a : a = KindNames
      OBVIOUS
    <3>1. IsFiniteSet(a)
      <4> PICK two, three, four, five :
            /\ two = {"reads"} \cup {"writes"} /\ three = two \cup {"handles"}
            /\ four = three \cup {"walks"} /\ five = four \cup {"upkeep"}
        OBVIOUS
      <4>1. IsFiniteSet(two)
        BY ONLY two = {"reads"} \cup {"writes"}, FS_Singleton, FS_AddElement
      <4>2. IsFiniteSet(three)
        BY ONLY <4>1, three = two \cup {"handles"}, FS_AddElement
      <4>3. IsFiniteSet(four)
        BY ONLY <4>2, four = three \cup {"walks"}, FS_AddElement
      <4>4. IsFiniteSet(five)
        BY ONLY <4>3, five = four \cup {"upkeep"}, FS_AddElement
      <4>5. a = five \cup {"other"}
        BY DEF KindNames
      <4> QED BY ONLY <4>4, <4>5, FS_AddElement
    <3> QED BY ONLY <1>4, <3>1, a = KindNames, FS_Subset
  <2>3. \A k \in K : M[k] = Called(k) /\ M[k] \in SUBSET E /\ IsFiniteSet(M[k])
    BY <1>3, <1>4, <2>1, FS_Subset
  <2>4. \A k, l \in K : k # l => M[k] \cap M[l] = {}
    <3>1. \A k \in K : k \in KindNames /\ M[k] \subseteq Members(k)
      BY <1>3, <1>4, <2>3
    <3> QED BY ONLY <3>1, KindsAre
  <2>5. \A k \in K : \A c \in M[k] : f[c] \in Int
    BY <1>1, <2>3
  <2>6. \A k \in K : h[k] = TotalOver(f, M[k])
    <3> TAKE k \in K
    <3> PICK b, D : b = by_kind[k] /\ D = M[k]
      OBVIOUS
    <3>1. /\ IsFiniteSet(D) /\ DOMAIN b = D
          /\ \A c \in D : f[c] \in Int /\ f[c] = b[c]
      BY ONLY <1>6, <2>3, <2>5, b = by_kind[k], D = M[k], k \in K
    <3>2. TotalOver(f, D) = TotalOver(b, D)
      BY ONLY <3>1, SumSame
    <3>3. h[k] = TotalOver(b, D)
      BY ONLY <3>1, b = by_kind[k], k \in K, h = [l \in K |-> TotalOver(by_kind[l], DOMAIN by_kind[l])]
    <3> QED BY ONLY <3>2, <3>3, D = M[k]
  <2>7. TotalOver(h, K) = TotalOver(f, Parts(K, M))
    BY ONLY <2>2, <2>3, <2>4, <2>5, <2>6, SumOfParts
  <2>8. Parts(K, M) \in SUBSET E /\ \A c \in E \ Parts(K, M) : f[c] = 0
    <3>1. Parts(K, M) \in SUBSET E
      BY ONLY <2>3 DEF Parts
    <3>2. ASSUME NEW c \in E, f[c] # 0 PROVE c \in Parts(K, M)
      <4>1. f[c] > 0
        BY ONLY <1>1, <3>2, c \in E
      <4> PICK k \in KindNames : c \in Members(k)
        BY KindsAre
      <4>2. c \in Called(k) /\ k \in K
        BY ONLY <1>3, <1>4, <4>1, k \in KindNames, c \in Members(k)
      <4> QED BY ONLY <2>3, <4>2 DEF Parts
    <3> QED BY <3>1, <3>2
  <2>9. TotalOver(f, E) = TotalOver(f, Parts(K, M))
    <3>1. \A c \in E : f[c] \in Int
      BY <1>1
    <3> QED BY ONLY <2>1, <2>8, <3>1, SumOnly
  <2> QED BY ONLY <1>2, <2>7, <2>9, K = Kinds, h = [k \in K |-> TotalOver(by_kind[k], DOMAIN by_kind[k])]
<1> QED BY <1>7, <1>8

\* The handles' lines are the calls of the handles.
LEMMA HandlesAdd ==
  ASSUME phases \in Seq(PhaseRecord), Agree(phases), "handles" \in DOMAIN by_kind,
         NEW entries, entries = by_kind["handles"], NEW lines, lines = FileLines(entries)
  PROVE  TotalOver(lines.files, DOMAIN lines.files) + TotalOver(lines.loose, DOMAIN lines.loose)
           = TotalOver(entries, DOMAIN entries)
<1> PICK D : D = DOMAIN entries
  OBVIOUS
<1>1. D \in SUBSET EntryPoint /\ \A c \in D : entries[c] = CallsOf(c)
  <2>1. entries = [c \in Called("handles") |-> CallsOf(c)]
    BY DEF by_kind
  <2>2. "handles" \in KindNames
    BY DEF KindNames
  <2>3. Called("handles") \subseteq EntryPoint
    BY <2>2, KindsAre DEF Called
  <2> QED BY <2>1, <2>3
<1>2. IsFiniteSet(D)
  BY <1>1, EntryPointFinite, FS_Subset
<1> PICK M, counted : /\ M = [c \in D |-> {t \in handle_calls : Touch(t).call = c}]
                      /\ counted = [c \in D |-> Cardinality(M[c])]
  OBVIOUS
<1>3. \A c \in D : /\ M[c] = {t \in handle_calls : Touch(t).call = c} /\ IsFiniteSet(M[c])
                   /\ counted[c] = Cardinality(M[c]) /\ counted[c] \in Nat
                   /\ counted[c] <= entries[c] /\ entries[c] \in Nat
  <2> TAKE c \in D
  <2>1. M[c] = TouchesOf(phases, c)
    BY DEF TouchesOf, handle_calls, Touch
  <2>2. entries[c] = CallsOfIn(phases, c) /\ c \in EntryPoint
    BY <1>1 DEF CallsOf, CallsOfIn
  <2>3. IsFiniteSet(TouchesOf(phases, c)) /\ Cardinality(TouchesOf(phases, c)) <= CallsOfIn(phases, c)
    BY <2>2 DEF Agree
  <2>4. CallsOfIn(phases, c) \in Nat
    BY <2>2, CallsInIs
  <2>5. Cardinality(M[c]) \in Nat /\ IsFiniteSet(M[c])
    BY <2>1, <2>3, FS_CardinalityType
  <2>6. counted[c] = Cardinality(M[c]) /\ M[c] = {t \in handle_calls : Touch(t).call = c}
    BY ONLY c \in D, counted = [e \in D |-> Cardinality(M[e])],
            M = [e \in D |-> {t \in handle_calls : Touch(t).call = e}]
  <2> QED BY ONLY <2>1, <2>2, <2>3, <2>4, <2>5, <2>6
<1> PICK P : P = Placed(entries)
  OBVIOUS
<1>4. P = Parts(D, M)
  <2>1. P = {t \in handle_calls : Touch(t).call \in D}
    BY DEF Placed
  <2> QED BY ONLY <1>3, <2>1 DEF Parts
<1>5. IsFiniteSet(P) /\ TotalOver(counted, D) = Cardinality(P)
  <2>1. \A c, e \in D : c # e => M[c] \cap M[e] = {}
    BY ONLY <1>3
  <2>2. \A c \in D : IsFiniteSet(M[c]) /\ counted[c] = Cardinality(M[c])
    BY ONLY <1>3
  <2>3. IsFiniteSet(Parts(D, M)) /\ TotalOver(counted, D) = Cardinality(Parts(D, M))
    BY ONLY <1>2, <2>1, <2>2, CardinalityOfParts
  <2> QED BY <1>4, <2>3
<1>6. TotalOver(lines.files, DOMAIN lines.files) = Cardinality(P)
  <2> PICK paths : paths = {Touch(t).path : t \in P}
    OBVIOUS
  <2> PICK on, files : /\ on = [path \in paths |-> {t \in P : Touch(t).path = path}]
                       /\ files = [path \in paths |-> Cardinality(on[path])]
    OBVIOUS
  <2>1. lines.files = files /\ DOMAIN files = paths
    <3>1. lines.files = [path \in paths |-> Cardinality({t \in P : Touch(t).path = path})]
      BY DEF FileLines
    <3>2. \A path \in paths : on[path] = {t \in P : Touch(t).path = path}
      BY ONLY on = [path \in paths |-> {t \in P : Touch(t).path = path}]
    <3> QED BY ONLY <3>1, <3>2, files = [path \in paths |-> Cardinality(on[path])]
  <2>2. IsFiniteSet(paths)
    <3> DEFINE pathOf == [t \in P |-> Touch(t).path]
    <3>1. pathOf \in Surjection(P, paths)
      BY DEF Surjection
    <3> HIDE DEF pathOf
    <3> QED BY ONLY <1>5, <3>1, FS_Surjection
  <2>3. \A path \in paths : on[path] \in SUBSET P /\ files[path] = Cardinality(on[path])
    BY ONLY on = [path \in paths |-> {t \in P : Touch(t).path = path}],
            files = [path \in paths |-> Cardinality(on[path])]
  <2>4. \A path \in paths : IsFiniteSet(on[path])
    BY ONLY <1>5, <2>3, FS_Subset
  <2>5. \A p, q \in paths : p # q => on[p] \cap on[q] = {}
    BY ONLY on = [path \in paths |-> {t \in P : Touch(t).path = path}]
  <2>6. TotalOver(files, paths) = Cardinality(Parts(paths, on))
    BY ONLY <2>2, <2>3, <2>4, <2>5, CardinalityOfParts
  <2>7. Parts(paths, on) = P
    <3>1. \A t \in P : Touch(t).path \in paths /\ t \in on[Touch(t).path]
      <4> TAKE t \in P
      <4> PICK path : path = Touch(t).path
        OBVIOUS
      <4>1. path \in paths
        BY ONLY paths = {Touch(u).path : u \in P}, t \in P, path = Touch(t).path
      <4>2. t \in on[path]
        BY ONLY <4>1, on = [q \in paths |-> {u \in P : Touch(u).path = q}], t \in P, path = Touch(t).path
      <4> QED BY ONLY <4>1, <4>2, path = Touch(t).path
    <3>2. \A path \in paths : on[path] \subseteq P
      BY <2>3
    <3> QED BY ONLY <3>1, <3>2 DEF Parts
  <2> QED BY ONLY <2>1, <2>6, <2>7
<1> PICK rest : rest = [c \in D |-> entries[c] - counted[c]]
  OBVIOUS
<1>7. \A c \in D : rest[c] \in Int /\ counted[c] \in Int /\ entries[c] = rest[c] + counted[c]
  BY ONLY <1>3, rest = [c \in D |-> entries[c] - counted[c]]
<1>8. TotalOver(entries, D) = TotalOver(rest, D) + TotalOver(counted, D)
  BY ONLY <1>2, <1>7, SumPlus
<1>9. TotalOver(lines.loose, DOMAIN lines.loose) = TotalOver(rest, D)
  <2> PICK L, loose : L = {c \in D : entries[c] > counted[c]} /\ loose = [c \in L |-> entries[c] - counted[c]]
    OBVIOUS
  <2>1. lines.loose = loose /\ DOMAIN loose = L
    <3> PICK n : n = [c \in D |-> Cardinality({t \in P : Touch(t).call = c})]
      OBVIOUS
    <3>1. lines.loose = [c \in {e \in D : entries[e] > Cardinality({t \in P : Touch(t).call = e})}
                           |-> entries[c] - Cardinality({t \in P : Touch(t).call = c})]
      BY DEF FileLines
    <3>2. \A c \in D : {t \in P : Touch(t).call = c} = M[c]
      <4>1. P = {t \in handle_calls : Touch(t).call \in D}
        BY DEF Placed
      <4> QED BY ONLY <1>3, <4>1
    <3>3. \A c \in D : Cardinality({t \in P : Touch(t).call = c}) = counted[c]
      BY ONLY <1>3, <3>2
    <3>4. {e \in D : entries[e] > Cardinality({t \in P : Touch(t).call = e})} = L
      BY ONLY <3>3, L = {c \in D : entries[c] > counted[c]}
    <3>5. L \in SUBSET D
      OBVIOUS
    <3>6. lines.loose = [c \in L |-> entries[c] - Cardinality({t \in P : Touch(t).call = c})]
      BY ONLY <3>1, <3>4
    <3> QED BY ONLY <3>3, <3>5, <3>6, loose = [c \in L |-> entries[c] - counted[c]]
  <2>2. L \in SUBSET D /\ IsFiniteSet(L)
    BY ONLY <1>2, L = {c \in D : entries[c] > counted[c]}, FS_Subset
  <2>3. \A c \in L : loose[c] \in Int /\ loose[c] = rest[c]
    BY ONLY <1>7, <2>2, rest = [c \in D |-> entries[c] - counted[c]],
            loose = [c \in L |-> entries[c] - counted[c]]
  <2>4. TotalOver(loose, L) = TotalOver(rest, L)
    BY ONLY <2>2, <2>3, SumSame
  <2>5. \A c \in D \ L : rest[c] = 0
    BY ONLY <1>3, <1>7, L = {c \in D : entries[c] > counted[c]}
  <2>6. \A c \in D : rest[c] \in Int
    BY ONLY <1>7
  <2>7. TotalOver(rest, D) = TotalOver(rest, L)
    BY ONLY <1>2, <2>2, <2>5, <2>6, SumOnly
  <2> QED BY ONLY <2>1, <2>4, <2>7
<1>10. TotalOver(rest, D) \in Int /\ TotalOver(counted, D) \in Int
  <2>1. \A c \in D : rest[c] \in Int
    BY ONLY <1>7
  <2>2. \A c \in D : counted[c] \in Int
    BY ONLY <1>7
  <2> QED BY ONLY <1>2, <2>1, <2>2, TotalOverInt
<1> QED BY ONLY <1>5, <1>6, <1>8, <1>9, <1>10, D = DOMAIN entries

\* Phases in agreement have every call on one line.
LEMMA LinesAdd ==
  ASSUME phases \in Seq(PhaseRecord), Agree(phases)
  PROVE  EveryCallIsOnOneLine
<1>1. ASSUME "handles" \in DOMAIN by_kind, NEW entries, entries = by_kind["handles"],
             NEW lines, lines = FileLines(entries)
      PROVE  TotalOver(lines.files, DOMAIN lines.files) + TotalOver(lines.loose, DOMAIN lines.loose)
               = TotalOver(entries, DOMAIN entries)
  BY <1>1, HandlesAdd
<1> QED BY KindsAdd, <1>1 DEF EveryCallIsOnOneLine

-----------------------------------------------------------------------------
(* What the book says of the ranges looked at *)

\* Of the first m of the ranges cs, those that were written, or were read.
SeenOf(cs, m, written) == {k \in 1..m : cs[k].written = written}

\* The book b of the ranges cs that a half has looked at m of: its rows add up
\* to their bytes, tell what is new of them and cover the same ground.
Ledger(b, cs, m, written) ==
  LET seen == SeenOf(cs, m, written)
  IN /\ b \in Books
     /\ Moved(b) = TotalOver([k \in seen |-> cs[k].size], seen)
     /\ \A n \in Name : n # Elsewhere => Tells(b[n])
     /\ \A n \in Name : \A x : x \in Points(b[n].spans) <=> \E k \in seen : x \in OnName(cs[k], n)

Blank == [n \in Name |-> NoRow]

\* The book of nothing is blank.
LEMMA BlankLedger ==
  ASSUME NEW cs, NEW written
  PROVE  Ledger(Blank, cs, 0, written)
<1>1. SeenOf(cs, 0, written) = {}
  BY DEF SeenOf
<1>2. NoRow \in Row /\ NoRow.bytes = 0 /\ NoRow.again = 0 /\ NoRow.spans = <<>>
  <2>1. <<>> \in Seq(Nat \X Nat)
    BY EmptySeq
  <2> QED BY <2>1 DEF NoRow, Row
<1> PICK b : b = Blank
  OBVIOUS
<1>3. b \in [Name -> Row] /\ \A n \in Name : b[n] = NoRow
  BY <1>2 DEF Blank
<1> PICK e : e = <<>>
  OBVIOUS
<1>4. DOMAIN e = {} /\ Points(e) = {} /\ InOrder(e)
  BY DEF Points, InOrder
<1>5. b \in Books
  BY ONLY <1>2, <1>3, <1>4, e = <<>> DEF Books
<1>6. Moved(b) = 0
  <2> PICK f, N : N = Name /\ f = [n \in Name |-> b[n].bytes]
    OBVIOUS
  <2>1. \A n \in N : f[n] = 0
    BY <1>2, <1>3
  <2>2. IsFiniteSet(N) /\ {} \in SUBSET N /\ (\A n \in N : f[n] \in Int) /\ \A n \in N \ {} : f[n] = 0
    BY <2>1, NameFinite
  <2>3. TotalOver(f, N) = TotalOver(f, {})
    BY ONLY <2>2, SumOnly
  <2> QED BY <2>3, TotalOverNone DEF Moved
<1>7. \A n \in Name : Tells(b[n]) /\ Points(b[n].spans) = {}
  <2> TAKE n \in Name
  <2>1. Cardinality({}) = 0
    BY FS_EmptySet
  <2>2. b[n].bytes = 0 /\ b[n].again = 0 /\ b[n].spans = e
    BY ONLY <1>2, <1>3, n \in Name, e = <<>>
  <2>3. Points(b[n].spans) = {}
    BY ONLY <1>4, <2>2
  <2>4. b[n].bytes - b[n].again = 0
    BY ONLY <2>2
  <2>5. Tells(b[n])
    BY ONLY <2>1, <2>3, <2>4 DEF Tells
  <2> QED BY ONLY <2>3, <2>5
<1>8. TotalOver([k \in {} |-> cs[k].size], {}) = 0
  BY TotalOverNone
<1> QED BY ONLY <1>1, <1>5, <1>6, <1>7, <1>8, b = Blank DEF Ledger

\* Looking at the next range keeps the book right.
LEMMA LedgerGrows ==
  ASSUME NEW cs \in Seq(Crossed), NEW m \in Nat, m < Len(cs), NEW written, NEW b,
         Ledger(b, cs, m, written), NEW r, r = cs[m + 1],
         NEW after, after = IF r.written = written THEN Charged(b, r) ELSE b
  PROVE  Ledger(after, cs, m + 1, written)
<1> PICK S, T, x : S = SeenOf(cs, m, written) /\ T = SeenOf(cs, m + 1, written) /\ x = m + 1
  OBVIOUS
<1>1. \A k \in 1..(m + 1) : cs[k] \in Crossed
  OBVIOUS
<1>2. r \in Crossed /\ r.size \in Nat
  BY <1>1 DEF Crossed
<1>3. \A k : k \in 1..(m + 1) <=> k \in 1..m \/ k = x
  BY ONLY m \in Nat, x = m + 1
<1>4. T = (IF r.written = written THEN S \cup {x} ELSE S) /\ x \notin S
  <2>1. \A k \in S : k # x
    BY DEF SeenOf
  <2>2. \A k : k \in T <=> k \in S \/ (k = x /\ r.written = written)
    BY ONLY <1>3, r = cs[m + 1], x = m + 1, S = SeenOf(cs, m, written),
            T = SeenOf(cs, m + 1, written) DEF SeenOf
  <2> QED BY ONLY <2>1, <2>2
<1>5. IsFiniteSet(S)
  <2>1. IsFiniteSet(1..m)
    BY FS_Interval
  <2> QED BY <2>1, FS_Subset DEF SeenOf
<1>6. /\ b \in Books
      /\ Moved(b) = TotalOver([k \in S |-> cs[k].size], S)
      /\ \A n \in Name : n # Elsewhere => Tells(b[n])
      /\ \A n \in Name : \A y : y \in Points(b[n].spans) <=> \E k \in S : y \in OnName(cs[k], n)
  BY DEF Ledger
<1>7. CASE r.written = written
  <2>1. after = Charged(b, r) /\ T = S \cup {x}
    BY <1>4, <1>7
  <2>2. /\ after \in Books /\ Moved(after) = Moved(b) + r.size
        /\ \A n \in Name : /\ n # Elsewhere /\ Tells(b[n]) => Tells(after[n])
                           /\ Points(after[n].spans) = Points(b[n].spans) \cup OnName(r, n)
    <3>1. Adds(after, b, r)
      BY ONLY <1>2, <1>6, <2>1, ChargedIs
    <3> QED BY ONLY <3>1 DEF Adds
  <2>3. Moved(after) = TotalOver([k \in T |-> cs[k].size], T)
    <3> PICK f, g : f = [k \in S |-> cs[k].size] /\ g = [k \in T |-> cs[k].size]
      OBVIOUS
    <3>1. \A k \in T : cs[k].size \in Int
      <4>1. T \subseteq 1..(m + 1)
        BY DEF SeenOf
      <4> QED BY <1>1, <4>1 DEF Crossed
    <3>2. \A k \in S : g[k] \in Int /\ g[k] = f[k]
      BY ONLY <2>1, <3>1, f = [k \in S |-> cs[k].size], g = [k \in T |-> cs[k].size]
    <3>3. (\A k \in S \cup {x} : g[k] \in Int) /\ g[x] = r.size
      <4>1. x \in T
        BY ONLY <2>1
      <4>2. g[x] = cs[x].size
        BY ONLY <4>1, g = [k \in T |-> cs[k].size]
      <4>3. \A k \in S \cup {x} : g[k] = cs[k].size
        BY ONLY <2>1, g = [k \in T |-> cs[k].size]
      <4> QED BY ONLY <2>1, <3>1, <4>2, <4>3, r = cs[m + 1], x = m + 1
    <3>4. TotalOver(g, S \cup {x}) = TotalOver(g, S) + g[x]
      BY ONLY <1>4, <1>5, <3>3, SumAdd
    <3>5. TotalOver(g, S) = TotalOver(f, S)
      BY ONLY <1>5, <3>2, SumSame
    <3> QED BY ONLY <1>6, <2>1, <2>2, <3>3, <3>4, <3>5, f = [k \in S |-> cs[k].size],
                    g = [k \in T |-> cs[k].size]
  <2>4. ASSUME NEW n \in Name, NEW y
        PROVE  y \in Points(after[n].spans) <=> \E k \in T : y \in OnName(cs[k], n)
    <3>1. (\E k \in T : y \in OnName(cs[k], n))
            <=> (\E k \in S : y \in OnName(cs[k], n)) \/ y \in OnName(cs[x], n)
      BY ONLY <2>1
    <3>2. y \in Points(after[n].spans) <=> y \in Points(b[n].spans) \/ y \in OnName(r, n)
      BY ONLY <2>2, n \in Name
    <3> QED BY ONLY <1>6, <3>1, <3>2, n \in Name, r = cs[m + 1], x = m + 1
  <2>5. \A n \in Name : n # Elsewhere => Tells(after[n])
    BY ONLY <1>6, <2>2
  <2> QED BY ONLY <2>2, <2>3, <2>4, <2>5, T = SeenOf(cs, m + 1, written) DEF Ledger
<1>8. CASE r.written # written
  <2>1. after = b /\ T = S
    BY <1>4, <1>8
  <2> QED BY ONLY <1>6, <2>1, T = SeenOf(cs, m + 1, written) DEF Ledger
<1> QED BY <1>7, <1>8

\* Where a name is one file's, what a row tells is the ground on the name.
LEMMA LedgerTells ==
  ASSUME NEW cs \in Seq(Crossed), NEW m \in 0..Len(cs), NEW written, NEW b,
         Ledger(b, cs, m, written), NEW n \in Name, n # Elsewhere, NamesOneFile(n),
         NEW seen, seen = SeenOf(cs, m, written)
  PROVE  b[n].bytes - b[n].again
           = Cardinality(UNION {{cs[k].target} \X OnName(cs[k], n) : k \in seen})
<1> PICK P, G : P = Points(b[n].spans) /\ G = UNION {{cs[k].target} \X OnName(cs[k], n) : k \in seen}
  OBVIOUS
<1>1. \A k \in seen : cs[k] \in Crossed /\ cs[k].target \in Target
  <2>1. \A k \in seen : k \in 1..Len(cs)
    BY DEF SeenOf
  <2>2. \A r \in Crossed : r.target \in Target
    BY DEF Crossed
  <2>3. \A k \in 1..Len(cs) : cs[k] \in Crossed
    BY ONLY cs \in Seq(Crossed)
  <2> QED BY ONLY <2>1, <2>2, <2>3
<1>2. \A x : x \in P <=> \E k \in seen : x \in OnName(cs[k], n)
  BY DEF Ledger
<1>3. b[n].bytes - b[n].again = Cardinality(P)
  BY DEF Ledger, Tells
<1>4. IsFiniteSet(P)
  <2>1. b[n].spans \in Seq(Span)
    BY DEF Ledger, Books, Row, Span
  <2> QED BY <2>1, PointsFinite
<1>5. ASSUME NEW k \in seen, NEW x \in OnName(cs[k], n)
      PROVE  n \in NamesOf(cs[k].target)
  <2> PICK r, hits : r = cs[k] /\ hits = RegionsHit(r)
    OBVIOUS
  <2>1. hits \in Seq(Region) /\ \A i \in 1..Len(hits) : hits[i].name \in NamesOf(r.target)
    BY ONLY <1>1, k \in seen, r = cs[k], hits = RegionsHit(r), RegionsHitIs
  <2>2. \A h \in ToSet(hits) : h.name \in NamesOf(r.target)
    BY <2>1 DEF ToSet
  <2>3. \E h \in ToSet(hits) : h.name = n
    BY DEF OnName
  <2> QED BY ONLY <2>2, <2>3, r = cs[k]
<1>6. CASE P = {}
  <2>1. G = {}
    BY ONLY <1>2, <1>6, G = UNION {{cs[k].target} \X OnName(cs[k], n) : k \in seen}
  <2> QED BY <1>3, <1>6, <2>1
<1>7. CASE P # {}
  <2> PICK l \in seen : OnName(cs[l], n) # {}
    BY <1>2, <1>7
  <2> PICK t \in Target : t = cs[l].target
    BY <1>1
  <2>1. n \in NamesOf(t)
    BY <1>5
  <2>2. ASSUME NEW k \in seen, OnName(cs[k], n) # {} PROVE cs[k].target = t
    <3>1. n \in NamesOf(cs[k].target) /\ cs[k].target \in Target
      BY <1>1, <1>5, <2>2
    <3> QED BY ONLY <2>1, <3>1, t \in Target, NamesOneFile(n) DEF NamesOneFile
  <2>3. G = {t} \X P
    <3>1. ASSUME NEW g \in G PROVE g \in {t} \X P
      <4> PICK k \in seen : g \in {cs[k].target} \X OnName(cs[k], n)
        BY ONLY <3>1, G = UNION {{cs[k].target} \X OnName(cs[k], n) : k \in seen}
      <4>1. g[2] \in OnName(cs[k], n) /\ g = <<cs[k].target, g[2]>>
        OBVIOUS
      <4>2. cs[k].target = t /\ g[2] \in P
        BY <1>2, <2>2, <4>1
      <4> QED BY ONLY <4>1, <4>2
    <3>2. ASSUME NEW x \in P PROVE <<t, x>> \in G
      <4> PICK k \in seen : x \in OnName(cs[k], n)
        BY ONLY <1>2, <3>2
      <4>1. cs[k].target = t
        BY <2>2
      <4>2. <<t, x>> \in {cs[k].target} \X OnName(cs[k], n)
        BY ONLY <4>1, x \in OnName(cs[k], n)
      <4> QED BY ONLY <4>2, k \in seen, G = UNION {{cs[j].target} \X OnName(cs[j], n) : j \in seen}
    <3> QED BY ONLY <3>1, <3>2
  <2> PICK one : one = {t}
    OBVIOUS
  <2>4. IsFiniteSet(one) /\ Cardinality(one) = 1
    BY ONLY one = {t}, FS_Singleton
  <2>5. Cardinality(one \X P) = Cardinality(one) * Cardinality(P) /\ Cardinality(P) \in Nat
    BY ONLY <1>4, <2>4, FS_Product, FS_CardinalityType
  <2>6. Cardinality(G) = Cardinality(P)
    BY ONLY <2>3, <2>4, <2>5, one = {t}
  <2> QED BY <1>3, <2>6
<1> QED BY <1>6, <1>7

-----------------------------------------------------------------------------
(* The invariant *)

\* What every step keeps: the phases agree, the book is blank until a half is
\* charged, and says of each half what Ledger says of the ranges looked at.
IInv ==
  /\ at \in {"launching", Halves[1], Halves[2], "charged"}
  /\ phases \in Seq(PhaseRecord) /\ phases # <<>> /\ Agree(phases)
  /\ next \in 0..Len(crossings)
  /\ at = "launching" => next = 0 /\ book = Blank
  /\ Ledger(book, crossings, next, at = "writes")

\* A phase after a call is a phase.
LEMMA CountedIs ==
  ASSUME NEW q \in PhaseRecord, NEW c \in EntryPoint, NEW p, p = Counted(q, c)
  PROVE  p \in PhaseRecord /\ CallMade(q, p, c) /\ p.touches = q.touches /\ p.ranges = q.ranges
<1> PICK calls, a : calls = q.calls /\ a = [calls EXCEPT ![c] = calls[c] + 1]
  OBVIOUS
<1>1. /\ q.fs_calls \in Nat /\ calls \in [EntryPoint -> Nat] /\ q.ranges \in Seq(Crossed)
      /\ q.touches \in Seq(HandleCall)
      /\ q = [fs_calls |-> q.fs_calls, calls |-> calls, ranges |-> q.ranges, touches |-> q.touches]
  BY DEF PhaseRecord
<1>2. a \in [EntryPoint -> Nat] /\ \A e \in EntryPoint : a[e] = calls[e] + (IF e = c THEN 1 ELSE 0)
  BY ONLY <1>1, c \in EntryPoint, a = [calls EXCEPT ![c] = calls[c] + 1]
<1>3. p = [fs_calls |-> q.fs_calls + 1, calls |-> a, ranges |-> q.ranges, touches |-> q.touches]
  <2>1. p = [q EXCEPT !.fs_calls = q.fs_calls + 1, !.calls = a]
    BY DEF Counted
  <2> QED BY ONLY <1>1, <2>1
<1>4. p \in PhaseRecord
  BY ONLY <1>1, <1>2, <1>3 DEF PhaseRecord
<1> QED BY ONLY <1>2, <1>3, <1>4, calls = q.calls DEF CallMade

\* So is one with a range more,
LEMMA MovedIs ==
  ASSUME NEW q \in PhaseRecord, NEW c \in Crossing, NEW p,
         p = [Counted(q, c.call) EXCEPT !.ranges = Append(@, c.range)]
  PROVE  c.call \in EntryPoint /\ p \in PhaseRecord /\ CallMade(q, p, c.call)
<1> PICK e : e = c.call
  OBVIOUS
<1> PICK d : d = Counted(q, e)
  OBVIOUS
<1>1. e \in EntryPoint /\ c.range \in Crossed
  BY AccountingAssumption DEF EntryPoint
<1>2. d \in PhaseRecord /\ CallMade(q, d, e)
  BY ONLY <1>1, q \in PhaseRecord, d = Counted(q, e), CountedIs
<1>3. p = [d EXCEPT !.ranges = Append(d.ranges, c.range)]
  OBVIOUS
<1>4. Append(d.ranges, c.range) \in Seq(Crossed)
  <2>1. d.ranges \in Seq(Crossed)
    BY ONLY <1>2 DEF PhaseRecord
  <2> QED BY ONLY <1>1, <2>1, AppendProperties
<1>5. /\ p \in PhaseRecord /\ p.fs_calls = d.fs_calls /\ p.calls = d.calls
      /\ p.touches = d.touches
  BY ONLY <1>2, <1>3, <1>4 DEF PhaseRecord
<1>6. CallMade(q, p, e)
  BY ONLY <1>2, <1>5 DEF CallMade
<1> QED BY ONLY <1>1, <1>5, <1>6, e = c.call

\* and one with a file named.
LEMMA NamedIs ==
  ASSUME NEW q \in PhaseRecord, NEW c \in HandleCall, NEW p,
         p = [Counted(q, c.call) EXCEPT !.touches = Append(@, c)]
  PROVE  c.call \in EntryPoint /\ p \in PhaseRecord /\ CallMade(q, p, c.call)
<1> PICK e : e = c.call
  OBVIOUS
<1> PICK d : d = Counted(q, e)
  OBVIOUS
<1>1. e \in EntryPoint
  BY DEF EntryPoint
<1>2. d \in PhaseRecord /\ CallMade(q, d, e) /\ d.touches = q.touches
  BY ONLY <1>1, q \in PhaseRecord, d = Counted(q, e), CountedIs
<1>3. p = [d EXCEPT !.touches = Append(d.touches, c)]
  OBVIOUS
<1>4. Append(d.touches, c) \in Seq(HandleCall)
  <2>1. d.touches \in Seq(HandleCall)
    BY ONLY <1>2 DEF PhaseRecord
  <2> QED BY ONLY c \in HandleCall, <2>1, AppendProperties
<1>5. /\ p \in PhaseRecord /\ p.fs_calls = d.fs_calls /\ p.calls = d.calls
      /\ p.touches = Append(q.touches, c)
  BY ONLY <1>2, <1>3, <1>4 DEF PhaseRecord
<1>6. CallMade(q, p, e)
  BY ONLY <1>2, <1>5, c \in HandleCall, e = c.call DEF CallMade
<1> QED BY ONLY <1>1, <1>5, <1>6, e = c.call

\* The last phase is one.
LEMMA LastIs ==
  ASSUME NEW s \in Seq(PhaseRecord), s # <<>>
  PROVE  Len(s) \in 1..Len(s) /\ Last(s) = s[Len(s)] /\ Last(s) \in PhaseRecord
<1>1. Len(s) \in Nat \ {0}
  BY EmptySeq
<1> QED BY <1>1 DEF Last

\* A launch begins with it,
LEMMA InvInit == Init => IInv
<1> SUFFICES ASSUME Init PROVE IInv
  OBVIOUS
<1>1. phases = <<Phase>> /\ next = 0 /\ at = "launching" /\ book = Blank
  BY DEF Init, Blank
<1>2. phases \in Seq(PhaseRecord) /\ phases # <<>> /\ Agree(phases)
  BY <1>1, FirstAgrees
<1>3. crossings \in Seq(Crossed)
  BY <1>2, CrossingsType DEF crossings
<1>4. next \in 0..Len(crossings)
  BY <1>1, <1>3
<1>5. Ledger(book, crossings, next, at = "writes")
  BY <1>1, BlankLedger
<1> QED BY <1>1, <1>2, <1>4, <1>5 DEF IInv

\* and more phases of a launch keep it.
LEMMA LaunchKeeps ==
  ASSUME IInv, at = "launching", phases' \in Seq(PhaseRecord), phases' # <<>>, Agree(phases'),
         UNCHANGED <<at, next, book>>
  PROVE  IInv'
<1>1. next' = 0 /\ at' = "launching" /\ book' = Blank
  BY DEF IInv
<1>2. Agree(phases)'
  BY DEF Agree, CallsIn, CallsOfIn, TouchesOf
<1>3. crossings' \in Seq(Crossed)
  BY CrossingsType DEF crossings
<1>4. next' \in 0..Len(crossings')
  BY <1>1, <1>3
<1>5. Blank' = Blank
  BY DEF Blank, NoRow
<1>6. Ledger(book', crossings', next', at' = "writes")
  BY <1>1, BlankLedger
<1> QED BY <1>1, <1>2, <1>4, <1>5, <1>6 DEF IInv

\* A call counted in the last phase keeps it.
LEMMA RecordsKeeps ==
  ASSUME IInv, NEW c \in EntryPoint, NEW p \in PhaseRecord, CallMade(Last(phases), p, c), Records(p)
  PROVE  IInv'
<1>1. phases \in Seq(PhaseRecord) /\ phases # <<>> /\ Agree(phases)
  BY DEF IInv
<1> PICK s, n : s = phases /\ n = Len(s)
  OBVIOUS
<1>2. n \in 1..Len(s) /\ Last(phases) = s[n]
  BY ONLY <1>1, s = phases, n = Len(s), LastIs
<1> PICK u : u = [s EXCEPT ![n] = p]
  OBVIOUS
<1>3. Replaces(u, s, n, p)
  BY ONLY <1>1, <1>2, s = phases, p \in PhaseRecord, u = [s EXCEPT ![n] = p], ExceptSeq DEF Replaces
<1>4. u \in Seq(PhaseRecord) /\ Len(u) = Len(s) /\ Agree(u)
  BY ONLY <1>1, <1>2, <1>3, s = phases, p \in PhaseRecord, c \in EntryPoint,
          CallMade(Last(phases), p, c), CallAgrees
<1>5. u # <<>>
  <2>1. Len(u) \in Nat \ {0}
    BY <1>2, <1>4
  <2> QED BY ONLY <2>1, EmptySeq
<1>6. phases' = u /\ at = "launching" /\ UNCHANGED <<at, next, book>>
  BY DEF Records
<1> QED BY ONLY IInv, <1>4, <1>5, <1>6, LaunchKeeps

\* So does a new phase.
LEMMA NextPhaseKeeps ==
  ASSUME IInv, NextPhase
  PROVE  IInv'
<1>1. phases \in Seq(PhaseRecord) /\ Agree(phases)
  BY DEF IInv
<1> PICK u : u = Append(phases, Phase)
  OBVIOUS
<1>2. u \in Seq(PhaseRecord) /\ Opens(u, phases) /\ u # <<>>
  BY ONLY <1>1, PhaseIs, u = Append(phases, Phase), AppendProperties DEF Opens
<1>3. Agree(u)
  BY ONLY <1>1, <1>2, PhaseAgrees
<1>4. phases' = u /\ at = "launching" /\ UNCHANGED <<at, next, book>>
  BY DEF NextPhase
<1> QED BY ONLY IInv, <1>2, <1>3, <1>4, LaunchKeeps

\* And the charging of a half.
LEMMA ChargingKeeps ==
  ASSUME IInv, LaunchEnds \/ LooksAtRange \/ HalfIsCharged
  PROVE  IInv'
<1>1. phases' = phases /\ crossings' = crossings
  BY DEF LaunchEnds, LooksAtRange, HalfIsCharged, crossings
<1>2. phases \in Seq(PhaseRecord) /\ phases # <<>> /\ Agree(phases) /\ next \in 0..Len(crossings)
  BY DEF IInv
<1>3. Agree(phases)'
  <2>1. Agree(phases')
    BY ONLY <1>1, <1>2
  <2> QED BY ONLY <2>1 DEF Agree, CallsIn, CallsOfIn, TouchesOf
<1>4. crossings \in Seq(Crossed)
  BY <1>2, CrossingsType DEF crossings
<1>5. Blank' = Blank
  BY DEF Blank, NoRow
<1>6. CASE LaunchEnds
  <2>1. at' = "reads" /\ next' = 0 /\ book' = Blank
    BY <1>6 DEF LaunchEnds, IInv, Halves
  <2>2. Ledger(book', crossings', next', at' = "writes")
    BY <2>1, BlankLedger
  <2>3. next' \in 0..Len(crossings')
    BY <1>1, <1>4, <2>1
  <2> QED BY <1>1, <1>2, <1>3, <2>1, <2>2, <2>3 DEF IInv, Halves
<1>7. CASE HalfIsCharged
  <2>1. at' \in {"writes", "charged"} /\ next' = 0 /\ book' = Blank
    BY <1>7 DEF HalfIsCharged, Halves, Blank
  <2>2. Ledger(book', crossings', next', at' = "writes")
    BY <2>1, BlankLedger
  <2>3. next' \in 0..Len(crossings')
    BY <1>1, <1>4, <2>1
  <2> QED BY <1>1, <1>2, <1>3, <2>1, <2>2, <2>3 DEF IInv, Halves
<1>8. CASE LooksAtRange
  <2>1. /\ at' = at /\ at \in {"reads", "writes"} /\ next < Len(crossings) /\ next' = next + 1
        /\ book' = IF crossings[next'].written = (at = "writes")
                   THEN Charged(book, crossings[next']) ELSE book
    BY <1>1, <1>8 DEF LooksAtRange, Charging, Halves
  <2> PICK cs, m, b, after, w : /\ cs = crossings /\ m = next /\ b = book /\ after = book'
                                /\ w = (at = "writes")
    OBVIOUS
  <2> PICK r : r = cs[m + 1]
    OBVIOUS
  <2>2. m \in Nat /\ m < Len(cs) /\ cs \in Seq(Crossed)
    BY <1>2, <1>4, <2>1
  <2>3. Ledger(b, cs, m, w)
    BY DEF IInv
  <2>4. after = IF r.written = w THEN Charged(b, r) ELSE b
    BY ONLY <2>1, cs = crossings, m = next, b = book, after = book', w = (at = "writes"), r = cs[m + 1]
  <2>5. Ledger(after, cs, m + 1, w)
    BY ONLY <2>2, <2>3, <2>4, r = cs[m + 1], LedgerGrows
  <2>6. Ledger(book', crossings', next', at' = "writes")
    BY ONLY <1>1, <2>1, <2>5, cs = crossings, m = next, after = book', w = (at = "writes")
  <2>7. next' \in 0..Len(crossings')
    BY <1>1, <1>4, <2>1, <2>2
  <2> QED BY <1>1, <1>2, <1>3, <2>1, <2>6, <2>7 DEF IInv, Halves
<1> QED BY <1>6, <1>7, <1>8

\* Every step of a run keeps it.
LEMMA InvStep == IInv /\ [Next]_vars => IInv'
<1> SUFFICES ASSUME IInv, [Next]_vars PROVE IInv'
  OBVIOUS
<1>1. phases \in Seq(PhaseRecord) /\ phases # <<>>
  BY DEF IInv
<1> PICK q \in PhaseRecord : q = Last(phases)
  BY <1>1, LastIs
<1>2. ASSUME NEW c \in Crossing, MovesBytes(c) PROVE IInv'
  <2> PICK p : p = [Counted(q, c.call) EXCEPT !.ranges = Append(@, c.range)]
    OBVIOUS
  <2>1. c.call \in EntryPoint /\ p \in PhaseRecord /\ CallMade(q, p, c.call)
    BY MovedIs
  <2>2. Records(p)
    BY <1>2 DEF MovesBytes
  <2> QED BY <2>1, <2>2, RecordsKeeps
<1>3. ASSUME NEW c \in HandleCall, NamesAFile(c) PROVE IInv'
  <2> PICK p : p = [Counted(q, c.call) EXCEPT !.touches = Append(@, c)]
    OBVIOUS
  <2>1. c.call \in EntryPoint /\ p \in PhaseRecord /\ CallMade(q, p, c.call)
    BY NamedIs
  <2>2. Records(p)
    BY <1>3 DEF NamesAFile
  <2> QED BY <2>1, <2>2, RecordsKeeps
<1>4. ASSUME NEW call \in EntryPoint, OnlyCrosses(call) PROVE IInv'
  <2> PICK p : p = Counted(q, call)
    OBVIOUS
  <2>1. p \in PhaseRecord /\ CallMade(q, p, call)
    BY CountedIs
  <2>2. Records(p)
    BY <1>4 DEF OnlyCrosses
  <2> QED BY <2>1, <2>2, RecordsKeeps
<1>5. CASE NextPhase
  BY <1>5, NextPhaseKeeps
<1>6. CASE LaunchEnds \/ LooksAtRange \/ HalfIsCharged
  BY <1>6, ChargingKeeps
<1>7. CASE UNCHANGED vars
  <2>1. at' = at /\ phases' = phases /\ next' = next /\ book' = book /\ crossings' = crossings
    BY <1>7 DEF vars, crossings
  <2>2. Agree(phases)'
    <3>1. Agree(phases)
      BY DEF IInv
    <3>2. Agree(phases')
      BY ONLY <2>1, <3>1
    <3> QED BY ONLY <3>2 DEF Agree, CallsIn, CallsOfIn, TouchesOf
  <2>3. Ledger(book', crossings', next', at' = "writes")
    BY <2>1 DEF IInv
  <2>4. Blank' = Blank
    BY DEF Blank, NoRow
  <2> QED BY <2>1, <2>2, <2>3, <2>4 DEF IInv
<1> QED BY <1>2, <1>3, <1>4, <1>5, <1>6, <1>7 DEF Next

\* The invariant of a run and of its report.
THEOREM Invariance == Spec => []IInv
<1>1. Init => IInv
  BY InvInit
<1>2. IInv /\ [Next]_vars => IInv'
  BY InvStep
<1> QED BY <1>1, <1>2, PTL DEF Spec

\* Every variable keeps its type.
THEOREM TypeCorrect == Spec => []TypeOK
<1>1. IInv => TypeOK
  BY DEF IInv, Ledger, Books, TypeOK
<1> QED BY <1>1, Invariance, PTL

\* No byte of a half goes uncharged and none is charged twice: by_region's rows
\* add up to the ranges it looked at, for every layout and in any order.
THEOREM BytesCharged == Spec => []EveryByteIsCharged
<1>1. IInv => EveryByteIsCharged
  BY DEF IInv, Ledger, Moved, EveryByteIsCharged, Seen, SeenOf
<1> QED BY <1>1, Invariance, PTL

\* A row's "again" is what its calls moved past the first time each byte was
\* moved: by_region's merged spans lose no ground and make none up.
THEOREM AgainIsRight == Spec => []AgainIsGroundCoveredBefore
<1>1. IInv => AgainIsGroundCoveredBefore
  <2> SUFFICES ASSUME IInv, NEW n \in Name \ {Elsewhere}, NamesOneFile(n)
               PROVE  book[n].bytes - book[n].again = Cardinality(Ground(n))
    BY DEF AgainIsGroundCoveredBefore
  <2> PICK cs, m, b, w : cs = crossings /\ m = next /\ b = book /\ w = (at = "writes")
    OBVIOUS
  <2> PICK seen : seen = SeenOf(cs, m, w)
    OBVIOUS
  <2>1. cs \in Seq(Crossed) /\ m \in 0..Len(cs) /\ Ledger(b, cs, m, w)
    BY CrossingsType DEF IInv, crossings
  <2>2. n \in Name /\ n # Elsewhere
    OBVIOUS
  <2>3. b[n].bytes - b[n].again
          = Cardinality(UNION {{cs[k].target} \X OnName(cs[k], n) : k \in seen})
    BY ONLY <2>1, <2>2, NamesOneFile(n), seen = SeenOf(cs, m, w), LedgerTells
  <2>4. seen = Seen
    BY DEF Seen, SeenOf
  <2>5. Ground(n) = UNION {{cs[k].target} \X OnName(cs[k], n) : k \in seen}
    BY <2>4 DEF Ground
  <2> QED BY <2>3, <2>5
<1> QED BY <1>1, Invariance, PTL

\* Every call is counted once in one kind, and the handles' lines are the
\* handles' calls, whatever was called, refused or opened.
THEOREM CallsOnLines == Spec => []EveryCallIsOnOneLine
<1>1. IInv => EveryCallIsOnOneLine
  BY LinesAdd DEF IInv
<1> QED BY <1>1, Invariance, PTL
=============================================================================
