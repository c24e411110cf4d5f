----------------------------- MODULE NaturalOrder -----------------------------
(***************************************************************************)
(* Facts about the order of the natural numbers that the proofs of several *)
(* components need: which entry is the oldest, where a walk ends, what it  *)
(* is to list a finite set in order, and to sum over one.                  *)
(***************************************************************************)
EXTENDS Integers, FiniteSetTheorems, WellFoundedInduction, TLAPS

NatLess == {p \in Nat \X Nat : p[1] < p[2]}

LEMMA NatLessWellFounded == IsWellFoundedOn(NatLess, Nat)
BY NatLessThanWellFounded DEF OpToRel, NatLess

\* Every set of naturals that is not empty has a least element.
LEMMA LeastNatural ==
  ASSUME NEW S \in SUBSET Nat, S # {}
  PROVE  \E n \in S : \A m \in S : n <= m
<1>1. PICK n \in S : \A m \in S : <<m, n>> \notin NatLess
  BY NatLessWellFounded, WFMin
<1>2. ASSUME NEW m \in S PROVE n <= m
  <2>1. m \in Nat /\ n \in Nat /\ <<m, n>> \notin NatLess
    BY <1>1
  <2> QED BY <2>1 DEF NatLess
<1> QED BY <1>2

\* Every set of naturals below a bound that is not empty has a greatest element.
LEMMA GreatestNatural ==
  ASSUME NEW bound \in Nat, NEW S \in SUBSET 0..bound, S # {}
  PROVE  \E n \in S : \A m \in S : m <= n
<1> DEFINE T == {bound - n : n \in S}
<1>1. \A n \in S : n \in Int /\ 0 <= n /\ n <= bound /\ bound - n \in Nat
  OBVIOUS
<1>2. T \in SUBSET Nat /\ T # {}
  <2>1. \A t \in T : t \in Nat
    BY <1>1
  <2> QED BY <2>1
<1>3. PICK t \in T : \A u \in T : t <= u
  BY <1>2, LeastNatural
<1>4. PICK n \in S : t = bound - n
  BY <1>3
<1>5. \A m \in S : bound - n <= bound - m
  BY <1>3, <1>4
<1> QED BY <1>1, <1>5

\* A set of naturals that holds 0 and the successor of what it holds is Nat.
LEMMA InductiveSet ==
  ASSUME NEW S, 0 \in S, \A n \in Nat : n \in S => n + 1 \in S
  PROVE  Nat \subseteq S
<1> SUFFICES ASSUME Nat \ S # {} PROVE FALSE
  OBVIOUS
<1>1. PICK n \in Nat \ S : \A m \in Nat \ S : n <= m
  BY LeastNatural
<1>2. n # 0 /\ n - 1 \in Nat
  BY <1>1
<1>3. n - 1 \in S
  BY <1>1, <1>2
<1> QED BY <1>1, <1>2, <1>3

-----------------------------------------------------------------------------
(* Finite sets put in order *)

IsOrder(R, S) ==
  /\ \A x \in S : <<x, x>> \notin R
  /\ \A x, y \in S : x # y => <<x, y>> \in R \/ <<y, x>> \in R
  /\ \A x, y, z \in S : <<x, y>> \in R /\ <<y, z>> \in R => <<x, z>> \in R

Enumerates(f, S, R) ==
  /\ f \in [1..Cardinality(S) -> S]
  /\ \A i, j \in 1..Cardinality(S) : i < j => <<f[i], f[j]>> \in R

\* f reaches all of S.
Covers(f, S) == \A x \in S : \E i \in 1..Cardinality(S) : f[i] = x

\* A finite set that is not empty has a last element.
LEMMA LastInOrder ==
  ASSUME NEW S, IsFiniteSet(S), NEW R, IsOrder(R, S), S # {}
  PROVE  \E m \in S : \A x \in S \ {m} : <<x, m>> \in R
<1> DEFINE Lasts(T) == \E m \in T : \A x \in T \ {m} : <<x, m>> \in R
           N == {n \in Nat : \A T \in SUBSET S : Cardinality(T) = n + 1 => Lasts(T)}
<1>1. ASSUME NEW T \in SUBSET S, NEW n \in Nat, Cardinality(T) = n + 1
      PROVE  \E x \in T : Cardinality(T \ {x}) = n /\ IsFiniteSet(T \ {x})
  <2>1. IsFiniteSet(T)
    BY FS_Subset
  <2>2. T # {}
    BY <1>1, <2>1, FS_EmptySet
  <2>3. PICK x \in T : TRUE
    BY <2>2
  <2>4. Cardinality(T \ {x}) = Cardinality(T) - 1 /\ IsFiniteSet(T \ {x})
    BY <2>1, <2>3, FS_RemoveElement
  <2> QED BY <1>1, <2>3, <2>4
<1>2. 0 \in N
  <2> SUFFICES ASSUME NEW T \in SUBSET S, Cardinality(T) = 0 + 1 PROVE Lasts(T)
    OBVIOUS
  <2>1. PICK x \in T : Cardinality(T \ {x}) = 0 /\ IsFiniteSet(T \ {x})
    BY <1>1
  <2>2. T \ {x} = {}
    BY <2>1, FS_EmptySet
  <2> QED BY <2>1, <2>2
<1>3. ASSUME NEW n \in Nat, n \in N PROVE n + 1 \in N
  <2> SUFFICES ASSUME NEW T \in SUBSET S, Cardinality(T) = n + 1 + 1 PROVE Lasts(T)
    OBVIOUS
  <2>1. PICK x \in T : Cardinality(T \ {x}) = n + 1
    BY <1>1
  <2>2. T \ {x} \in SUBSET S
    OBVIOUS
  <2>3. PICK m \in T \ {x} : \A y \in (T \ {x}) \ {m} : <<y, m>> \in R
    BY <1>3, <2>1, <2>2
  <2>4. CASE <<x, m>> \in R
    <3>1. \A y \in T \ {m} : <<y, m>> \in R
      BY <2>3, <2>4
    <3> QED BY <2>3, <3>1
  <2>5. CASE <<x, m>> \notin R
    <3>1. <<m, x>> \in R
      BY <2>1, <2>3, <2>5 DEF IsOrder
    <3>2. \A y \in T \ {x} : <<y, x>> \in R
      BY <2>1, <2>3, <3>1 DEF IsOrder
    <3> QED BY <2>1, <3>2
  <2> QED BY <2>4, <2>5
<1>4. Nat \subseteq N
  <2> HIDE DEF N
  <2> QED BY <1>2, <1>3, InductiveSet
<1>5. Cardinality(S) \in Nat /\ Cardinality(S) # 0
  BY FS_CardinalityType, FS_EmptySet
<1>6. Cardinality(S) - 1 \in N
  BY <1>4, <1>5
<1> QED BY <1>5, <1>6

LEMMA OrderedEnumeration ==
  ASSUME NEW S, IsFiniteSet(S), NEW R, IsOrder(R, S)
  PROVE  \E f : Enumerates(f, S, R)
<1> DEFINE Listed(T, n) == \E f \in [1..n -> T] : \A i, j \in 1..n : i < j => <<f[i], f[j]>> \in R
           N == {n \in Nat : \A T \in SUBSET S : Cardinality(T) = n => Listed(T, n)}
<1>1. 0 \in N
  <2> SUFFICES ASSUME NEW T \in SUBSET S PROVE Listed(T, 0)
    OBVIOUS
  <2>1. 1..0 = {}
    OBVIOUS
  <2>2. [i \in 1..0 |-> i] \in [1..0 -> T]
    BY <2>1
  <2> QED BY <2>1, <2>2
<1>2. ASSUME NEW n \in Nat, n \in N PROVE n + 1 \in N
  <2> SUFFICES ASSUME NEW T \in SUBSET S, Cardinality(T) = n + 1 PROVE Listed(T, n + 1)
    OBVIOUS
  <2>1. IsFiniteSet(T) /\ T # {} /\ IsOrder(R, T)
    BY FS_Subset, FS_EmptySet DEF IsOrder
  <2>2. PICK m \in T : \A x \in T \ {m} : <<x, m>> \in R
    BY <2>1, LastInOrder
  <2>3. Cardinality(T \ {m}) = n /\ T \ {m} \in SUBSET S
    <3>1. Cardinality(T \ {m}) = Cardinality(T) - 1
      BY <2>1, <2>2, FS_RemoveElement
    <3> QED BY <3>1
  <2>4. PICK f \in [1..n -> T \ {m}] : \A i, j \in 1..n : i < j => <<f[i], f[j]>> \in R
    BY <1>2, <2>3
  <2> DEFINE g == [i \in 1..n + 1 |-> IF i = n + 1 THEN m ELSE f[i]]
  <2>5. ASSUME NEW i \in 1..n + 1 PROVE i = n + 1 \/ i \in 1..n
    OBVIOUS
  <2>6. g \in [1..n + 1 -> T]
    BY <2>2, <2>4, <2>5
  <2>7. ASSUME NEW i \in 1..n + 1, NEW j \in 1..n + 1, i < j PROVE <<g[i], g[j]>> \in R
    <3>1. i \in 1..n /\ g[i] = f[i] /\ f[i] \in T \ {m}
      BY <2>4, <2>7
    <3>2. CASE j = n + 1
      BY <2>2, <3>1, <3>2
    <3>3. CASE j \in 1..n
      <4>1. g[j] = f[j]
        BY <3>3
      <4> QED BY <2>4, <2>7, <3>1, <3>3, <4>1
    <3> QED BY <2>5, <3>2, <3>3
  <2> HIDE DEF g
  <2> QED BY <2>6, <2>7
<1>3. Nat \subseteq N
  <2> HIDE DEF N
  <2> QED BY <1>1, <1>2, InductiveSet
<1>4. Cardinality(S) \in N
  BY <1>3, FS_CardinalityType
<1> QED BY <1>4 DEF Enumerates

\* What lists a set in order lists all of it.
LEMMA EnumerationComplete ==
  ASSUME NEW S, IsFiniteSet(S), NEW R, IsOrder(R, S), NEW f, Enumerates(f, S, R)
  PROVE  Covers(f, S)
<1>1. Cardinality(S) \in Nat
  BY FS_CardinalityType
<1>2. ASSUME NEW i \in 1..Cardinality(S), NEW j \in 1..Cardinality(S), f[i] = f[j]
      PROVE  i = j
  <2>1. f[i] \in S /\ <<f[i], f[j]>> \notin R /\ <<f[j], f[i]>> \notin R
    BY <1>2 DEF Enumerates, IsOrder
  <2>2. ~(i < j) /\ ~(j < i)
    BY <2>1 DEF Enumerates
  <2> QED BY <1>1, <2>2
<1>3. f \in Injection(1..Cardinality(S), S)
  BY <1>2 DEF Enumerates, Injection, IsInjective
<1>4. Cardinality(1..Cardinality(S)) = Cardinality(S)
  BY <1>1, FS_Interval
<1>5. f \in Surjection(1..Cardinality(S), S)
  BY <1>3, <1>4, FS_Injection
<1> QED BY <1>5 DEF Surjection, Covers

-----------------------------------------------------------------------------
(* Sums *)

Pick(s) == CHOOSE x \in s : TRUE

\* What FoldSeq with + adds up over the subset s, if g holds the sums of smaller ones.
Added(g, f, s) == IF s = {} THEN 0 ELSE f[Pick(s)] + g[s \ {Pick(s)}]

IsSum(g, f, D) == g = [s \in SUBSET D |-> Added(g, f, s)]

SumsOf(f, D) == CHOOSE g : IsSum(g, f, D)

LEMMA Picked ==
  ASSUME NEW s, IsFiniteSet(s), s # {}
  PROVE  /\ Pick(s) \in s /\ IsFiniteSet(s \ {Pick(s)})
         /\ Cardinality(s) \in Nat \ {0} /\ Cardinality(s \ {Pick(s)}) = Cardinality(s) - 1
<1>1. Pick(s) \in s
  BY DEF Pick
<1>2. Cardinality(s) \in Nat /\ Cardinality(s) # 0
  BY FS_CardinalityType, FS_EmptySet
<1> QED BY <1>1, <1>2, FS_RemoveElement

LEMMA SumsExist ==
  ASSUME NEW f, NEW D, IsFiniteSet(D)
  PROVE  \E g : IsSum(g, f, D)
<1> DEFINE Up(g, n) == \A s \in SUBSET D : Cardinality(s) <= n => g[s] = Added(g, f, s)
           N == {n \in Nat : \E g : Up(g, n)}
<1>1. ASSUME NEW s \in SUBSET D PROVE IsFiniteSet(s) /\ Cardinality(s) \in Nat /\ Cardinality(s) <= Cardinality(D)
  BY FS_Subset, FS_CardinalityType
<1>2. 0 \in N
  <2> DEFINE g == [s \in SUBSET D |-> 0]
  <2>1. ASSUME NEW s \in SUBSET D, Cardinality(s) <= 0 PROVE g[s] = Added(g, f, s)
    <3>1. s = {}
      BY <1>1, <2>1, FS_EmptySet
    <3> QED BY <3>1 DEF Added
  <2> HIDE DEF g
  <2>2. Up(g, 0)
    BY <2>1
  <2> QED BY <2>2
<1>3. ASSUME NEW n \in Nat, n \in N PROVE n + 1 \in N
  <2>1. PICK g : Up(g, n)
    BY <1>3
  <2> DEFINE h == [s \in SUBSET D |-> IF Cardinality(s) <= n THEN g[s] ELSE Added(g, f, s)]
  <2>2. ASSUME NEW s \in SUBSET D, Cardinality(s) <= n + 1 PROVE h[s] = Added(h, f, s)
    <3>1. CASE s = {}
      <4>1. Added(g, f, s) = 0 /\ Added(h, f, s) = 0
        BY <3>1 DEF Added
      <4>2. h[s] = g[s] \/ h[s] = Added(g, f, s)
        OBVIOUS
      <4>3. Cardinality(s) <= n
        BY <3>1, FS_EmptySet
      <4> QED BY <2>1, <4>1, <4>2, <4>3
    <3>2. CASE s # {}
      <4>1. /\ Pick(s) \in s /\ Cardinality(s \ {Pick(s)}) = Cardinality(s) - 1
            /\ Cardinality(s) \in Nat
        BY <1>1, <3>2, Picked
      <4>2. s \ {Pick(s)} \in SUBSET D /\ Cardinality(s \ {Pick(s)}) <= n
        BY <2>2, <4>1
      <4>3. h[s \ {Pick(s)}] = g[s \ {Pick(s)}]
        BY <4>2
      <4>4. Added(h, f, s) = Added(g, f, s)
        BY <3>2, <4>3 DEF Added
      <4>5. h[s] = Added(g, f, s)
        BY <2>1
      <4> QED BY <4>4, <4>5
    <3> QED BY <3>1, <3>2
  <2> HIDE DEF h
  <2>3. Up(h, n + 1)
    BY <2>2
  <2> QED BY <2>3
<1>4. Nat \subseteq N
  <2> HIDE DEF N
  <2> QED BY <1>2, <1>3, InductiveSet
<1>5. PICK g : Up(g, Cardinality(D))
  BY <1>4, FS_CardinalityType
<1> DEFINE h == [s \in SUBSET D |-> g[s]]
<1>6. ASSUME NEW s \in SUBSET D PROVE h[s] = Added(h, f, s)
  <2>1. g[s] = Added(g, f, s)
    BY <1>1, <1>5
  <2>2. CASE s = {}
    BY <2>1, <2>2 DEF Added
  <2>3. CASE s # {}
    <3>1. h[s \ {Pick(s)}] = g[s \ {Pick(s)}]
      OBVIOUS
    <3> QED BY <2>1, <2>3, <3>1 DEF Added
  <2> QED BY <2>2, <2>3
<1>7. h = [s \in SUBSET D |-> h[s]]
  OBVIOUS
<1> HIDE DEF h
<1>8. IsSum(h, f, D)
  BY <1>6, <1>7 DEF IsSum
<1> QED BY <1>8

LEMMA SumsOfAll ==
  ASSUME NEW f, NEW D, IsFiniteSet(D)
  PROVE  \A s \in SUBSET D : SumsOf(f, D)[s] = Added(SumsOf(f, D), f, s)
<1>1. IsSum(SumsOf(f, D), f, D)
  BY SumsExist DEF SumsOf
<1> DEFINE g == SumsOf(f, D)
<1>2. g = [s \in SUBSET D |-> Added(g, f, s)]
  BY <1>1 DEF IsSum
<1> HIDE DEF g
<1>3. \A s \in SUBSET D : g[s] = Added(g, f, s)
  BY <1>2
<1> QED BY <1>3 DEF g

LEMMA SumsTyped ==
  ASSUME NEW f, NEW D, IsFiniteSet(D), NEW V \in {Int, Nat}, \A x \in D : f[x] \in V
  PROVE  \A s \in SUBSET D : SumsOf(f, D)[s] \in V
<1> DEFINE N == {n \in Nat : \A s \in SUBSET D : Cardinality(s) = n => SumsOf(f, D)[s] \in V}
<1>1. ASSUME NEW s \in SUBSET D
      PROVE  IsFiniteSet(s) /\ Cardinality(s) \in Nat /\ SumsOf(f, D)[s] = Added(SumsOf(f, D), f, s)
  BY FS_Subset, FS_CardinalityType, SumsOfAll
<1>2. 0 \in N
  <2> SUFFICES ASSUME NEW s \in SUBSET D, Cardinality(s) = 0 PROVE SumsOf(f, D)[s] \in V
    OBVIOUS
  <2>1. s = {}
    BY <1>1, FS_EmptySet
  <2>2. SumsOf(f, D)[s] = 0
    BY <1>1, <2>1 DEF Added
  <2>3. 0 \in V
    OBVIOUS
  <2> QED BY <2>2, <2>3
<1>3. ASSUME NEW n \in Nat, n \in N PROVE n + 1 \in N
  <2> SUFFICES ASSUME NEW s \in SUBSET D, Cardinality(s) = n + 1 PROVE SumsOf(f, D)[s] \in V
    OBVIOUS
  <2>1. s # {}
    BY FS_EmptySet
  <2>2. Pick(s) \in s /\ Cardinality(s \ {Pick(s)}) = n
    <3>1. Pick(s) \in s /\ Cardinality(s \ {Pick(s)}) = Cardinality(s) - 1
      BY <1>1, <2>1, Picked
    <3> QED BY <3>1
  <2>3. SumsOf(f, D)[s \ {Pick(s)}] \in V /\ f[Pick(s)] \in V
    BY <1>3, <2>2
  <2>4. SumsOf(f, D)[s] = f[Pick(s)] + SumsOf(f, D)[s \ {Pick(s)}]
    BY <1>1, <2>1 DEF Added
  <2> QED BY <2>3, <2>4
<1>4. Nat \subseteq N
  <2> HIDE DEF N
  <2> QED BY <1>2, <1>3, InductiveSet
<1> QED BY <1>1, <1>4

\* Any member may be the one that is added last.
LEMMA SumsAnyOrder ==
  ASSUME NEW f, NEW D, IsFiniteSet(D), \A x \in D : f[x] \in Int, NEW t \in SUBSET D, NEW y \in t
  PROVE  SumsOf(f, D)[t] = f[y] + SumsOf(f, D)[t \ {y}]
<1> DEFINE g == SumsOf(f, D)
           Any(s) == \A x \in s : g[s] = f[x] + g[s \ {x}]
           N == {n \in Nat : \A s \in SUBSET D : Cardinality(s) = n => Any(s)}
<1>1. ASSUME NEW s \in SUBSET D
      PROVE  IsFiniteSet(s) /\ Cardinality(s) \in Nat /\ g[s] = Added(g, f, s) /\ g[s] \in Int
  BY FS_Subset, FS_CardinalityType, SumsOfAll, SumsTyped
<1> HIDE DEF g
<1>2. 0 \in N
  <2> SUFFICES ASSUME NEW s \in SUBSET D, Cardinality(s) = 0 PROVE Any(s)
    OBVIOUS
  <2>1. s = {}
    BY <1>1, FS_EmptySet
  <2> QED BY <2>1
<1>3. ASSUME NEW n \in Nat, n \in N PROVE n + 1 \in N
  <2> SUFFICES ASSUME NEW s \in SUBSET D, Cardinality(s) = n + 1, NEW x \in s
               PROVE  g[s] = f[x] + g[s \ {x}]
    OBVIOUS
  <2>1. PICK p : p = Pick(s)
    OBVIOUS
  <2>2. p \in s /\ g[s] = f[p] + g[s \ {p}]
    BY <1>1, <2>1, Picked DEF Added
  <2>3. CASE p = x
    BY <2>2, <2>3
  <2>4. CASE p # x
    <3>1. Cardinality(s \ {p}) = Cardinality(s) - 1 /\ Cardinality(s \ {x}) = Cardinality(s) - 1
      BY <1>1, <2>2, FS_RemoveElement
    <3>2. Cardinality(s \ {p}) = n /\ Cardinality(s \ {x}) = n
      BY <3>1
    <3>3. g[s \ {p}] = f[x] + g[(s \ {p}) \ {x}] /\ g[s \ {x}] = f[p] + g[(s \ {x}) \ {p}]
      BY <1>3, <2>2, <2>4, <3>2
    <3>4. (s \ {p}) \ {x} = (s \ {x}) \ {p}
      OBVIOUS
    <3>5. PICK rest : rest = g[(s \ {x}) \ {p}] /\ rest \in Int
      BY <1>1
    <3>6. f[x] \in Int /\ f[p] \in Int
      BY <2>2
    <3>7. g[s] = f[p] + (f[x] + rest) /\ g[s \ {x}] = f[p] + rest
      BY <2>2, <3>3, <3>4, <3>5
    <3> QED BY <3>5, <3>6, <3>7
  <2> QED BY <2>3, <2>4
<1>4. Nat \subseteq N
  <2> HIDE DEF N
  <2> QED BY <1>2, <1>3, InductiveSet
<1>5. \A s \in SUBSET D : Any(s)
  BY <1>1, <1>4
<1> QED BY <1>5 DEF g

\* What is not added up does not matter.
LEMMA SumsAgree ==
  ASSUME NEW e, NEW f, NEW D, IsFiniteSet(D), NEW C \in SUBSET D, \A x \in C : e[x] = f[x]
  PROVE  \A s \in SUBSET C : SumsOf(e, C)[s] = SumsOf(f, D)[s]
<1> DEFINE Same(s) == SumsOf(e, C)[s] = SumsOf(f, D)[s]
           N == {n \in Nat : \A s \in SUBSET C : Cardinality(s) = n => Same(s)}
<1>1. IsFiniteSet(C)
  BY FS_Subset
<1>2. ASSUME NEW s \in SUBSET C
      PROVE  /\ IsFiniteSet(s) /\ Cardinality(s) \in Nat
             /\ SumsOf(e, C)[s] = Added(SumsOf(e, C), e, s)
             /\ SumsOf(f, D)[s] = Added(SumsOf(f, D), f, s)
  BY <1>1, FS_Subset, FS_CardinalityType, SumsOfAll
<1>3. 0 \in N
  <2> SUFFICES ASSUME NEW s \in SUBSET C, Cardinality(s) = 0 PROVE Same(s)
    OBVIOUS
  <2>1. s = {}
    BY <1>2, FS_EmptySet
  <2> QED BY <1>2, <2>1 DEF Added
<1>4. ASSUME NEW n \in Nat, n \in N PROVE n + 1 \in N
  <2> SUFFICES ASSUME NEW s \in SUBSET C, Cardinality(s) = n + 1 PROVE Same(s)
    OBVIOUS
  <2>1. s # {}
    BY FS_EmptySet
  <2>2. PICK p : p = Pick(s) /\ p \in s /\ Cardinality(s \ {p}) = n
    <3>1. Pick(s) \in s /\ Cardinality(s \ {Pick(s)}) = Cardinality(s) - 1
      BY <1>2, <2>1, Picked
    <3> QED BY <3>1
  <2>3. SumsOf(e, C)[s \ {p}] = SumsOf(f, D)[s \ {p}] /\ e[p] = f[p]
    BY <1>4, <2>2
  <2>4. /\ SumsOf(e, C)[s] = e[p] + SumsOf(e, C)[s \ {p}]
        /\ SumsOf(f, D)[s] = f[p] + SumsOf(f, D)[s \ {p}]
    BY <1>2, <2>1, <2>2 DEF Added
  <2> QED BY <2>3, <2>4
<1>5. Nat \subseteq N
  <2> HIDE DEF N
  <2> QED BY <1>3, <1>4, InductiveSet
<1> QED BY <1>2, <1>5
===============================================================================
