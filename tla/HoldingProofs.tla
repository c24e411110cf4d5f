----------------------------- MODULE HoldingProofs -----------------------------
(***************************************************************************)
(* Theorems about Holding, for every number of payers, every size of a     *)
(* batch, every cap on the scan and every limit on targets.                *)
(***************************************************************************)
EXTENDS Holding, NaturalOrder, FiniteSetTheorems, SequenceTheorems, TLAPS

-----------------------------------------------------------------------------
(* Finite sets of keys *)

LEMMA KeysFinite ==
  ASSUME NEW S \in SUBSET Keys
  PROVE  IsFiniteSet(S) /\ Cardinality(S) \in Nat
<1>1. ScanCap - 1 \in Int
  BY HoldingAssumption
<1>2. IsFiniteSet(Keys)
  BY <1>1, FS_Interval DEF Keys
<1> QED BY <1>2, FS_Subset, FS_CardinalityType

\* Fewer keys are no more keys.
LEMMA FewerKeys ==
  ASSUME NEW T \in SUBSET Keys, NEW S \in SUBSET T
  PROVE  Cardinality(S) <= Cardinality(T)
BY KeysFinite, FS_Subset

\* The first n of a set are n at most.
LEMMA LowestAtMost ==
  ASSUME NEW S \in SUBSET Keys, NEW n \in Nat
  PROVE  Cardinality(Lowest(S, n)) <= n
<1> DEFINE L == Lowest(S, n)
<1>1. L \in SUBSET Keys /\ L \subseteq S
  BY DEF Lowest
<1>2. CASE L = {}
  BY <1>2, FS_EmptySet
<1>3. CASE L # {}
  <2>1. L \in SUBSET 0..ScanCap /\ ScanCap \in Nat
    BY <1>1, HoldingAssumption DEF Keys
  <2>2. PICK m \in L : \A k \in L : k <= m
    BY <1>3, <2>1, GreatestNatural
  <2>3. L \ {m} \subseteq {j \in S : j < m}
    BY <2>1, <2>2, <1>1
  <2>4. Cardinality({j \in S : j < m}) < n
    BY <2>2 DEF Lowest
  <2>5. Cardinality(L \ {m}) <= Cardinality({j \in S : j < m})
    BY <2>3, FewerKeys
  <2>6. /\ Cardinality(L \ {m}) = Cardinality(L) - 1
        /\ Cardinality(L) \in Nat /\ Cardinality(L \ {m}) \in Nat
        /\ Cardinality({j \in S : j < m}) \in Nat
    <3>1. Cardinality(L \ {m}) = Cardinality(L) - 1
      BY <1>1, <2>2, KeysFinite, FS_RemoveElement
    <3>2. Cardinality(L) \in Nat
      BY <1>1, KeysFinite
    <3>3. Cardinality(L \ {m}) \in Nat
      <4>1. L \ {m} \in SUBSET Keys
        BY <1>1
      <4> QED BY <4>1, KeysFinite
    <3>4. Cardinality({j \in S : j < m}) \in Nat
      <4>1. {j \in S : j < m} \in SUBSET Keys
        OBVIOUS
      <4> QED BY <4>1, KeysFinite
    <3> QED BY <3>1, <3>2, <3>3, <3>4
  <2> HIDE DEF L
  <2>7. Cardinality(L) <= n
    BY <2>4, <2>5, <2>6
  <2> QED BY <2>7 DEF L
<1> QED BY <1>2, <1>3

\* Where fewer than n are found, all of them were.
LEMMA LowestIsAll ==
  ASSUME NEW S \in SUBSET Keys, NEW n \in Nat, Cardinality(Lowest(S, n)) < n
  PROVE  Lowest(S, n) = S
<1> DEFINE L == Lowest(S, n)
<1>1. L \subseteq S
  BY DEF Lowest
<1> SUFFICES ASSUME S \ L # {} PROVE FALSE
  BY <1>1
<1>2. S \ L \in SUBSET Nat
  <2>1. Keys \subseteq Nat
    BY HoldingAssumption DEF Keys
  <2> QED BY <2>1
<1>3. PICK k \in S \ L : \A j \in S \ L : k <= j
  BY <1>2, LeastNatural
<1>4. {j \in S : j < k} \subseteq L
  <2> SUFFICES ASSUME NEW j \in S, j < k, j \notin L PROVE FALSE
    OBVIOUS
  <2>1. k <= j /\ k \in Nat /\ j \in Nat
    BY <1>2, <1>3
  <2> QED BY <2>1
<1>5. /\ Cardinality({j \in S : j < k}) <= Cardinality(L)
      /\ Cardinality({j \in S : j < k}) \in Nat /\ Cardinality(L) \in Nat
  <2>1. L \in SUBSET Keys /\ {j \in S : j < k} \in SUBSET Keys
    BY <1>1
  <2> QED BY <2>1, <1>4, FewerKeys, KeysFinite
<1>6. k \in L
  BY <1>3, <1>5 DEF Lowest
<1> QED BY <1>3, <1>6

-----------------------------------------------------------------------------
(* Whole batches *)

LEMMA WholeBatches ==
  ASSUME NEW n \in Nat, n < ScanCap, n % ScanBatch = 0
  PROVE  /\ n + ScanBatch <= ScanCap
         /\ (n + ScanBatch) % ScanBatch = 0
<1> USE HoldingAssumption
<1> DEFINE q == n \div ScanBatch
           c == ScanCap \div ScanBatch
<1>1. q \in Int /\ c \in Int /\ n = ScanBatch * q /\ ScanCap = ScanBatch * c
  OBVIOUS
<1>2. q < c
  <2> SUFFICES ASSUME c <= q PROVE FALSE
    BY <1>1
  <2>1. ScanBatch * c <= ScanBatch * q
    BY <1>1
  <2> QED BY <1>1, <2>1
<1>3. ScanBatch * (q + 1) <= ScanBatch * c
  BY <1>1, <1>2
<1>4. n + ScanBatch = ScanBatch * (q + 1)
  BY <1>1
<1>5. (ScanBatch * (q + 1)) % ScanBatch = 0
  BY <1>1
<1> QED BY <1>1, <1>3, <1>4, <1>5
-----------------------------------------------------------------------------
(* What one step of a scan reads *)

Balances == {-1, 0, 1}

LEMMA Appended ==
  ASSUME NEW S, NEW s \in Seq(S), NEW t \in Seq(S)
  PROVE  /\ s \o t \in Seq(S) /\ Len(s \o t) = Len(s) + Len(t)
         /\ \A i \in 1..Len(s) : (s \o t)[i] = s[i]
         /\ \A i \in 1..Len(t) : (s \o t)[Len(s) + i] = t[i]
<1>1. Len(s) \in Nat /\ Len(t) \in Nat
  BY LenProperties
<1>2. \A i \in 1..Len(s) + Len(t) : (s \o t)[i] = IF i <= Len(s) THEN s[i] ELSE t[i - Len(s)]
  BY ConcatProperties
<1>3. ASSUME NEW i \in 1..Len(t) PROVE (s \o t)[Len(s) + i] = t[i]
  <2>1. Len(s) + i \in 1..Len(s) + Len(t) /\ ~(Len(s) + i <= Len(s)) /\ Len(s) + i - Len(s) = i
    BY <1>1
  <2> QED BY <1>2, <2>1
<1> QED BY <1>1, <1>2, <1>3, ConcatProperties

LEMMA ScanReads ==
  ASSUME TypeOK, NEW r \in Scanners, ScanStep(r), NEW len, len = Len(scanned[r])
  PROVE  /\ len \in Nat /\ len < ScanCap
         /\ scanned' \in [Scanners -> Seq(Balances)]
         /\ Len(scanned'[r]) = len + ScanBatch
         /\ len + ScanBatch \in 0..ScanCap /\ (len + ScanBatch) % ScanBatch = 0
         /\ \A s \in Scanners : s # r => scanned'[s] = scanned[s]
         /\ \A k \in Keys : k < len => scanned'[r][k + 1] = scanned[r][k + 1]
         /\ \A k \in len..len + ScanBatch - 1 : k \in Keys /\ scanned'[r][k + 1] = balance[k]
         /\ AllUnused(NextBatch(r)) <=> \A k \in len..len + ScanBatch - 1 : balance[k] = -1
<1> USE HoldingAssumption
<1>1. /\ len \in Nat /\ len < ScanCap /\ len % ScanBatch = 0
      /\ scanned' = [scanned EXCEPT ![r] = scanned[r] \o NextBatch(r)]
      /\ scanned \in [Scanners -> Seq(Balances)]
  BY DEF TypeOK, ScanStep, Balances
<1>2. len + ScanBatch \in 0..ScanCap /\ (len + ScanBatch) % ScanBatch = 0
  <2>1. len + ScanBatch <= ScanCap /\ (len + ScanBatch) % ScanBatch = 0
    BY <1>1, WholeBatches
  <2> QED BY ONLY <1>1, <2>1, HoldingAssumption
<1>3. \A i \in 1..ScanBatch : len + i - 1 \in Keys
  BY <1>1, <1>2 DEF Keys
<1>4. NextBatch(r) = [i \in 1..ScanBatch |-> balance[len + i - 1]]
  BY DEF NextBatch
<1>5. /\ NextBatch(r) \in Seq(Balances) /\ Len(NextBatch(r)) = ScanBatch
      /\ DOMAIN NextBatch(r) = 1..ScanBatch
      /\ \A i \in 1..ScanBatch : NextBatch(r)[i] = balance[len + i - 1]
  <2>1. NextBatch(r) \in [1..ScanBatch -> Balances]
    BY <1>3, <1>4 DEF TypeOK, Balances
  <2>2. DOMAIN NextBatch(r) = 1..ScanBatch /\ ScanBatch \in Nat
    BY <1>4
  <2>3. NextBatch(r) \in Seq(Balances)
    BY <2>1, <2>2, SeqDef
  <2>4. Len(NextBatch(r)) = ScanBatch
    BY <2>2, <2>3, LenProperties
  <2> QED BY <1>4, <2>2, <2>3, <2>4
<1>6. scanned[r] \in Seq(Balances) /\ scanned'[r] = scanned[r] \o NextBatch(r)
  BY <1>1
<1>7. /\ scanned'[r] \in Seq(Balances) /\ Len(scanned'[r]) = len + ScanBatch
      /\ \A i \in 1..len : scanned'[r][i] = scanned[r][i]
      /\ \A i \in 1..ScanBatch : scanned'[r][len + i] = balance[len + i - 1]
  <2>1. Balances = Balances /\ NextBatch(r) \in Seq(Balances) /\ scanned[r] \in Seq(Balances)
    BY <1>5, <1>6
  <2>2. /\ scanned[r] \o NextBatch(r) \in Seq(Balances)
        /\ Len(scanned[r] \o NextBatch(r)) = Len(scanned[r]) + Len(NextBatch(r))
        /\ \A i \in 1..Len(scanned[r]) : (scanned[r] \o NextBatch(r))[i] = scanned[r][i]
        /\ \A i \in 1..Len(NextBatch(r)) :
             (scanned[r] \o NextBatch(r))[Len(scanned[r]) + i] = NextBatch(r)[i]
    BY ONLY <2>1, Appended
  <2>3. len = Len(scanned[r])
    OBVIOUS
  <2> QED BY ONLY <1>5, <1>6, <2>2, <2>3
<1>8. /\ scanned' \in [Scanners -> Seq(Balances)]
      /\ \A s \in Scanners : s # r => scanned'[s] = scanned[s]
  BY <1>1, <1>6, <1>7
<1>9. ASSUME NEW k \in Keys, k < len PROVE scanned'[r][k + 1] = scanned[r][k + 1]
  <2>1. k + 1 \in 1..len
    BY <1>1, <1>9 DEF Keys
  <2> QED BY <2>1, <1>7
<1>10. ASSUME NEW k \in len..len + ScanBatch - 1
       PROVE  k \in Keys /\ scanned'[r][k + 1] = balance[k]
  <2> DEFINE i == k + 1 - len
  <2>1. i \in 1..ScanBatch /\ k = len + i - 1 /\ k + 1 = len + i
    BY <1>1
  <2>2. k \in Keys
    BY ONLY <2>1, <1>3
  <2>3. scanned'[r][len + i] = balance[len + i - 1]
    BY ONLY <2>1, <1>7
  <2> QED BY ONLY <2>1, <2>2, <2>3
<1>11. AllUnused(NextBatch(r)) <=> \A k \in len..len + ScanBatch - 1 : balance[k] = -1
  <2>1. AllUnused(NextBatch(r)) <=> \A i \in 1..ScanBatch : balance[len + i - 1] = -1
    <3>1. /\ DOMAIN NextBatch(r) = 1..ScanBatch
          /\ \A i \in 1..ScanBatch : NextBatch(r)[i] = balance[len + i - 1]
      BY <1>5
    <3> QED BY ONLY <3>1 DEF AllUnused
  <2>2. ASSUME \A i \in 1..ScanBatch : balance[len + i - 1] = -1,
               NEW k \in len..len + ScanBatch - 1
        PROVE  balance[k] = -1
    <3> DEFINE i == k + 1 - len
    <3>1. i \in 1..ScanBatch /\ k = len + i - 1
      BY <1>1
    <3> QED BY <3>1, <2>2
  <2>3. ASSUME \A k \in len..len + ScanBatch - 1 : balance[k] = -1, NEW i \in 1..ScanBatch
        PROVE  balance[len + i - 1] = -1
    <3>1. len + i - 1 \in len..len + ScanBatch - 1
      BY <1>1
    <3> QED BY <3>1, <2>3
  <2> QED BY <2>1, <2>2, <2>3
<1> QED BY <1>1, <1>2, <1>7, <1>8, <1>9, <1>10, <1>11

-----------------------------------------------------------------------------
(* Keys are used up and never become unused again *)

Ages == \A k \in Keys : balance'[k] = -1 => balance[k] = -1

LEMMA UnusedFewer ==
  ASSUME Ages
  PROVE  /\ Cardinality(Unused') <= Cardinality(Unused)
         /\ Cardinality(Unused') \in Nat /\ Cardinality(Unused) \in Nat
         /\ \A k \in Keys : /\ Cardinality(UnusedBelow(k)') <= Cardinality(UnusedBelow(k))
                            /\ Cardinality(UnusedBelow(k)') \in Nat
                            /\ Cardinality(UnusedBelow(k)) \in Nat
<1>1. Unused \in SUBSET Keys /\ Unused' \in SUBSET Unused /\ Unused' \in SUBSET Keys
  BY DEF Unused, Ages
<1>2. ASSUME NEW k \in Keys
      PROVE  /\ UnusedBelow(k) \in SUBSET Keys /\ UnusedBelow(k)' \in SUBSET UnusedBelow(k)
             /\ UnusedBelow(k)' \in SUBSET Keys
  BY <1>1 DEF UnusedBelow
<1> QED BY <1>1, <1>2, FewerKeys, KeysFinite

LEMMA DenseKept ==
  ASSUME TypeOK, DenseInv, Ages,
         \A k \in Keys : balance'[k] # -1 =>
           balance[k] # -1 \/ \E p \in Payers : k \in result[p],
         \A p \in Payers : result'[p] \subseteq result[p]
  PROVE  DenseInv'
<1>1. MaxTargets \in Nat
  BY HoldingAssumption
<1>2. ASSUME NEW k \in Keys, Cardinality(UnusedBelow(k)) < MaxTargets
      PROVE  Cardinality(UnusedBelow(k)') < MaxTargets
  BY <1>1, <1>2, UnusedFewer
<1>3. \A p \in Payers : result[p] \subseteq Keys
  BY DEF TypeOK, Scanners
<1> QED BY <1>2, <1>3 DEF DenseInv

\* Who was refused stays short of keys.
LEMMA RefusedKept ==
  ASSUME TypeOK, ResolvesUpToCap, Ages,
         \A p \in Payers : at'[p] = "REFUSED" => at[p] = "REFUSED" /\ count'[p] = count[p]
  PROVE  ResolvesUpToCap'
<1> SUFFICES ASSUME NEW p \in Payers, at'[p] = "REFUSED"
             PROVE  Cardinality(Unused') < count'[p]
  BY DEF ResolvesUpToCap, Unused
<1>1. Cardinality(Unused) < count[p] /\ count'[p] = count[p]
  BY DEF ResolvesUpToCap, Unused
<1>2. count[p] \in Int
  BY HoldingAssumption DEF TypeOK, Scanners
<1> QED BY <1>1, <1>2, UnusedFewer

-----------------------------------------------------------------------------
(* The inductive invariant *)

LEMMA HoldingInvInit == Init => HoldingInv
<1> SUFFICES ASSUME Init PROVE HoldingInv
  OBVIOUS
<1> USE HoldingAssumption DEF Init
<1>1. TypeOK
  <2>1. <<>> \in Seq({-1, 0, 1}) /\ Len(<<>>) = 0 /\ 0 % ScanBatch = 0
    OBVIOUS
  <2> QED BY <2>1 DEF TypeOK
<1>2. DenseInv
  BY DEF DenseInv, Scanners
<1>3. ScanInv /\ StopInv /\ HeldInv
  <2>1. \A r \in Scanners : before[r] = {} /\ scanned[r] = <<>> /\ at[r] = "IDLE"
    OBVIOUS
  <2>2. Owner \in Scanners /\ Len(<<>>) = 0 /\ \A k \in Keys : ~(k < 0)
    BY DEF Scanners, Keys
  <2> QED BY <2>1, <2>2 DEF ScanInv, StopInv, HeldInv
<1>4. ResolvesUpToCap /\ TargetsWereNew
  BY DEF ResolvesUpToCap, TargetsWereNew, Scanners
<1> QED BY <1>1, <1>2, <1>3, <1>4 DEF HoldingInv

\* A scan that stops at an unused batch has no used key above it.
LEMMA NoneAbove ==
  ASSUME TypeOK, DenseInv, NEW b \in Nat,
         \A k \in b..b + ScanBatch - 1 : k \in Keys /\ balance[k] = -1,
         NEW j \in Keys, balance[j] # -1
  PROVE  j < b
<1> USE HoldingAssumption
<1>1. j \in Nat
  BY DEF Keys
<1> SUFFICES ASSUME b + ScanBatch <= j PROVE FALSE
  BY <1>1
<1>2. b..b + ScanBatch - 1 \in SUBSET UnusedBelow(j)
  BY <1>1 DEF UnusedBelow, Unused
<1>3. Cardinality(b..b + ScanBatch - 1) = ScanBatch
  BY FS_Interval
<1>4. UnusedBelow(j) \in SUBSET Keys
  BY DEF UnusedBelow, Unused
<1>5. Cardinality(UnusedBelow(j)) >= ScanBatch /\ Cardinality(UnusedBelow(j)) \in Nat
  BY <1>2, <1>3, <1>4, FewerKeys, KeysFinite
<1>6. Cardinality(UnusedBelow(j)) < MaxTargets
  BY DEF DenseInv
<1> QED BY <1>5, <1>6

LEMMA ScanStepKeeps ==
  ASSUME HoldingInv, NEW r \in Scanners, ScanStep(r)
  PROVE  HoldingInv'
<1> USE HoldingAssumption DEF HoldingInv
<1> DEFINE len == Len(scanned[r])
<1>1. UNCHANGED <<balance, count, result, before>> /\ at[r] = "SCANNING"
  BY DEF ScanStep
<1>2. at' = [at EXCEPT ![r] = IF AllUnused(NextBatch(r)) \/ len + ScanBatch >= ScanCap
                                THEN "SCANNED" ELSE at[r]]
  BY DEF ScanStep
<1>3. /\ len \in Nat /\ len < ScanCap
      /\ scanned' \in [Scanners -> Seq({-1, 0, 1})]
      /\ Len(scanned'[r]) = len + ScanBatch
      /\ len + ScanBatch \in 0..ScanCap /\ (len + ScanBatch) % ScanBatch = 0
      /\ \A s \in Scanners : s # r => scanned'[s] = scanned[s]
      /\ \A k \in Keys : k < len => scanned'[r][k + 1] = scanned[r][k + 1]
      /\ \A k \in len..len + ScanBatch - 1 : k \in Keys /\ scanned'[r][k + 1] = balance[k]
      /\ AllUnused(NextBatch(r)) <=> \A k \in len..len + ScanBatch - 1 : balance[k] = -1
  BY ScanReads DEF Balances
<1> HIDE DEF len
<1>4. TypeOK'
  <2>1. \A s \in Scanners : Len(scanned'[s]) \in {n \in 0..ScanCap : n % ScanBatch = 0}
    BY <1>3 DEF TypeOK
  <2> QED BY <1>1, <1>2, <1>3, <2>1 DEF TypeOK
<1>5. \A s \in Scanners : s # r => at'[s] = at[s]
  BY <1>2 DEF TypeOK
<1>6. at'[r] \in {"SCANNING", "SCANNED"}
  BY <1>1, <1>2 DEF TypeOK
<1>7. ScanInv'
  <2>1. ASSUME NEW s \in Scanners, s # r
        PROVE  /\ at'[s] \notin {"SCANNING", "SCANNED"} => scanned'[s] = <<>>
               /\ \A k \in Keys : k < Len(scanned'[s]) /\ balance'[k] = -1 => scanned'[s][k + 1] = -1
               /\ \A k \in before'[s] :
                    /\ IF s = Owner THEN balance'[k] = 1 ELSE balance'[k] # -1
                    /\ k < Len(scanned'[s]) =>
                         scanned'[s][k + 1] \in IF s = Owner THEN {1} ELSE {0, 1}
    <3>1. /\ at'[s] = at[s] /\ scanned'[s] = scanned[s] /\ before'[s] = before[s]
          /\ balance' = balance
      BY ONLY <2>1, <1>1, <1>3, <1>5
    <3>2. ScanInv
      OBVIOUS
    <3> QED BY ONLY <2>1, <3>1, <3>2 DEF ScanInv
  <2>2. \A k \in Keys : k < Len(scanned'[r]) /\ balance[k] = -1 => scanned'[r][k + 1] = -1
    <3> SUFFICES ASSUME NEW k \in Keys, k < len + ScanBatch, balance[k] = -1
                 PROVE  scanned'[r][k + 1] = -1
      BY <1>3
    <3>1. CASE k < len
      BY <3>1, <1>3 DEF ScanInv, len
    <3>2. CASE k >= len
      <4>1. k \in len..len + ScanBatch - 1
        BY <3>2, <1>3, HoldingAssumption DEF Keys
      <4>2. scanned'[r][k + 1] = balance[k]
        BY ONLY <4>1, <1>3
      <4> QED BY ONLY <4>2, balance[k] = -1
    <3>3. k \in Nat /\ len \in Nat
      BY <1>3 DEF Keys
    <3> QED BY ONLY <3>1, <3>2, <3>3
  <2>3. ASSUME NEW k \in before[r]
        PROVE  /\ IF r = Owner THEN balance[k] = 1 ELSE balance[k] # -1
               /\ k < Len(scanned'[r]) =>
                    scanned'[r][k + 1] \in IF r = Owner THEN {1} ELSE {0, 1}
    <3>1. k \in Keys /\ balance[k] \in {-1, 0, 1}
      BY DEF TypeOK
    <3>2. IF r = Owner THEN balance[k] = 1 ELSE balance[k] # -1
      BY DEF ScanInv
    <3>3. CASE k < len
      BY <3>1, <3>2, <3>3, <1>3 DEF ScanInv, len
    <3>4. CASE k >= len /\ k < len + ScanBatch
      <4>1. scanned'[r][k + 1] = balance[k]
        BY <3>1, <3>4, <1>3 DEF Keys
      <4> QED BY <3>1, <3>2, <4>1
    <3> QED BY <3>1, <3>2, <3>3, <3>4, <1>3 DEF Keys
  <2> QED BY <2>1, <2>2, <2>3, <1>1, <1>6 DEF ScanInv
<1>8. StopInv'
  <2>1. ASSUME NEW s \in Scanners, s # r, at'[s] = "SCANNED"
        PROVE  /\ \A k \in before'[s] : k < Len(scanned'[s])
               /\ Len(scanned'[s]) = ScanCap \/
                  \E b \in Keys : b + ScanBatch = Len(scanned'[s]) /\
                    \A k \in b..b + ScanBatch - 1 : scanned'[s][k + 1] = -1
    <3>1. scanned'[s] = scanned[s] /\ at[s] = "SCANNED" /\ before' = before /\ StopInv
      BY <2>1, <1>1, <1>3, <1>5
    <3> QED BY ONLY <3>1, s \in Scanners, Zenon DEF StopInv
  <2>2. CASE len + ScanBatch >= ScanCap
    <3>1. Len(scanned'[r]) = ScanCap
      BY <2>2, <1>3
    <3>2. \A k \in before[r] : k < ScanCap
      BY DEF TypeOK, Keys
    <3> QED BY <2>1, <3>1, <3>2, <1>1 DEF StopInv
  <2>3. CASE AllUnused(NextBatch(r))
    <3>1. \A k \in len..len + ScanBatch - 1 : k \in Keys /\ balance[k] = -1 /\ scanned'[r][k + 1] = -1
      BY <2>3, <1>3
    <3>2. \A k \in before[r] : k \in Keys /\ balance[k] # -1
      BY DEF ScanInv, TypeOK
    <3>3. \A k \in before[r] : k < len
      BY <3>1, <3>2, <1>3, NoneAbove
    <3>4. len \in Keys /\ \A k \in before[r] : k < Len(scanned'[r])
      BY <3>2, <3>3, <1>3 DEF Keys
    <3>5. len + ScanBatch = Len(scanned'[r]) /\
          \A k \in len..len + ScanBatch - 1 : scanned'[r][k + 1] = -1
      BY ONLY <3>1, <1>3
    <3>6. \E b \in Keys : b + ScanBatch = Len(scanned'[r]) /\
            \A k \in b..b + ScanBatch - 1 : scanned'[r][k + 1] = -1
      BY ONLY <3>4, <3>5
    <3>7. /\ \A k \in before'[r] : k < Len(scanned'[r])
          /\ Len(scanned'[r]) = ScanCap \/
             \E b \in Keys : b + ScanBatch = Len(scanned'[r]) /\
               \A k \in b..b + ScanBatch - 1 : scanned'[r][k + 1] = -1
      BY <3>4, <3>6, <1>1
    <3> QED BY ONLY <2>1, <3>7, Zenon DEF StopInv
  <2>4. CASE ~(len + ScanBatch >= ScanCap) /\ ~AllUnused(NextBatch(r))
    <3>1. at'[r] = "SCANNING"
      BY <2>4, <1>1, <1>2 DEF TypeOK
    <3> QED BY <2>1, <3>1 DEF StopInv
  <2> QED BY <2>2, <2>3, <2>4
<1>9. DenseInv' /\ ResolvesUpToCap'
  BY <1>1, <1>5, <1>6, DenseKept, RefusedKept DEF Ages, Scanners
<1>10. HeldInv' /\ TargetsWereNew'
  BY <1>1, <1>5, <1>6 DEF HeldInv, TargetsWereNew, Scanners
<1> QED BY <1>4, <1>7, <1>8, <1>9, <1>10

LEMMA BeginTargetsKeeps ==
  ASSUME HoldingInv, NEW p \in Payers, BeginTargets(p)
  PROVE  HoldingInv'
<1> USE HoldingAssumption DEF HoldingInv
<1>1. /\ UNCHANGED <<balance, scanned, result>> /\ at[p] = "IDLE"
      /\ at' = [at EXCEPT ![p] = "SCANNING"]
      /\ before' = [before EXCEPT ![p] = {k \in Keys : balance[k] # -1}]
      /\ p \in Scanners /\ p # Owner
  BY DEF BeginTargets, Scanners
<1>2. PICK n \in 0..MaxCount : count' = [count EXCEPT ![p] = Clamp(n)]
  BY DEF BeginTargets
<1>3. TypeOK'
  <2>1. Clamp(n) \in 1..MaxTargets
    BY DEF Clamp
  <2> QED BY <1>1, <1>2, <2>1 DEF TypeOK
<1>4. /\ \A s \in Scanners : s # p => /\ at'[s] = at[s] /\ before'[s] = before[s]
                                      /\ count'[s] = count[s]
      /\ at'[p] = "SCANNING" /\ before'[p] = {k \in Keys : balance[k] # -1}
  BY <1>1, <1>2 DEF TypeOK
<1>5. scanned[p] = <<>> /\ \A k \in Keys : ~(k < Len(<<>>))
  BY <1>1 DEF ScanInv, Keys
<1>6. ScanInv'
  BY <1>1, <1>4, <1>5 DEF ScanInv
<1>7. StopInv' /\ HeldInv'
  BY <1>1, <1>4 DEF StopInv, HeldInv, Scanners
<1>8. DenseInv' /\ ResolvesUpToCap'
  BY <1>1, <1>4, DenseKept, RefusedKept DEF Ages, Scanners
<1>9. TargetsWereNew'
  BY <1>1, <1>4 DEF TargetsWereNew, Scanners
<1> QED BY <1>3, <1>6, <1>7, <1>8, <1>9

\* A scan that stopped read every unused key, or as many as anyone may ask for.
LEMMA StoppedReadEnough ==
  ASSUME HoldingInv, NEW p \in Payers, at[p] = "SCANNED"
  PROVE  Unused \subseteq Read(p, {-1}) \/ Cardinality(Read(p, {-1})) >= MaxTargets
<1> USE HoldingAssumption DEF HoldingInv
<1>1. p \in Scanners
  BY DEF Scanners
<1>2. CASE Len(scanned[p]) = ScanCap
  <2>1. ASSUME NEW k \in Unused PROVE k \in Read(p, {-1})
    <3>1. k \in Keys /\ balance[k] = -1 /\ k < Len(scanned[p])
      BY <1>2 DEF Unused, Keys
    <3> QED BY <3>1, <1>1 DEF ScanInv, Read
  <2> QED BY <2>1
<1>3. CASE \E b \in Keys : b + ScanBatch = Len(scanned[p]) /\
                \A k \in b..b + ScanBatch - 1 : scanned[p][k + 1] = -1
  <2>1. PICK b \in Keys : b + ScanBatch = Len(scanned[p]) /\
                \A k \in b..b + ScanBatch - 1 : scanned[p][k + 1] = -1
    BY <1>3
  <2>2. b \in Nat /\ Len(scanned[p]) <= ScanCap
    BY <1>1 DEF Keys, TypeOK
  <2>3. b..b + ScanBatch - 1 \in SUBSET Read(p, {-1})
    BY <2>1, <2>2 DEF Read, Keys
  <2>4. Cardinality(b..b + ScanBatch - 1) = ScanBatch
    BY <2>2, FS_Interval
  <2>5. Read(p, {-1}) \in SUBSET Keys
    BY DEF Read
  <2>6. Cardinality(Read(p, {-1})) >= ScanBatch /\ Cardinality(Read(p, {-1})) \in Nat
    BY <2>3, <2>4, <2>5, FewerKeys, KeysFinite
  <2> QED BY <2>6
<1> QED BY <1>1, <1>2, <1>3 DEF StopInv

\* A target has fewer unused keys below it than were asked for.
LEMMA TargetsAreLow ==
  ASSUME HoldingInv, NEW p \in Payers, at[p] = "SCANNED", NEW k \in FirstUnused(p, count[p])
  PROVE  /\ k \in Read(p, {-1})
         /\ Cardinality(UnusedBelow(k)) < MaxTargets
<1> USE HoldingAssumption DEF HoldingInv
<1>1. p \in Scanners /\ count[p] \in 1..MaxTargets
  BY DEF Scanners, TypeOK
<1>2. k \in Read(p, {-1}) /\ Cardinality({j \in Read(p, {-1}) : j < k}) < count[p]
  BY DEF FirstUnused, Lowest
<1>3. k \in Keys /\ k < Len(scanned[p]) /\ Len(scanned[p]) \in Nat
  BY <1>1, <1>2 DEF Read, TypeOK
<1>4. UnusedBelow(k) \in SUBSET {j \in Read(p, {-1}) : j < k}
  <2> SUFFICES ASSUME NEW j \in Keys, balance[j] = -1, j < k PROVE j \in Read(p, {-1})
    BY DEF UnusedBelow, Unused
  <2>1. j < Len(scanned[p])
    BY <1>3 DEF Keys
  <2> QED BY <2>1, <1>1 DEF ScanInv, Read
<1>5. {j \in Read(p, {-1}) : j < k} \in SUBSET Keys /\ UnusedBelow(k) \in SUBSET Keys
  BY DEF Read, UnusedBelow, Unused
<1>6. /\ Cardinality(UnusedBelow(k)) <= Cardinality({j \in Read(p, {-1}) : j < k})
      /\ Cardinality(UnusedBelow(k)) \in Nat /\ Cardinality({j \in Read(p, {-1}) : j < k}) \in Nat
  BY <1>4, <1>5, FewerKeys, KeysFinite
<1> QED BY <1>1, <1>2, <1>6

\* A request that answers leaves what the others have read as it is.
LEMMA AnswerKeepsScans ==
  ASSUME HoldingInv, NEW r \in Scanners, NEW stage \in {"REFUSED", "ANSWERED"},
         at' = [at EXCEPT ![r] = stage], scanned' = [scanned EXCEPT ![r] = <<>>],
         UNCHANGED <<balance, before>>
  PROVE  /\ scanned' \in [Scanners -> Seq({-1, 0, 1})]
         /\ \A s \in Scanners : Len(scanned'[s]) \in {n \in 0..ScanCap : n % ScanBatch = 0}
         /\ \A s \in Scanners : s # r => at'[s] = at[s]
         /\ at' \in [Scanners -> {"IDLE", "SCANNING", "SCANNED", "ANSWERED", "REFUSED"}]
         /\ at'[r] = stage
         /\ ScanInv' /\ StopInv'
<1> USE HoldingAssumption DEF HoldingInv
<1>1. /\ \A s \in Scanners : s # r => at'[s] = at[s] /\ scanned'[s] = scanned[s]
      /\ at'[r] = stage /\ scanned'[r] = <<>>
      /\ at' \in [Scanners -> {"IDLE", "SCANNING", "SCANNED", "ANSWERED", "REFUSED"}]
  BY DEF TypeOK
<1>2. <<>> \in Seq({-1, 0, 1}) /\ Len(<<>>) = 0 /\ 0 % ScanBatch = 0
  OBVIOUS
<1>3. scanned' \in [Scanners -> Seq({-1, 0, 1})]
  BY <1>2 DEF TypeOK
<1>4. \A s \in Scanners : Len(scanned'[s]) \in {n \in 0..ScanCap : n % ScanBatch = 0}
  BY <1>1, <1>2 DEF TypeOK
<1>5. ScanInv'
  <2>1. \A k \in Keys : ~(k < 0)
    BY DEF Keys
  <2>2. \A k \in before[r] : k \in Keys
    BY DEF TypeOK
  <2> QED BY <1>1, <1>2, <2>1, <2>2 DEF ScanInv
<1>6. StopInv'
  <2> SUFFICES ASSUME NEW s \in Scanners, at'[s] = "SCANNED"
               PROVE  /\ \A k \in before'[s] : k < Len(scanned'[s])
                      /\ Len(scanned'[s]) = ScanCap \/
                         \E b \in Keys : b + ScanBatch = Len(scanned'[s]) /\
                           \A k \in b..b + ScanBatch - 1 : scanned'[s][k + 1] = -1
    BY DEF StopInv
  <2>1. scanned'[s] = scanned[s] /\ at[s] = "SCANNED" /\ before' = before /\ StopInv
    BY <1>1
  <2> QED BY ONLY <2>1, s \in Scanners, Zenon DEF StopInv
<1> QED BY <1>1, <1>3, <1>4, <1>5, <1>6

LEMMA AnswerTargetsKeeps ==
  ASSUME HoldingInv, NEW p \in Payers, AnswerTargets(p)
  PROVE  HoldingInv'
<1> USE HoldingAssumption DEF HoldingInv
<1> DEFINE targets == FirstUnused(p, count[p])
<1>1. /\ p \in Scanners /\ p # Owner /\ at[p] = "SCANNED"
      /\ scanned' = [scanned EXCEPT ![p] = <<>>] /\ UNCHANGED <<balance, count, before>>
  BY DEF AnswerTargets, Scanners
<1>2. count[p] \in 1..MaxTargets /\ count[p] \in Nat
  BY <1>1 DEF TypeOK
<1>3. Read(p, {-1}) \in SUBSET Keys /\ targets \in SUBSET Read(p, {-1})
  BY DEF Read, FirstUnused, Lowest
<1>4. Cardinality(targets) <= count[p] /\ Cardinality(targets) \in Nat
  BY <1>2, <1>3, LowestAtMost, KeysFinite DEF FirstUnused
<1>5. CASE Cardinality(targets) < count[p] /\ at' = [at EXCEPT ![p] = "REFUSED"] /\ UNCHANGED result
  <2>1. targets = Read(p, {-1})
    BY <1>2, <1>3, <1>5, LowestIsAll DEF FirstUnused
  <2>2. Unused \in SUBSET Read(p, {-1})
    BY <2>1, <1>1, <1>2, <1>4, <1>5, StoppedReadEnough
  <2>3. Cardinality(Unused) <= Cardinality(Read(p, {-1})) /\ Cardinality(Unused) \in Nat
    BY <2>2, <1>3, FewerKeys, KeysFinite DEF Unused
  <2>4. Cardinality(Unused) < count[p]
    BY <2>1, <2>3, <1>2, <1>4, <1>5
  <2>5. TypeOK' /\ ScanInv' /\ StopInv'
    BY <1>1, <1>5, AnswerKeepsScans DEF TypeOK
  <2>6. at'[p] = "REFUSED" /\ \A s \in Scanners : s # p => at'[s] = at[s]
    BY <1>5, <1>1, AnswerKeepsScans
  <2>7. DenseInv' /\ HeldInv' /\ TargetsWereNew'
    BY <2>6, <1>1, <1>5, DenseKept DEF Ages, HeldInv, TargetsWereNew, Scanners
  <2>8. ResolvesUpToCap'
    BY <2>4, <2>6, <1>1 DEF ResolvesUpToCap, Unused, Scanners
  <2> QED BY <2>5, <2>7, <2>8
<1>6. CASE /\ ~(Cardinality(targets) < count[p]) /\ at' = [at EXCEPT ![p] = "ANSWERED"]
           /\ result' = [result EXCEPT ![p] = targets]
  <2>1. Cardinality(targets) = count[p]
    BY <1>2, <1>4, <1>6
  <2>2. targets \cap before[p] = {}
    <3> SUFFICES ASSUME NEW k \in targets, k \in before[p] PROVE FALSE
      OBVIOUS
    <3>1. k < Len(scanned[p]) /\ scanned[p][k + 1] = -1
      BY <1>3 DEF Read
    <3> QED BY <3>1, <1>1 DEF ScanInv
  <2>3. /\ \A s \in Scanners : s # p => result'[s] = result[s]
        /\ result'[p] = targets /\ result' \in [Scanners -> SUBSET Keys]
    <3>1. targets \in SUBSET Keys /\ result \in [Scanners -> SUBSET Keys]
      BY <1>3 DEF TypeOK
    <3> HIDE DEF targets
    <3> QED BY <3>1, <1>1, <1>6
  <2>4. TypeOK' /\ ScanInv' /\ StopInv'
    BY <1>1, <1>6, <2>3, AnswerKeepsScans DEF TypeOK
  <2>5. at'[p] = "ANSWERED" /\ \A s \in Scanners : s # p => at'[s] = at[s]
    BY <1>6, <1>1, AnswerKeepsScans
  <2>6. DenseInv'
    <3>1. \A k \in targets : Cardinality(UnusedBelow(k)) < MaxTargets
      BY <1>1, TargetsAreLow
    <3>2. ASSUME NEW k PROVE UnusedBelow(k)' = UnusedBelow(k)
      BY <1>1 DEF UnusedBelow, Unused
    <3> QED BY <3>1, <3>2, <2>3, <1>1 DEF DenseInv, Scanners
  <2>7. HeldInv' /\ ResolvesUpToCap'
    BY <2>3, <2>5, <1>1 DEF HeldInv, ResolvesUpToCap, Scanners
  <2>8. TargetsWereNew'
    BY <2>1, <2>2, <2>3, <2>5, <1>1 DEF TargetsWereNew, Scanners
  <2> QED BY <2>4, <2>6, <2>7, <2>8
<1> QED BY <1>5, <1>6 DEF AnswerTargets

\* A request that ends leaves the others what they have read and were given.
LEMMA EndsKeeps ==
  ASSUME HoldingInv, NEW r \in Scanners, Ends(r), Ages, balance' \in [Keys -> {-1, 0, 1}],
         \A k \in Keys : balance'[k] # -1 =>
           balance[k] # -1 \/ \E p \in Payers : k \in result[p],
         \A k \in Keys : balance[k] # -1 => balance'[k] = balance[k]
  PROVE  HoldingInv'
<1> USE HoldingAssumption DEF HoldingInv
<1>1. /\ \A s \in Scanners : s # r =>
           /\ at'[s] = at[s] /\ scanned'[s] = scanned[s] /\ count'[s] = count[s]
           /\ result'[s] = result[s] /\ before'[s] = before[s]
      /\ at'[r] = "IDLE" /\ scanned'[r] = <<>> /\ result'[r] = {} /\ before'[r] = {}
  BY DEF Ends, TypeOK
<1>2. <<>> \in Seq({-1, 0, 1}) /\ Len(<<>>) = 0 /\ 0 % ScanBatch = 0
  OBVIOUS
<1>3. TypeOK'
  <2>1. \A s \in Scanners : Len(scanned'[s]) \in {n \in 0..ScanCap : n % ScanBatch = 0}
    <3> TAKE s \in Scanners
    <3>1. CASE s = r
      BY <3>1, <1>1, <1>2
    <3>2. CASE s # r
      <4>1. scanned'[s] = scanned[s] /\ TypeOK
        BY <3>2, <1>1
      <4> QED BY ONLY <4>1, s \in Scanners DEF TypeOK
    <3> QED BY <3>1, <3>2
  <2>2. /\ at' \in [Scanners -> {"IDLE", "SCANNING", "SCANNED", "ANSWERED", "REFUSED"}]
        /\ count' \in [Scanners -> 1..MaxTargets]
        /\ result' \in [Scanners -> SUBSET Keys] /\ before' \in [Scanners -> SUBSET Keys]
    BY DEF Ends, TypeOK
  <2>3. scanned' \in [Scanners -> Seq({-1, 0, 1})]
    BY <1>2 DEF Ends, TypeOK
  <2> QED BY <2>1, <2>2, <2>3 DEF TypeOK
<1>4. ScanInv'
  <2>1. ASSUME NEW s \in Scanners, s # r
        PROVE  /\ at'[s] \notin {"SCANNING", "SCANNED"} => scanned'[s] = <<>>
               /\ \A k \in Keys : k < Len(scanned'[s]) /\ balance'[k] = -1 => scanned'[s][k + 1] = -1
               /\ \A k \in before'[s] :
                    /\ IF s = Owner THEN balance'[k] = 1 ELSE balance'[k] # -1
                    /\ k < Len(scanned'[s]) =>
                         scanned'[s][k + 1] \in IF s = Owner THEN {1} ELSE {0, 1}
    <3>1. \A k \in before[s] : k \in Keys /\ balance'[k] = balance[k]
      BY DEF ScanInv, TypeOK
    <3> QED BY <3>1, <2>1, <1>1 DEF ScanInv, Ages
  <2>2. \A k \in Keys : ~(k < 0)
    BY DEF Keys
  <2> QED BY <2>1, <2>2, <1>1, <1>2 DEF ScanInv
<1>5. StopInv'
  <2> SUFFICES ASSUME NEW s \in Scanners, at'[s] = "SCANNED"
               PROVE  /\ \A k \in before'[s] : k < Len(scanned'[s])
                      /\ Len(scanned'[s]) = ScanCap \/
                         \E b \in Keys : b + ScanBatch = Len(scanned'[s]) /\
                           \A k \in b..b + ScanBatch - 1 : scanned'[s][k + 1] = -1
    BY DEF StopInv
  <2>1. scanned'[s] = scanned[s] /\ at[s] = "SCANNED" /\ before'[s] = before[s] /\ StopInv
    BY <1>1
  <2> QED BY ONLY <2>1, s \in Scanners, Zenon DEF StopInv
<1>6. DenseInv' /\ ResolvesUpToCap'
  <2>1. \A p \in Payers : result'[p] \subseteq result[p]
    BY <1>1 DEF Scanners
  <2> QED BY <2>1, <1>1, DenseKept, RefusedKept DEF Scanners
<1>7. HeldInv' /\ TargetsWereNew'
  BY <1>1 DEF HeldInv, TargetsWereNew, Scanners
<1> QED BY <1>3, <1>4, <1>5, <1>6, <1>7

LEMMA GiveUpKeeps ==
  ASSUME HoldingInv, NEW r \in Scanners, GiveUp(r)
  PROVE  HoldingInv'
BY EndsKeeps DEF GiveUp, Ages, HoldingInv, TypeOK

LEMMA FundKeeps ==
  ASSUME HoldingInv, NEW p \in Payers, Fund(p)
  PROVE  HoldingInv'
<1>1. PICK made \in SUBSET result[p] \ {{}} :
        /\ \A k \in made : balance[k] = -1
        /\ balance' = [k \in Keys |-> IF k \in made THEN 1 ELSE balance[k]]
  BY DEF Fund
<1>2. p \in Scanners /\ made \subseteq result[p] /\ Ends(p)
  BY DEF Fund, Scanners
<1>3. balance' \in [Keys -> {-1, 0, 1}] /\ Ages
  <2>1. balance \in [Keys -> {-1, 0, 1}]
    BY DEF HoldingInv, TypeOK
  <2> QED BY ONLY <1>1, <2>1 DEF Ages
<1>4. \A k \in Keys : /\ balance'[k] # -1 => balance[k] # -1 \/ \E q \in Payers : k \in result[q]
                      /\ balance[k] # -1 => balance'[k] = balance[k]
  BY <1>1, <1>2
<1> QED BY <1>2, <1>3, <1>4, EndsKeeps

LEMMA BeginHeldKeeps == HoldingInv /\ BeginHeld => HoldingInv'
<1> SUFFICES ASSUME HoldingInv, BeginHeld PROVE HoldingInv'
  OBVIOUS
<1> USE HoldingAssumption DEF HoldingInv
<1>1. /\ UNCHANGED <<balance, scanned, count, result>> /\ at[Owner] = "IDLE" /\ Owner \in Scanners
      /\ at' = [at EXCEPT ![Owner] = "SCANNING"]
      /\ before' = [before EXCEPT ![Owner] = FundedKeys]
  BY DEF BeginHeld, Scanners
<1>2. \A k \in FundedKeys : k \in Keys /\ balance[k] = 1
  <2>1. balance \in [Keys -> {-1, 0, 1}]
    BY DEF TypeOK
  <2> QED BY ONLY <2>1 DEF FundedKeys
<1>3. TypeOK'
  BY <1>1, <1>2 DEF TypeOK
<1>4. /\ \A s \in Scanners : s # Owner => at'[s] = at[s] /\ before'[s] = before[s]
      /\ at'[Owner] = "SCANNING" /\ before'[Owner] = FundedKeys
  BY <1>1 DEF TypeOK
<1>5. scanned[Owner] = <<>> /\ \A k \in Keys : ~(k < Len(<<>>))
  BY <1>1 DEF ScanInv, Keys
<1>6. ScanInv'
  BY <1>1, <1>2, <1>4, <1>5 DEF ScanInv
<1>7. StopInv' /\ HeldInv'
  BY <1>1, <1>4 DEF StopInv, HeldInv, Scanners
<1>8. DenseInv' /\ ResolvesUpToCap'
  BY <1>1, <1>4, DenseKept, RefusedKept DEF Ages, Scanners
<1>9. TargetsWereNew'
  BY <1>1, <1>4 DEF TargetsWereNew, Scanners
<1> QED BY <1>3, <1>6, <1>7, <1>8, <1>9

LEMMA AnswerHeldKeeps == HoldingInv /\ AnswerHeld => HoldingInv'
<1> SUFFICES ASSUME HoldingInv, AnswerHeld PROVE HoldingInv'
  OBVIOUS
<1> USE HoldingAssumption DEF HoldingInv
<1>1. /\ UNCHANGED <<balance, count, before>> /\ at[Owner] = "SCANNED" /\ Owner \in Scanners
      /\ at' = [at EXCEPT ![Owner] = "ANSWERED"]
      /\ result' = [result EXCEPT ![Owner] = Read(Owner, {1})]
      /\ scanned' = [scanned EXCEPT ![Owner] = <<>>]
  BY DEF AnswerHeld, Scanners
<1>2. /\ \A s \in Scanners : s # Owner => at'[s] = at[s] /\ result'[s] = result[s]
      /\ at'[Owner] = "ANSWERED" /\ result'[Owner] = Read(Owner, {1})
      /\ result' \in [Scanners -> SUBSET Keys]
  BY <1>1 DEF TypeOK, Read
<1>3. TypeOK' /\ ScanInv' /\ StopInv'
  BY <1>1, <1>2, AnswerKeepsScans DEF TypeOK
<1>4. before[Owner] \subseteq Read(Owner, {1})
  BY <1>1 DEF ScanInv, StopInv, Read, TypeOK
<1>5. HeldInv'
  BY <1>1, <1>2, <1>4 DEF HeldInv
<1>6. \A p \in Payers : p \in Scanners /\ p # Owner
  BY DEF Scanners
<1>7. DenseInv' /\ ResolvesUpToCap'
  BY <1>1, <1>2, <1>6, DenseKept, RefusedKept DEF Ages
<1>8. TargetsWereNew'
  BY <1>1, <1>2, <1>6 DEF TargetsWereNew
<1> QED BY <1>3, <1>5, <1>7, <1>8

LEMMA SpendHeldKeeps == HoldingInv /\ SpendHeld => HoldingInv'
<1> SUFFICES ASSUME HoldingInv, SpendHeld PROVE HoldingInv'
  OBVIOUS
<1> USE HoldingAssumption DEF HoldingInv
<1>1. UNCHANGED <<at, scanned, count, result>> /\ at[Owner] = "ANSWERED" /\ Owner \in Scanners
  BY DEF SpendHeld, Scanners
<1>2. PICK k \in result[Owner] :
        /\ balance[k] > 0
        /\ balance' = [balance EXCEPT ![k] = 0]
        /\ before' = [before EXCEPT ![Owner] = @ \ {k}]
  BY DEF SpendHeld
<1>3. /\ k \in Keys /\ \A j \in Keys : j # k => balance'[j] = balance[j]
      /\ balance'[k] = 0 /\ balance[k] = 1
      /\ before'[Owner] = before[Owner] \ {k}
      /\ \A s \in Scanners : s # Owner => before'[s] = before[s]
  <2>1. k \in Keys /\ balance \in [Keys -> {-1, 0, 1}]
    BY <1>1, <1>2 DEF TypeOK
  <2>2. before \in [Scanners -> SUBSET Keys]
    BY DEF TypeOK
  <2> QED BY <2>1, <2>2, <1>1, <1>2
<1>4. TypeOK'
  BY <1>1, <1>2, <1>3 DEF TypeOK
<1>5. \A s \in Scanners : before'[s] \subseteq before[s] /\ before[s] \subseteq Keys
  BY <1>3 DEF TypeOK
<1>6. ScanInv'
  BY <1>1, <1>3, <1>5 DEF ScanInv
<1>7. StopInv' /\ HeldInv'
  <2>1. StopInv'
    BY <1>1, <1>5 DEF StopInv
  <2> QED BY <2>1, <1>1, <1>5 DEF HeldInv
<1>8. DenseInv' /\ ResolvesUpToCap'
  BY <1>1, <1>3, DenseKept, RefusedKept DEF Ages
<1>9. TargetsWereNew'
  BY <1>1, <1>3 DEF TargetsWereNew, Scanners
<1> QED BY <1>4, <1>6, <1>7, <1>8, <1>9

LEMMA HoldingInvNext == HoldingInv /\ [Next]_vars => HoldingInv'
<1>1. HoldingInv /\ UNCHANGED vars => HoldingInv'
  <2> SUFFICES ASSUME HoldingInv, UNCHANGED vars PROVE HoldingInv'
    OBVIOUS
  <2> USE DEF HoldingInv, vars
  <2>1. TypeOK' /\ ScanInv' /\ HeldInv'
    BY DEF TypeOK, ScanInv, HeldInv
  <2>2. StopInv'
    BY Zenon DEF StopInv
  <2>3. DenseInv'
    BY DEF DenseInv, UnusedBelow, Unused
  <2>4. ResolvesUpToCap' /\ TargetsWereNew'
    BY DEF ResolvesUpToCap, TargetsWereNew
  <2> QED BY <2>1, <2>2, <2>3, <2>4
<1> QED BY <1>1, ScanStepKeeps, GiveUpKeeps, BeginTargetsKeeps, AnswerTargetsKeeps, FundKeeps,
      BeginHeldKeeps, AnswerHeldKeeps, SpendHeldKeeps DEF Next

-----------------------------------------------------------------------------
(* Theorems *)

\* What every reachable state satisfies: the conjuncts are described in Holding.
THEOREM HoldingInvariant == Spec => []HoldingInv
BY HoldingInvInit, HoldingInvNext, PTL DEF Spec

\* Every variable has its type, and a request has read whole batches
\* (routes/holding.rs:58-76).
THEOREM TypeCorrect == Spec => []TypeOK
<1>1. HoldingInv => TypeOK
  BY DEF HoldingInv
<1> QED BY <1>1, HoldingInvariant, PTL

\* As long as post_submit looks as far as a scan does (bundles.rs:153), what was
\* funded when the owner asked and was not spent since is listed and can be
\* spent, for every number of payers who leave targets unfunded.
THEOREM FundedListed ==
  ASSUME ScanCap <= MatchCap
  PROVE  Spec => []FundedIsListed
<1>1. HoldingInv => FundedIsListed
  <2> SUFFICES ASSUME HoldingInv, at[Owner] = "ANSWERED", NEW k \in before[Owner]
               PROVE  k \in result[Owner] /\ Matches(k)
    BY DEF FundedIsListed
  <2>1. k \in Keys /\ k \in result[Owner]
    BY DEF HoldingInv, HeldInv, TypeOK, Scanners
  <2> QED BY <2>1, HoldingAssumption DEF Matches, Keys
<1> QED BY <1>1, HoldingInvariant, PTL

\* A payer is refused only when the email has fewer keys left under the cap than
\* were asked for (routes/holding.rs:24), for every cap and every batch that is
\* no smaller than what one request may ask for.
THEOREM ResolvesCap == Spec => []ResolvesUpToCap
<1>1. HoldingInv => ResolvesUpToCap
  BY DEF HoldingInv
<1> QED BY <1>1, HoldingInvariant, PTL

\* A payer is given as many targets as it asked for and none that was in use when
\* it asked (routes/holding.rs:95-100), for every number of payers.
THEOREM TargetsNew == Spec => []TargetsWereNew
<1>1. HoldingInv => TargetsWereNew
  BY DEF HoldingInv
<1> QED BY <1>1, HoldingInvariant, PTL
================================================================================
