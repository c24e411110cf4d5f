------------------------------- MODULE Holding -------------------------------
(***************************************************************************)
(* The keys the provider holds for one email on one channel: get_targets   *)
(* and get_held in crates/api/src/routes/holding.rs over the derivation of *)
(* crates/core/src/holding.rs.                                             *)
(*                                                                         *)
(* Nothing is stored: a key is its index, and what became of it is read of *)
(* the chain, a batch at a time, while payers fund the targets they were   *)
(* given, some of them and in any order, and the owner spends.             *)
(***************************************************************************)
EXTENDS Integers, Sequences, SequencesExt

CONSTANTS
  Payers,       \* requests for targets
  ScanBatch,    \* SCAN_BATCH
  ScanCap,      \* SCAN_CAP
  MaxTargets,   \* MAX_TARGETS
  MatchCap,     \* HOLDING_MATCH_CAP of post_submit
  MaxCount      \* bound on the counts that payers ask for

Owner == "owner"

ASSUME HoldingAssumption ==
  /\ ScanBatch \in Nat \ {0} /\ MaxTargets \in 1..ScanBatch
  /\ ScanCap \in Nat /\ ScanCap % ScanBatch = 0
  /\ MatchCap \in Nat /\ MaxCount \in Nat
  /\ Owner \notin Payers

VARIABLES
  balance,   \* of every key: -1 never existed, 0 spent, 1 funded
  at,        \* where a request is
  scanned,   \* the balances it has read, in index order
  count,     \* how many targets it asked for
  result,    \* the indices it answered with
  before     \* history: the keys in use when a request began, less those the
             \* owner has spent since

vars == <<balance, at, scanned, count, result, before>>

Scanners == Payers \cup {Owner}

\* derive_holding_key: one key for an index, and no other email has it.
Keys == 0..ScanCap - 1

FundedKeys == {k \in Keys : balance[k] > 0}

-----------------------------------------------------------------------------
(* scan_holding *)

\* Mutant: one unused key ends the scan.
AnyUnused(batch) == \E i \in DOMAIN batch : batch[i] = -1

AllUnused(batch) == \A i \in DOMAIN batch : batch[i] = -1

\* fetch_utxo_balances of the next batch: one simulation, all at one ledger.
NextBatch(r) == [i \in 1..ScanBatch |-> balance[Len(scanned[r]) + i - 1]]

\* The keys a request has read, and those of them with one of these balances.
Read(r, balances) == {k \in Keys : k < Len(scanned[r]) /\ scanned[r][k + 1] \in balances}

ScanStep(r) ==
  /\ at[r] = "SCANNING" /\ Len(scanned[r]) < ScanCap
  /\ scanned' = [scanned EXCEPT ![r] = @ \o NextBatch(r)]
  /\ at' = [at EXCEPT ![r] =
       IF AllUnused(NextBatch(r)) \/ Len(scanned[r]) + ScanBatch >= ScanCap THEN "SCANNED" ELSE @]
  /\ UNCHANGED <<balance, count, result, before>>

\* A request is over, and leaves nothing behind.
Ends(r) ==
  /\ at' = [at EXCEPT ![r] = "IDLE"]
  /\ scanned' = [scanned EXCEPT ![r] = <<>>]
  /\ count' = [count EXCEPT ![r] = 1]
  /\ result' = [result EXCEPT ![r] = {}]
  /\ before' = [before EXCEPT ![r] = {}]

\* The RPC call fails, and the request with it; or the answer is not used.
GiveUp(r) ==
  /\ at[r] # "IDLE"
  /\ Ends(r)
  /\ UNCHANGED balance

-----------------------------------------------------------------------------
(* get_targets *)

Clamp(n) == IF n < 1 THEN 1 ELSE IF n > MaxTargets THEN MaxTargets ELSE n

BeginTargets(p) ==
  /\ at[p] = "IDLE"
  /\ \E n \in 0..MaxCount : count' = [count EXCEPT ![p] = Clamp(n)]
  /\ at' = [at EXCEPT ![p] = "SCANNING"]
  /\ before' = [before EXCEPT ![p] = {k \in Keys : balance[k] # -1}]
  /\ UNCHANGED <<balance, scanned, result>>

Lowest(keys, n) == {k \in keys : Cardinality({j \in keys : j < k}) < n}

\* Mutant: the filter lets spent keys through.
FirstNotFunded(r, n) == Lowest(Read(r, {-1, 0}), n)

FirstUnused(r, n) == Lowest(Read(r, {-1}), n)

AnswerTargets(p) ==
  /\ at[p] = "SCANNED"
  /\ LET targets == FirstUnused(p, count[p]) IN
     IF Cardinality(targets) < count[p]
       THEN at' = [at EXCEPT ![p] = "REFUSED"] /\ UNCHANGED result
       ELSE at' = [at EXCEPT ![p] = "ANSWERED"] /\ result' = [result EXCEPT ![p] = targets]
  /\ scanned' = [scanned EXCEPT ![p] = <<>>]
  /\ UNCHANGED <<balance, count, before>>

\* A bundle of the payer creates some of its targets; the contract refuses one
\* that names a key which exists.
Fund(p) ==
  /\ at[p] = "ANSWERED"
  /\ \E made \in SUBSET result[p] \ {{}} :
       /\ \A k \in made : balance[k] = -1
       /\ balance' = [k \in Keys |-> IF k \in made THEN 1 ELSE balance[k]]
  /\ Ends(p)

-----------------------------------------------------------------------------
(* get_held, and the spends of what it lists *)

BeginHeld ==
  /\ at[Owner] = "IDLE"
  /\ at' = [at EXCEPT ![Owner] = "SCANNING"]
  /\ before' = [before EXCEPT ![Owner] = FundedKeys]
  /\ UNCHANGED <<balance, scanned, count, result>>

AnswerHeld ==
  /\ at[Owner] = "SCANNED"
  /\ at' = [at EXCEPT ![Owner] = "ANSWERED"]
  /\ result' = [result EXCEPT ![Owner] = Read(Owner, {1})]
  /\ scanned' = [scanned EXCEPT ![Owner] = <<>>]
  /\ UNCHANGED <<balance, count, before>>

\* Mutant: the derivation is not extended past the first batch.
MatchesFirstBatch(k) == k < ScanBatch

\* post_submit finds the key among the first MatchCap and signs.
Matches(k) == k < MatchCap

SpendHeld ==
  /\ at[Owner] = "ANSWERED"
  /\ \E k \in result[Owner] :
       /\ balance[k] > 0 /\ Matches(k)
       /\ balance' = [balance EXCEPT ![k] = 0]
       /\ before' = [before EXCEPT ![Owner] = @ \ {k}]
  /\ UNCHANGED <<at, scanned, count, result>>

-----------------------------------------------------------------------------
Init ==
  /\ balance = [k \in Keys |-> -1]
  /\ at = [r \in Scanners |-> "IDLE"]
  /\ scanned = [r \in Scanners |-> <<>>]
  /\ count = [r \in Scanners |-> 1]
  /\ result = [r \in Scanners |-> {}]
  /\ before = [r \in Scanners |-> {}]

Next ==
  \/ \E r \in Scanners : ScanStep(r) \/ GiveUp(r)
  \/ \E p \in Payers : BeginTargets(p) \/ AnswerTargets(p) \/ Fund(p)
  \/ BeginHeld \/ AnswerHeld \/ SpendHeld

Spec == Init /\ [][Next]_vars

-----------------------------------------------------------------------------
(* Properties *)

\* Every variable has its type, and a request in progress has read whole batches.
TypeOK ==
  /\ balance \in [Keys -> {-1, 0, 1}]
  /\ at \in [Scanners -> {"IDLE", "SCANNING", "SCANNED", "ANSWERED", "REFUSED"}]
  /\ scanned \in [Scanners -> Seq({-1, 0, 1})]
  /\ \A r \in Scanners : Len(scanned[r]) \in {n \in 0..ScanCap : n % ScanBatch = 0}
  /\ result \in [Scanners -> SUBSET Keys]
  /\ count \in [Scanners -> 1..MaxTargets]
  /\ before \in [Scanners -> SUBSET Keys]

\* What was funded when the owner asked and was not spent since is listed, and
\* can be spent: the scan stops before no funded key, whatever payers left
\* unused below it, and post_submit looks as far as the scan does
\* (routes/holding.rs:5-8, bundles.rs:143-147).
FundedIsListed ==
  at[Owner] = "ANSWERED" => \A k \in before[Owner] : k \in result[Owner] /\ Matches(k)

\* A payer is refused only when the email has fewer keys left under the cap than
\* were asked for (routes/holding.rs:24): targets do not run out because the
\* scan stopped early or the chain moved under it.
ResolvesUpToCap ==
  \A p \in Payers : at[p] = "REFUSED" =>
    Cardinality({k \in Keys : balance[k] = -1}) < count[p]

\* A payer is given as many targets as it asked for, and none that was in use
\* when it asked, although the balances were read over several ledgers: a key
\* that was spent is never handed out again (routes/holding.rs:95-100).
TargetsWereNew ==
  \A p \in Payers : at[p] = "ANSWERED" =>
    Cardinality(result[p]) = count[p] /\ result[p] \cap before[p] = {}
-----------------------------------------------------------------------------
(* The inductive invariant behind the properties *)

Unused == {k \in Keys : balance[k] = -1}

UnusedBelow(k) == {j \in Unused : j < k}

\* Below a key that is in use, or was handed out, fewer keys are unused than one
\* request may ask for: a batch of unused keys has none of them above it.
DenseInv ==
  /\ \A k \in Keys : balance[k] # -1 => Cardinality(UnusedBelow(k)) < MaxTargets
  /\ \A p \in Payers : \A k \in result[p] : Cardinality(UnusedBelow(k)) < MaxTargets

\* What is unused now was unused when it was read; what the owner asked about is
\* still funded, and was seen so.
ScanInv == \A r \in Scanners :
  /\ at[r] \notin {"SCANNING", "SCANNED"} => scanned[r] = <<>>
  /\ \A k \in Keys : k < Len(scanned[r]) /\ balance[k] = -1 => scanned[r][k + 1] = -1
  /\ \A k \in before[r] :
       /\ IF r = Owner THEN balance[k] = 1 ELSE balance[k] # -1
       /\ k < Len(scanned[r]) => scanned[r][k + 1] \in IF r = Owner THEN {1} ELSE {0, 1}

\* A scan that stopped had read every key, or an unused batch last.
StopInv == \A r \in Scanners : at[r] = "SCANNED" =>
  /\ \A k \in before[r] : k < Len(scanned[r])
  /\ Len(scanned[r]) = ScanCap \/
     \E b \in Keys : b + ScanBatch = Len(scanned[r]) /\
       \A k \in b..b + ScanBatch - 1 : scanned[r][k + 1] = -1

HeldInv == at[Owner] = "ANSWERED" => before[Owner] \subseteq result[Owner]

HoldingInv ==
  TypeOK /\ DenseInv /\ ScanInv /\ StopInv /\ HeldInv /\ ResolvesUpToCap /\ TargetsWereNew
=============================================================================
