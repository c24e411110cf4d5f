------------------------ MODULE BundlePipelineProofs ------------------------
(***************************************************************************)
(* Theorems about BundlePipeline, for every number of bundles and          *)
(* transactions, every capacity and limit, and every set of faults.        *)
(***************************************************************************)
EXTENDS BundlePipeline, FiniteSetTheorems, TLAPS

-----------------------------------------------------------------------------
(* Type correctness *)

LEMMA TypeOKInit == Init => TypeOK
BY BoundsAssumption DEF Init, TypeOK, Bundles, Txs, NoTx, NoBundle, BundleStatus, Live,
  Terminal, TxStatus, ChainStatus, MpPcs, ExPcs, VfPcs, Verdicts

LEMMA ListedInDomain ==
  /\ \A s, n : ListByStatus(s, n) \subseteq Bundles
  /\ \A n : ListUnverified(n) \subseteq Txs
  /\ \A t : BundlesFor(t) \subseteq Bundles
BY DEF ListByStatus, ListUnverified, BundlesFor, Newest, Oldest, WithStatus

LEMMA TypeOKMempool == TypeOK /\ Mempool => TypeOK'
<1> SUFFICES ASSUME TypeOK, Mempool PROVE TypeOK'
  OBVIOUS
<1> USE BoundsAssumption, ListedInDomain DEF TypeOK, bundleVars, txVars, chainVars,
    eventVars, exVars, vfVars, BundleStatus, Live, Terminal, MpPcs, SetStatus, MpStop
<1>1. CASE MpList
  BY <1>1 DEF MpList, WithStatus
<1>2. CASE MpCount
  <2>1. Cardinality(ListByStatus("PROCESSING", SlotCapacity)) \in Nat
    <3>1. IsFiniteSet(Bundles)
      BY FS_Interval DEF Bundles
    <3> QED BY <3>1, FS_Subset, FS_CardinalityType
  <2>2. mpFree' \in Nat
    BY <1>2, <2>1 DEF MpCount, FreeSlots
  <2> QED BY <1>2, <2>2 DEF MpCount
<1>3. CASE MpFinish
  BY <1>3 DEF MpFinish
<1>4. CASE MpAbort
  BY <1>4 DEF MpAbort
<1>5. ASSUME NEW b \in Bundles, MpExpire(b) PROVE TypeOK'
  BY <1>5 DEF MpExpire
<1>6. ASSUME NEW b \in Bundles, MpPromote(b) PROVE TypeOK'
  BY <1>6 DEF MpPromote, SlotLeft
<1> QED BY <1>1, <1>2, <1>3, <1>4, <1>5, <1>6 DEF Mempool

LEMMA TypeOKExecutor == TypeOK /\ Executor => TypeOK'
<1> SUFFICES ASSUME TypeOK, Executor PROVE TypeOK'
  OBVIOUS
<1> USE BoundsAssumption, ListedInDomain DEF TypeOK, bundleVars, txVars, chainVars,
    eventVars, mpVars, vfVars, ExPcs, ExStop, ExAdvance, ExGoto
<1>1. CASE ExList
  BY <1>1 DEF ExList
<1>2. CASE ExFinish
  BY <1>2 DEF ExFinish
<1>3. CASE ExAbort
  BY <1>3 DEF ExAbort
<1>4. ASSUME NEW b \in Bundles, ExCheck(b) PROVE TypeOK'
  BY <1>4 DEF ExCheck
<1>5. ASSUME NEW b \in Bundles, ExExpire(b) PROVE TypeOK'
  BY <1>5 DEF ExExpire, SetStatus, BundleStatus, Terminal
<1>6. ASSUME NEW b \in Bundles, ExSubmitFails(b) PROVE TypeOK'
  BY <1>6 DEF ExSubmitFails
<1>7. ASSUME NEW b \in Bundles, ExFail(b) PROVE TypeOK'
  BY <1>7 DEF ExFail, MarkFailed, BundleStatus, Terminal
<1>8. ASSUME NEW t \in Txs, ExRecord(t) PROVE TypeOK'
  BY <1>8 DEF ExRecord, TxStatus
<1>9. ASSUME NEW b \in Bundles, NEW t \in Txs, ExSend(b, t) PROVE TypeOK'
  BY <1>9 DEF ExSend, ChainStatus
<1>10. ASSUME NEW b \in Bundles, NEW t \in Txs, ExLink(b, t) PROVE TypeOK'
  BY <1>10 DEF ExLink
<1> QED BY <1>1, <1>2, <1>3, <1>4, <1>5, <1>6, <1>7, <1>8, <1>9, <1>10 DEF Executor

LEMMA TypeOKVerifier == TypeOK /\ Verifier => TypeOK'
<1> SUFFICES ASSUME TypeOK, Verifier PROVE TypeOK'
  OBVIOUS
<1> USE BoundsAssumption, ListedInDomain DEF TypeOK, bundleVars, txVars, chainVars,
    eventVars, mpVars, exVars, VfPcs, Verdicts, VfStop, VfAdvance, VfGoto
<1>1. CASE VfList
  BY <1>1 DEF VfList
<1>2. CASE VfFinish
  BY <1>2 DEF VfFinish
<1>3. CASE VfAbort
  BY <1>3 DEF VfAbort
<1>4. ASSUME NEW t \in Txs, VfPoll(t) PROVE TypeOK'
  BY <1>4 DEF VfPoll
<1>5. ASSUME NEW t \in Txs, VfLoadLinks(t) PROVE TypeOK'
  BY <1>5 DEF VfLoadLinks
<1>6. ASSUME NEW t \in Txs, VfSettleTx(t) PROVE TypeOK'
  BY <1>6 DEF VfSettleTx, TxStatus
<1>7. ASSUME NEW t \in Txs, VfAnnounceCompleted(t) PROVE TypeOK'
  BY <1>7 DEF VfAnnounceCompleted
<1>8. ASSUME NEW t \in Txs, VfCompleted(t) PROVE TypeOK'
  BY <1>8 DEF VfCompleted
<1>9. ASSUME NEW t \in Txs, VfAnnounceFailed(t) PROVE TypeOK'
  BY <1>9 DEF VfAnnounceFailed
<1>10. ASSUME NEW b \in Bundles, VfComplete(b) PROVE TypeOK'
  BY <1>10 DEF VfComplete, SetStatus, BundleStatus, Terminal
<1>11. ASSUME NEW b \in Bundles, VfFail(b) PROVE TypeOK'
  BY <1>11 DEF VfFail, MarkFailed, BundleStatus, Terminal
<1> QED BY <1>1, <1>2, <1>3, <1>4, <1>5, <1>6, <1>7, <1>8, <1>9, <1>10, <1>11
       DEF Verifier

LEMMA TypeOKNext == TypeOK /\ [Next]_vars => TypeOK'
<1> SUFFICES ASSUME TypeOK, [Next]_vars PROVE TypeOK'
  OBVIOUS
<1> USE DEF bundleVars, txVars, chainVars, eventVars, mpVars, exVars, vfVars
<1>1. ASSUME NEW b \in Bundles, Submit(b) PROVE TypeOK'
  BY <1>1 DEF Submit, SetStatus, TypeOK, BundleStatus, Live
<1>2. ASSUME NEW b \in Bundles, TtlPasses(b) PROVE TypeOK'
  BY <1>2 DEF TtlPasses, TypeOK
<1>3. CASE Mempool
  BY <1>3, TypeOKMempool
<1>4. CASE Executor
  BY <1>4, TypeOKExecutor
<1>5. CASE Verifier
  BY <1>5, TypeOKVerifier
<1>6. ASSUME NEW t \in Txs, Land(t) PROVE TypeOK'
  BY <1>6 DEF Land, TypeOK, ChainStatus
<1>7. ASSUME NEW t \in Txs, Drop(t) PROVE TypeOK'
  BY <1>7 DEF Drop, TypeOK, ChainStatus
<1>8. CASE Crash
  BY <1>8 DEF Crash, MpStop, ExStop, VfStop, TypeOK, MpPcs, ExPcs, VfPcs, Verdicts
<1>9. CASE UNCHANGED vars
  BY <1>9 DEF vars, TypeOK
<1> QED BY <1>1, <1>2, <1>3, <1>4, <1>5, <1>6, <1>7, <1>8, <1>9 DEF Next, Network

\* Every column, every event counter and every local of the three pipelines
\* keeps its type, whatever fails and however often the process restarts.
THEOREM TypeCorrect == Spec => []TypeOK
<1>1. Init => TypeOK
  BY TypeOKInit
<1>2. TypeOK /\ [Next]_vars => TypeOK'
  BY TypeOKNext
<1> QED BY <1>1, <1>2, PTL DEF Spec

-----------------------------------------------------------------------------
(* The slot capacity *)

LEMMA ProcessingFinite ==
  /\ IsFiniteSet(WithStatus("PROCESSING"))
  /\ Cardinality(WithStatus("PROCESSING")) \in Nat
<1>1. IsFiniteSet(Bundles)
  BY BoundsAssumption, FS_Interval DEF Bundles
<1>2. WithStatus("PROCESSING") \subseteq Bundles
  BY DEF WithStatus
<1> QED BY <1>1, <1>2, FS_Subset, FS_CardinalityType

\* LIMIT n returns every row when there are at most n of them.
LEMMA NewestIsAll ==
  ASSUME NEW S, IsFiniteSet(S), S \subseteq Nat, NEW n \in Nat, Cardinality(S) <= n
  PROVE  Newest(S, n) = S
<1> SUFFICES ASSUME NEW x \in S PROVE Cardinality({y \in S : y > x}) < n
  BY DEF Newest
<1> DEFINE Above == {y \in S : y > x}
<1>1. Above \subseteq S \ {x}
  OBVIOUS
<1>2. IsFiniteSet(S \ {x}) /\ Cardinality(S \ {x}) = Cardinality(S) - 1
  BY FS_RemoveElement
<1>3. IsFiniteSet(Above) /\ Cardinality(Above) <= Cardinality(S \ {x})
  BY <1>1, <1>2, FS_Subset
<1>4. Cardinality(S) \in Nat /\ Cardinality(S \ {x}) \in Nat /\ Cardinality(Above) \in Nat
  BY <1>2, <1>3, FS_CardinalityType
<1> QED BY <1>2, <1>3, <1>4

\* A step of anything but MpPromote takes no slot.
LEMMA NoSlotTaken ==
  ASSUME TypeOK, TypeOK', WithStatus("PROCESSING")' \subseteq WithStatus("PROCESSING")
  PROVE  /\ Cardinality(WithStatus("PROCESSING"))' \in Nat
         /\ Cardinality(WithStatus("PROCESSING"))' <= Cardinality(WithStatus("PROCESSING"))
<1>1. IsFiniteSet(WithStatus("PROCESSING"))
  BY ProcessingFinite
<1> QED BY <1>1, FS_Subset, FS_CardinalityType

Slots == SlotCapacityRespected /\ MempoolInv

LEMMA SlotsMempool == IInv /\ Mempool => Slots'
<1> SUFFICES ASSUME IInv, Mempool PROVE Slots'
  OBVIOUS
<1> USE BoundsAssumption DEF Slots, SlotCapacityRespected, MempoolInv, TypeOK, IInv, MpStop,
    bundleVars, SetStatus
<1> DEFINE P == WithStatus("PROCESSING")
<1>0. TypeOK /\ TypeOK'
  BY TypeOKMempool
<1>1. CASE MpList
  <2>1. P' = P
    BY <1>1 DEF MpList, WithStatus
  <2> QED BY <1>1, <2>1 DEF MpList, ListByStatus, Newest, WithStatus
<1>2. CASE MpCount
  <2>1. P' = P
    BY <1>2 DEF MpCount, WithStatus
  <2>2. ListByStatus("PROCESSING", SlotCapacity) = P
    <3>1. P \subseteq Nat
      BY DEF WithStatus, Bundles
    <3>2. Newest(P, SlotCapacity) = P
      BY <3>1, ProcessingFinite, NewestIsAll
    <3> QED BY <3>2 DEF ListByStatus
  <2>3. mpFree' = SlotCapacity - Cardinality(P)
    BY <1>2, <2>2, ProcessingFinite DEF MpCount, FreeSlots
  <2> QED BY <1>2, <2>1, <2>3, ProcessingFinite DEF MpCount
<1>3. CASE MpFinish
  BY <1>3 DEF MpFinish, WithStatus
<1>4. CASE MpAbort
  BY <1>4 DEF MpAbort, WithStatus
<1>5. ASSUME NEW b \in Bundles, MpExpire(b) PROVE Slots'
  <2>1. P' \subseteq P
    BY <1>5 DEF MpExpire, WithStatus, IsNewest
  <2>2. Cardinality(P') \in Nat /\ Cardinality(P') <= Cardinality(P)
    BY <1>0, <2>1, NoSlotTaken
  <2>3. SlotCapacityRespected'
    BY <2>2, ProcessingFinite
  <2> QED BY <1>5, <2>3 DEF MpExpire, IsNewest, MpPcs
<1>6. ASSUME NEW b \in Bundles, MpPromote(b) PROVE Slots'
  <2>1. b \in mpFresh /\ status[b] = "PENDING" /\ mpFree > 0
    BY <1>6 DEF MpPromote, FirstFresh, IsOldest, SlotLeft
  <2>2. P' = P \cup {b} /\ b \notin P
    BY <1>6, <2>1 DEF MpPromote, WithStatus
  <2>3. Cardinality(P') = Cardinality(P) + 1
    BY <2>2, ProcessingFinite, FS_AddElement
  <2>4. Cardinality(P) + mpFree <= SlotCapacity
    BY <1>6 DEF MpPromote
  <2>5. SlotCapacityRespected'
    BY <2>1, <2>3, <2>4, ProcessingFinite
  <2>6. mpPc' = "promote" => Cardinality(P') + mpFree' <= SlotCapacity
    BY <1>6, <2>1, <2>3, <2>4, ProcessingFinite DEF MpPromote
  <2> QED BY <1>6, <2>1, <2>5, <2>6 DEF MpPromote
<1> QED BY <1>1, <1>2, <1>3, <1>4, <1>5, <1>6 DEF Mempool

\* Everything but the mempool leaves PENDING rows alone and takes no slot.
LEMMA SlotsKept ==
  ASSUME IInv, TypeOK', UNCHANGED mpVars,
         \A b \in Bundles : status[b] = "PENDING" => status'[b] = "PENDING",
         \A b \in Bundles : status'[b] = "PROCESSING" => status[b] = "PROCESSING"
  PROVE  Slots'
<1> USE DEF Slots, SlotCapacityRespected, MempoolInv, TypeOK, IInv, mpVars
<1> DEFINE P == WithStatus("PROCESSING")
<1>1. P' \subseteq P
  BY DEF WithStatus
<1>2. Cardinality(P') \in Nat /\ Cardinality(P') <= Cardinality(P)
  BY <1>1, NoSlotTaken
<1> QED BY <1>2, ProcessingFinite, BoundsAssumption

LEMMA SlotsExecutor == IInv /\ Executor => Slots'
<1> SUFFICES ASSUME IInv, Executor PROVE Slots'
  OBVIOUS
<1> USE DEF mpVars, bundleVars, SetStatus, MarkFailed, Live
<1>0. TypeOK'
  BY TypeOKExecutor DEF IInv
<1>a. CASE UNCHANGED <<status, mpVars>>
  BY <1>0, <1>a, SlotsKept
<1>1. ASSUME NEW b \in Bundles, ExExpire(b) PROVE Slots'
  <2>1. b \in exQueue /\ status[b] # "PENDING"
    BY <1>1 DEF ExExpire, IsNewest, IInv, ExecutorInv
  <2> QED BY <1>0, <1>1, <2>1, SlotsKept DEF ExExpire, IInv, TypeOK
<1>2. ASSUME NEW b \in Bundles, ExFail(b) PROVE Slots'
  <2>1. b \in exQueue /\ status[b] # "PENDING"
    BY <1>2 DEF ExFail, IsNewest, IInv, ExecutorInv
  <2> QED BY <1>0, <1>2, <2>1, SlotsKept DEF ExFail, IInv, TypeOK
<1> QED BY <1>a, <1>1, <1>2 DEF Executor, ExList, ExFinish, ExAbort, ExCheck, ExSubmitFails,
           ExRecord, ExSend, ExLink

LEMMA SlotsVerifier == IInv /\ Verifier => Slots'
<1> SUFFICES ASSUME IInv, Verifier PROVE Slots'
  OBVIOUS
<1> USE DEF mpVars, bundleVars, SetStatus, MarkFailed, Live
<1>0. TypeOK'
  BY TypeOKVerifier DEF IInv
<1>a. CASE UNCHANGED <<status, mpVars>>
  BY <1>0, <1>a, SlotsKept
<1>1. ASSUME NEW b \in Bundles, VfComplete(b) PROVE Slots'
  <2>1. status[b] # "PENDING"
    BY <1>1 DEF VfComplete, IInv, VerifierInv, LinkInv, SeenExecuted, TransactionsFor
  <2> QED BY <1>0, <1>1, <2>1, SlotsKept DEF VfComplete, IInv, TypeOK
<1>2. ASSUME NEW b \in Bundles, VfFail(b) PROVE Slots'
  <2>1. status[b] # "PENDING"
    <3>1. Linked(b)
      BY <1>2 DEF VfFail, IInv, VerifierInv
    <3> QED BY <3>1 DEF Linked, TransactionsFor, IInv, LinkInv
  <2> QED BY <1>0, <1>2, <2>1, SlotsKept DEF VfFail, IInv, TypeOK
<1> QED BY <1>a, <1>1, <1>2 DEF Verifier, VfList, VfFinish, VfAbort, VfPoll, VfLoadLinks,
           VfSettleTx, VfAnnounceCompleted, VfCompleted, VfAnnounceFailed

LEMMA SlotsNext == IInv /\ [Next]_vars => Slots'
<1> SUFFICES ASSUME IInv, [Next]_vars PROVE Slots'
  OBVIOUS
<1> USE DEF mpVars, bundleVars, SetStatus
<1>0. TypeOK'
  BY TypeOKNext DEF IInv
<1>1. ASSUME NEW b \in Bundles, Submit(b) PROVE Slots'
  BY <1>0, <1>1, SlotsKept DEF Submit, IInv, TypeOK
<1>2. CASE UNCHANGED <<status, mpVars>>
  BY <1>0, <1>2, SlotsKept
<1>3. CASE Crash
  <2>1. Cardinality(WithStatus("PROCESSING"))' = Cardinality(WithStatus("PROCESSING"))
    BY <1>3 DEF Crash, WithStatus
  <2> QED BY <1>3, <2>1 DEF Crash, MpStop, Slots, SlotCapacityRespected, MempoolInv, IInv
<1> QED BY <1>1, <1>2, <1>3, SlotsMempool, SlotsExecutor, SlotsVerifier
        DEF Next, Network, TtlPasses, Land, Drop, vars

-----------------------------------------------------------------------------
(* How a status may change *)

Moved(b) ==
  \/ status[b] = "ABSENT" /\ status'[b] = "PENDING"
  \/ status[b] = "PENDING" /\ status'[b] \in {"PROCESSING", "EXPIRED"}
  \/ /\ status[b] = "PROCESSING"
     /\ status'[b] = "EXPIRED"
     /\ ~Linked(b) /\ ~Linked(b)' /\ b \notin exQueue'
  \/ /\ status[b] = "PROCESSING"
     /\ status'[b] = "FAILED"
     /\ Linked(b) \/ b \notin exQueue'
  \/ /\ status[b] \in {"PROCESSING", "FAILED"}
     /\ status'[b] = "COMPLETED"
     /\ SeenExecuted(b)

\* A step that writes at most one status, by one of the moves.
OneMove == \/ UNCHANGED status
           \/ \E b \in Bundles : /\ status' = [status EXCEPT ![b] = status'[b]]
                                 /\ Moved(b) \/ status'[b] = status[b]

LEMMA OneMoveNext == IInv /\ [Next]_vars => OneMove
<1> SUFFICES ASSUME IInv, [Next]_vars PROVE OneMove
  OBVIOUS
<1> USE DEF OneMove, SetStatus, bundleVars, txVars, chainVars
<1>0. TypeOK /\ status \in [Bundles -> BundleStatus]
  BY DEF IInv, TypeOK
<1>1. ASSUME NEW b \in Bundles, Submit(b) PROVE OneMove
  BY <1>0, <1>1 DEF Submit, Moved
<1>2. ASSUME NEW b \in Bundles, MpExpire(b) PROVE OneMove
  <2>1. status[b] = "PENDING"
    BY <1>2 DEF MpExpire, IsNewest, IInv, MempoolInv
  <2> QED BY <1>0, <1>2, <2>1 DEF MpExpire, Moved
<1>3. ASSUME NEW b \in Bundles, MpPromote(b) PROVE OneMove
  <2>1. status[b] = "PENDING"
    BY <1>3 DEF MpPromote, FirstFresh, IsOldest, IInv, MempoolInv
  <2> QED BY <1>0, <1>3, <2>1 DEF MpPromote, Moved
<1>4. ASSUME NEW b \in Bundles, ExExpire(b) PROVE OneMove
  <2>1. b \in exQueue /\ ~Linked(b)
    BY <1>4 DEF ExExpire, IsNewest, IInv, ExecutorInv
  <2>2. status[b] = "PROCESSING"
    BY <2>1 DEF IInv, ExecutorInv
  <2>3. ~Linked(b)'
    BY <1>4, <2>1 DEF ExExpire, Linked, TransactionsFor
  <2>4. b \notin exQueue'
    BY <1>4 DEF ExExpire, ExAdvance, ExStop
  <2> QED BY <1>0, <1>4, <2>1, <2>2, <2>3, <2>4 DEF ExExpire, Moved
<1>5. ASSUME NEW b \in Bundles, ExFail(b) PROVE OneMove
  <2>1. status[b] \in {"PROCESSING", "COMPLETED", "FAILED"}
    BY <1>5 DEF ExFail, IsNewest, IInv, ExecutorInv
  <2>2. b \notin exQueue'
    BY <1>5 DEF ExFail, ExAdvance, ExStop
  <2> QED BY <1>0, <1>5, <2>1, <2>2 DEF ExFail, MarkFailed, Live, Moved
<1>6. ASSUME NEW b \in Bundles, VfComplete(b) PROVE OneMove
  <2>1. SeenExecuted(b)
    BY <1>6 DEF VfComplete, IInv, VerifierInv
  <2>2. status[b] \in {"PROCESSING", "COMPLETED", "FAILED"}
    BY <2>1 DEF SeenExecuted, TransactionsFor, IInv, LinkInv
  <2> QED BY <1>0, <1>6, <2>1, <2>2 DEF VfComplete, Moved
<1>7. ASSUME NEW b \in Bundles, VfFail(b) PROVE OneMove
  <2>1. Linked(b)
    BY <1>7 DEF VfFail, IInv, VerifierInv
  <2>2. status[b] \in {"PROCESSING", "COMPLETED", "FAILED"}
    BY <2>1 DEF Linked, TransactionsFor, IInv, LinkInv
  <2> QED BY <1>0, <1>7, <2>1, <2>2 DEF VfFail, MarkFailed, Live, Moved
<1>8. CASE UNCHANGED status
  BY <1>8
<1> QED BY <1>1, <1>2, <1>3, <1>4, <1>5, <1>6, <1>7, <1>8 DEF Next, Network, vars,
        Mempool, MpList, MpCount, MpFinish, MpAbort,
        Executor, ExList, ExFinish, ExAbort, ExCheck, ExSubmitFails, ExRecord, ExSend, ExLink,
        Verifier, VfList, VfFinish, VfAbort, VfPoll, VfLoadLinks, VfSettleTx,
        VfAnnounceCompleted, VfCompleted, VfAnnounceFailed,
        TtlPasses, Land, Drop, Crash

\* The steps that write the status of a bundle.
LEMMA Writers ==
  ASSUME IInv, [Next]_vars, NEW b \in Bundles, status'[b] # status[b]
  PROVE  \/ Submit(b) \/ MpExpire(b) \/ MpPromote(b) \/ ExExpire(b) \/ ExFail(b)
         \/ VfComplete(b) \/ VfFail(b)
<1> DEFINE Writes(d) == \/ Submit(d) \/ MpExpire(d) \/ MpPromote(d) \/ ExExpire(d) \/ ExFail(d)
                        \/ VfComplete(d) \/ VfFail(d)
<1>0. TypeOK /\ status' # status
  BY DEF IInv
<1>1. ASSUME NEW d \in Bundles, Writes(d) PROVE d = b
  <2>1. \E s : status' = [status EXCEPT ![d] = s]
    BY <1>0, <1>1 DEF Submit, MpExpire, MpPromote, ExExpire, ExFail, VfComplete, VfFail,
       SetStatus, MarkFailed, bundleVars
  <2> QED BY <1>0, <2>1 DEF TypeOK
<1>2. \E d \in Bundles : Writes(d)
  BY <1>0 DEF Next, Network, vars, bundleVars,
        Mempool, MpList, MpCount, MpFinish, MpAbort,
        Executor, ExList, ExFinish, ExAbort, ExCheck, ExSubmitFails, ExRecord, ExSend, ExLink,
        Verifier, VfList, VfFinish, VfAbort, VfPoll, VfLoadLinks, VfSettleTx,
        VfAnnounceCompleted, VfCompleted, VfAnnounceFailed,
        TtlPasses, Land, Drop, Crash
<1> QED BY <1>1, <1>2

LEMMA EachMoves ==
  ASSUME IInv, [Next]_vars, NEW b \in Bundles
  PROVE  Moved(b) \/ status'[b] = status[b]
<1>1. OneMove
  BY OneMoveNext
<1> QED BY <1>1 DEF OneMove, IInv, TypeOK

LEMMA LeftStays ==
  ASSUME IInv, [Next]_vars, NEW b \in Bundles
  PROVE  Left(b) => Left(b)'
BY EachMoves DEF Left, Moved

-----------------------------------------------------------------------------
(* Transactions and the network *)

LEMMA NewestUnique ==
  ASSUME NEW S \in SUBSET Nat, NEW x, NEW y, IsNewest(x, S), IsNewest(y, S) PROVE x = y
BY DEF IsNewest

LEMMA OldestUnique ==
  ASSUME NEW S \in SUBSET Nat, NEW x, NEW y, IsOldest(x, S), IsOldest(y, S) PROVE x = y
BY DEF IsOldest

\* Only the executor's send and the network itself change what was sent, and
\* only the executor's insert and the verifier change a transaction row.
LEMMA SentNext == IInv /\ [Next]_vars => SentInv'
<1> SUFFICES ASSUME IInv, [Next]_vars PROVE SentInv'
  OBVIOUS
<1> USE DEF txVars, chainVars
<1>0. TypeOK /\ SentInv
  BY DEF IInv
<1>1. CASE UNCHANGED <<txStatus, chain, txBundle>>
  BY <1>0, <1>1, LeftStays DEF SentInv
<1>2. ASSUME NEW b \in Bundles, NEW t \in Txs, ExSend(b, t) PROVE SentInv'
  <2>1. b \in exQueue /\ Left(b)
    BY <1>2 DEF ExSend, IsNewest, IInv, ExecutorInv, Left
  <2>2. Left(b)'
    BY <2>1, LeftStays
  <2>3. chain[t] = "UNSENT" /\ txStatus[t] = "ABSENT"
    BY <1>0, <1>2 DEF ExSend, IsOldest, SentInv
  <2> QED BY <1>0, <1>2, <2>2, <2>3, LeftStays DEF ExSend, SentInv, TypeOK
<1>3. ASSUME NEW t \in Txs, ExRecord(t) PROVE SentInv'
  <2>1. chain[t] # "UNSENT"
    BY <1>3 DEF ExRecord, IInv, ExecutorInv
  <2> QED BY <1>0, <1>3, <2>1, LeftStays DEF ExRecord, SentInv, TypeOK
<1>4. ASSUME NEW t \in Txs, VfSettleTx(t) PROVE SentInv'
  <2>1. chain[t] = vfVerdict
    BY <1>4 DEF VfSettleTx, IInv, VerifierInv, IsOldest
  <2> QED BY <1>0, <1>4, <2>1, LeftStays DEF VfSettleTx, SentInv, TypeOK
<1>5. ASSUME NEW t \in Txs, Land(t) \/ Drop(t) PROVE SentInv'
  BY <1>0, <1>5, LeftStays DEF Land, Drop, SentInv, TypeOK
<1> QED BY <1>1, <1>2, <1>3, <1>4, <1>5 DEF Next, Network, vars,
        Mempool, MpList, MpCount, MpFinish, MpAbort, MpExpire, MpPromote,
        Executor, ExList, ExFinish, ExAbort, ExCheck, ExExpire, ExSubmitFails, ExFail, ExLink,
        Verifier, VfList, VfFinish, VfAbort, VfPoll, VfLoadLinks,
        VfAnnounceCompleted, VfCompleted, VfAnnounceFailed, VfComplete, VfFail,
        Submit, TtlPasses, Crash

\* What the network has decided stays decided, a stored row stays stored, a
\* link stays, and what a transaction carries never changes.
Stays(t) ==
  /\ chain[t] # "UNSENT" => chain'[t] # "UNSENT" /\ txBundle'[t] = txBundle[t]
  /\ chain[t] \in {"SUCCESS", "FAILED"} => chain'[t] = chain[t]
  /\ txStatus[t] # "ABSENT" => txStatus'[t] # "ABSENT"
  /\ txStatus[t] \in {"VERIFIED", "FAILED"} => txStatus'[t] = txStatus[t]
  /\ links \subseteq links'

LEMMA StoredStays == ASSUME IInv, [Next]_vars, NEW t \in Txs PROVE Stays(t)
<1> USE DEF txVars, chainVars, Stays
<1>0. TypeOK
  BY DEF IInv
<1>1. CASE UNCHANGED <<txStatus, chain, txBundle, links>>
  BY <1>1
<1>2. ASSUME NEW b \in Bundles, NEW u \in Txs, ExSend(b, u) PROVE Stays(t)
  BY <1>0, <1>2 DEF ExSend, IsOldest, TypeOK
<1>3. ASSUME NEW u \in Txs, ExRecord(u) PROVE Stays(t)
  <2>1. txStatus[u] = "ABSENT"
    BY <1>3 DEF ExRecord, IInv, ExecutorInv
  <2> QED BY <1>0, <1>3, <2>1 DEF ExRecord, TypeOK
<1>4. ASSUME NEW b \in Bundles, NEW u \in Txs, ExLink(b, u) PROVE Stays(t)
  BY <1>0, <1>4 DEF ExLink, TypeOK
<1>5. ASSUME NEW u \in Txs, VfSettleTx(u) PROVE Stays(t)
  <2>1. txStatus[u] = "UNVERIFIED"
    BY <1>5 DEF VfSettleTx, IsOldest, IInv, VerifierInv, Settling
  <2> QED BY <1>0, <1>5, <2>1 DEF VfSettleTx, TypeOK
<1>6. ASSUME NEW u \in Txs, Land(u) \/ Drop(u) PROVE Stays(t)
  BY <1>0, <1>6 DEF Land, Drop, TypeOK
<1> QED BY <1>1, <1>2, <1>3, <1>4, <1>5, <1>6 DEF Next, Network, vars,
        Mempool, MpList, MpCount, MpFinish, MpAbort, MpExpire, MpPromote,
        Executor, ExList, ExFinish, ExAbort, ExCheck, ExExpire, ExSubmitFails, ExFail,
        Verifier, VfList, VfFinish, VfAbort, VfPoll, VfLoadLinks,
        VfAnnounceCompleted, VfCompleted, VfAnnounceFailed, VfComplete, VfFail,
        Submit, TtlPasses, Crash

\* A link that is not new: its conclusions are kept by every step.
LEMMA OldLink ==
  ASSUME IInv, [Next]_vars, NEW b \in Bundles, NEW t \in Txs, <<b, t>> \in links
  PROVE  /\ txBundle'[t] = b
         /\ txStatus'[t] # "ABSENT"
         /\ status'[b] \in {"PROCESSING", "COMPLETED", "FAILED"}
<1>1. /\ txBundle[t] = b
      /\ txStatus[t] # "ABSENT"
      /\ status[b] \in {"PROCESSING", "COMPLETED", "FAILED"}
  BY DEF IInv, LinkInv
<1>2. chain[t] # "UNSENT"
  BY <1>1 DEF IInv, SentInv
<1>3. Linked(b)
  BY DEF Linked, TransactionsFor
<1> QED BY <1>1, <1>2, <1>3, StoredStays, EachMoves DEF Stays, Moved

LEMMA LinkNext == IInv /\ [Next]_vars => LinkInv'
<1> SUFFICES ASSUME IInv, [Next]_vars PROVE LinkInv'
  OBVIOUS
<1> USE DEF txVars
<1>1. CASE UNCHANGED links
  BY <1>1, OldLink DEF LinkInv
<1>2. ASSUME NEW b \in Bundles, NEW t \in Txs, ExLink(b, t) PROVE LinkInv'
  <2>1. /\ exTx = t /\ b \in exQueue /\ IsNewest(b, exQueue)
        /\ txStatus[t] # "ABSENT" /\ chain[t] # "UNSENT" /\ IsNewest(txBundle[t], exQueue)
    BY <1>2 DEF ExLink, IsNewest, IInv, ExecutorInv
  <2>2. exQueue \subseteq Nat
    BY DEF IInv, TypeOK, Bundles
  <2>3. txBundle[t] = b
    BY <2>1, <2>2, NewestUnique
  <2>4. status[b] \in {"PROCESSING", "COMPLETED", "FAILED"}
    BY <2>1 DEF IInv, ExecutorInv
  <2> QED BY <1>2, <2>1, <2>3, <2>4, OldLink DEF ExLink, LinkInv, bundleVars, chainVars
<1> QED BY <1>1, <1>2 DEF Next, Network, vars,
        Mempool, MpList, MpCount, MpFinish, MpAbort, MpExpire, MpPromote,
        Executor, ExList, ExFinish, ExAbort, ExCheck, ExExpire, ExSubmitFails, ExRecord,
        ExSend, ExFail,
        Verifier, VfList, VfFinish, VfAbort, VfPoll, VfLoadLinks, VfSettleTx,
        VfAnnounceCompleted, VfCompleted, VfAnnounceFailed, VfComplete, VfFail,
        Submit, TtlPasses, Land, Drop, Crash

\* A bundle seen executed stays so.
LEMMA SeenStays ==
  ASSUME IInv, [Next]_vars, NEW b \in Bundles, SeenExecuted(b)
  PROVE  SeenExecuted(b)'
<1>1. PICK t \in Txs : /\ <<b, t>> \in links /\ chain[t] = "SUCCESS"
                       /\ txBundle[t] = b /\ txStatus[t] = "VERIFIED"
  BY DEF SeenExecuted, TransactionsFor
<1> QED BY <1>1, StoredStays DEF Stays, SeenExecuted, TransactionsFor

LEMMA CompletedNext == IInv /\ [Next]_vars => CompletedWasExecuted'
<1> SUFFICES ASSUME IInv, [Next]_vars, NEW b \in Bundles, status'[b] = "COMPLETED"
             PROVE  SeenExecuted(b)'
  BY DEF CompletedWasExecuted, WithStatus
<1>1. SeenExecuted(b)
  BY EachMoves DEF Moved, IInv, CompletedWasExecuted, WithStatus
<1> QED BY <1>1, SeenStays

-----------------------------------------------------------------------------
(* The executor's locals *)

\* What a listed row says stays true until the executor has handled it.
Listed(b) == \/ status[b] = "PROCESSING"
             \/ status[b] \in {"COMPLETED", "FAILED"} /\ Linked(b)

LEMMA LinkedStays ==
  ASSUME IInv, [Next]_vars, NEW b \in Bundles, Linked(b)
  PROVE  Linked(b)' /\ status'[b] \in {"PROCESSING", "COMPLETED", "FAILED"}
<1>1. PICK t \in Txs : <<b, t>> \in links
  BY DEF Linked, TransactionsFor
<1> QED BY <1>1, OldLink, StoredStays DEF Stays, Linked, TransactionsFor

LEMMA ListedStays ==
  ASSUME IInv, [Next]_vars, NEW b \in Bundles, b \in exQueue, b \in exQueue'
  PROVE  Listed(b)'
<1>1. Listed(b)
  BY DEF Listed, IInv, ExecutorInv
<1>2. CASE Linked(b)
  BY <1>2, LinkedStays, <1>1 DEF Listed
<1>3. CASE ~Linked(b)
  <2>1. status[b] = "PROCESSING"
    BY <1>1, <1>3 DEF Listed
  <2>2. status'[b] = "PROCESSING"
    BY <1>3, <2>1, EachMoves DEF Moved, SeenExecuted, Linked
  <2> QED BY <2>2 DEF Listed
<1> QED BY <1>2, <1>3

LEMMA AllListedNext == IInv /\ [Next]_vars => \A b \in exQueue' : Listed(b)'
<1> SUFFICES ASSUME IInv, [Next]_vars, NEW b \in exQueue' PROVE Listed(b)'
  OBVIOUS
<1>0. b \in Bundles
  BY TypeOKNext DEF IInv, TypeOK
<1>1. CASE b \in exQueue
  BY <1>0, <1>1, ListedStays
<1>2. CASE b \notin exQueue
  <2>1. ExList
    BY <1>2 DEF Next, Network, vars, exVars,
        Mempool, MpList, MpCount, MpFinish, MpAbort, MpExpire, MpPromote,
        Executor, ExFinish, ExAbort, ExCheck, ExExpire, ExSubmitFails, ExRecord,
        ExSend, ExFail, ExLink, ExStop, ExAdvance, ExGoto,
        Verifier, VfList, VfFinish, VfAbort, VfPoll, VfLoadLinks, VfSettleTx,
        VfAnnounceCompleted, VfCompleted, VfAnnounceFailed, VfComplete, VfFail,
        Submit, TtlPasses, Land, Drop, Crash
  <2> QED BY <2>1 DEF ExList, ListByStatus, Newest, WithStatus, Listed, bundleVars
<1> QED BY <1>1, <1>2

\* Whoever else steps, the executor finds things as it left them.
LEMMA ExecutorKept ==
  ASSUME IInv, [Next]_vars, UNCHANGED <<exVars, links>>,
         exTx \in Txs => (txStatus[exTx] = "ABSENT" => txStatus'[exTx] = "ABSENT")
  PROVE  ExecutorInv'
<1> USE DEF exVars
<1>1. \A b \in exQueue' : Listed(b)'
  BY AllListedNext
<1>2. exTx \in Txs => Stays(exTx)
  BY StoredStays
<1>3. \A b : Linked(b)' = Linked(b)
  BY DEF Linked, TransactionsFor
<1> QED BY <1>1, <1>2, <1>3 DEF IInv, ExecutorInv, Listed, Stays

LEMMA ExecutorNext == IInv /\ [Next]_vars => ExecutorInv'
<1> SUFFICES ASSUME IInv, [Next]_vars PROVE ExecutorInv'
  OBVIOUS
<1> USE DEF txVars, chainVars
<1>0. TypeOK /\ exQueue \subseteq Nat
  BY DEF IInv, TypeOK, Bundles
<1>a. \A b \in exQueue' : Listed(b)'
  BY AllListedNext
<1>1. CASE UNCHANGED <<exVars, txStatus, links>>
  BY <1>1, ExecutorKept
<1>2. ASSUME NEW t \in Txs, VfSettleTx(t) PROVE ExecutorInv'
  <2>1. txStatus[t] = "UNVERIFIED"
    BY <1>2 DEF VfSettleTx, IsOldest, IInv, VerifierInv, Settling
  <2> QED BY <1>0, <1>2, <2>1, ExecutorKept DEF VfSettleTx, TypeOK
<1>3. CASE exPc' \in {"idle", "next", "fail"}
  BY <1>a, <1>3 DEF ExecutorInv, Listed
<1>4. ASSUME NEW b \in Bundles, ExCheck(b) PROVE ExecutorInv'
  <2>1. CASE exPc' = "next"
    BY <1>3, <2>1
  <2>2. CASE ExGoto("expire") \/ ExGoto("submit")
    <3>1. ~Linked(b)' /\ IsNewest(b, exQueue') /\ exQueue' \subseteq Nat
      BY <1>0, <1>4, <2>2 DEF ExCheck, ExGoto, Linked, TransactionsFor, ExAdvance
    <3> QED BY <1>a, <2>2, <3>1, NewestUnique DEF ExGoto, ExecutorInv, Listed
  <2> QED BY <1>4, <2>1, <2>2 DEF ExCheck, ExAdvance
<1>5. ASSUME NEW b \in Bundles, NEW t \in Txs, ExSend(b, t), exPc' = "record" PROVE ExecutorInv'
  <2>1. txStatus[t] = "ABSENT"
    BY <1>5 DEF ExSend, IsOldest, IInv, SentInv
  <2>2. \A c \in Bundles : IsNewest(c, exQueue) => ~Linked(c)
    BY <1>5 DEF ExSend, IInv, ExecutorInv
  <2>3. \A c : Linked(c)' = Linked(c)
    BY <1>5 DEF ExSend, Linked, TransactionsFor
  <2>4. exQueue' = exQueue /\ exTx' = t
    BY <1>5 DEF ExSend, ExGoto
  <2>5. chain'[t] # "UNSENT" /\ txBundle'[t] = b /\ txStatus' = txStatus
    BY <1>0, <1>5 DEF ExSend, TypeOK
  <2> QED BY <1>a, <1>5, <2>1, <2>2, <2>3, <2>4, <2>5 DEF ExSend, ExecutorInv, Listed
<1>6. ASSUME NEW t \in Txs, ExRecord(t), exPc' = "link" PROVE ExecutorInv'
  BY <1>0, <1>a, <1>6 DEF ExRecord, ExGoto, IInv, TypeOK, ExecutorInv, Listed
<1> QED BY <1>1, <1>2, <1>3, <1>4, <1>5, <1>6 DEF Next, Network, vars, exVars,
        Mempool, MpList, MpCount, MpFinish, MpAbort, MpExpire, MpPromote,
        Executor, ExList, ExFinish, ExAbort, ExExpire, ExSubmitFails, ExSend, ExRecord,
        ExFail, ExLink, ExStop, ExAdvance, ExGoto,
        Verifier, VfList, VfFinish, VfAbort, VfPoll, VfLoadLinks,
        VfAnnounceCompleted, VfCompleted, VfAnnounceFailed, VfComplete, VfFail,
        Submit, TtlPasses, Land, Drop, Crash

-----------------------------------------------------------------------------
(* The verifier's locals *)

\* Only the executor's second insert links a transaction to a bundle.
LEMMA OnlyLinks ==
  ASSUME [Next]_vars
  PROVE  UNCHANGED links \/ \E b \in Bundles, t \in Txs : ExLink(b, t)
BY DEF Next, Network, vars, txVars,
        Mempool, MpList, MpCount, MpFinish, MpAbort, MpExpire, MpPromote,
        Executor, ExList, ExFinish, ExAbort, ExCheck, ExExpire, ExSubmitFails, ExSend,
        ExRecord, ExFail,
        Verifier, VfList, VfFinish, VfAbort, VfPoll, VfLoadLinks, VfSettleTx,
        VfAnnounceCompleted, VfCompleted, VfAnnounceFailed, VfComplete, VfFail,
        Submit, TtlPasses, Land, Drop, Crash

LEMMA LinksGrow == [Next]_vars => links \subseteq links'
BY OnlyLinks DEF ExLink

LEMMA VerifierKept ==
  ASSUME IInv, [Next]_vars, UNCHANGED vfVars,
         \A t \in vfQueue : txStatus'[t] = txStatus[t]
  PROVE  VerifierInv'
<1> USE DEF vfVars
<1>0. TypeOK
  BY DEF IInv
<1>1. \A t \in vfQueue : chain[t] \in {"SUCCESS", "FAILED"} => chain'[t] = chain[t]
  BY <1>0, StoredStays DEF Stays, TypeOK
<1>2. \A b \in vfBundles : SeenExecuted(b) => SeenExecuted(b)'
  BY <1>0, SeenStays DEF TypeOK
<1>3. \A b \in vfBundles : Linked(b) => Linked(b)'
  BY <1>0, LinkedStays DEF TypeOK
<1>4. \A t \in vfQueue : chain[t] = vfVerdict => chain[t] \in {"SUCCESS", "FAILED"}
  BY <1>0 DEF TypeOK, ChainStatus, Verdicts
<1>5. links \subseteq links'
  BY LinksGrow
<1> QED BY <1>1, <1>2, <1>3, <1>4, <1>5 DEF IInv, VerifierInv, Settling

LEMMA VerifierNext == IInv /\ [Next]_vars => VerifierInv'
<1> SUFFICES ASSUME IInv, [Next]_vars PROVE VerifierInv'
  OBVIOUS
<1> USE DEF txVars, chainVars, bundleVars
<1>0. TypeOK /\ vfQueue \subseteq Txs /\ vfQueue \subseteq Nat /\ VerifierInv
  BY DEF IInv, TypeOK, Txs
<1>1. CASE UNCHANGED <<vfVars, txStatus>>
  BY <1>1, VerifierKept
<1>2. ASSUME NEW t \in Txs, ExRecord(t) PROVE VerifierInv'
  <2>1. txStatus[t] = "ABSENT"
    BY <1>2 DEF ExRecord, IInv, ExecutorInv
  <2>2. t \notin vfQueue
    BY <1>0, <2>1 DEF VerifierInv, Settling
  <2> QED BY <1>0, <1>2, <2>2, VerifierKept DEF ExRecord, TypeOK
<1>3. CASE vfPc' = "idle" /\ vfQueue' = {} /\ vfBundles' = {}
  BY <1>3 DEF VerifierInv
<1>4. CASE VfList
  BY <1>0, <1>4 DEF VfList, VerifierInv, ListUnverified, Oldest
<1>5. ASSUME NEW t \in Txs, VfAdvance(t), IsOldest(t, vfQueue), UNCHANGED txStatus
      PROVE  VerifierInv'
  BY <1>0, <1>5, OldestUnique DEF VfAdvance, VerifierInv, Settling
<1>6. ASSUME NEW t \in Txs, VfPoll(t), vfPc' = "links" PROVE VerifierInv'
  BY <1>0, <1>6, OldestUnique DEF VfPoll, VfAdvance, VerifierInv, Settling
<1>7. ASSUME NEW t \in Txs, VfLoadLinks(t) PROVE VerifierInv'
  BY <1>0, <1>7, OldestUnique DEF VfLoadLinks, VerifierInv, Settling, BundlesFor
<1>8. ASSUME NEW t \in Txs, VfSettleTx(t), vfPc' # "idle" PROVE VerifierInv'
  <2>1. txStatus[t] = "UNVERIFIED" /\ chain[t] = vfVerdict /\ \A b \in vfBundles : <<b, t>> \in links
    BY <1>8 DEF VfSettleTx, IsOldest, IInv, VerifierInv, Settling
  <2>2. UNCHANGED <<vfQueue, vfBundles, vfVerdict, chain, txBundle, links>>
    BY <1>8 DEF VfSettleTx, VfGoto, VfStop
  <2>3. \A b \in vfBundles : txBundle[t] = b
    BY <1>0, <2>1 DEF IInv, LinkInv, TypeOK
  <2>4. IsOldest(t, vfQueue) /\ \A u \in vfQueue : IsOldest(u, vfQueue) => u = t
    BY <1>0, <1>8, OldestUnique DEF VfSettleTx
  <2>5. CASE vfVerdict = "SUCCESS"
    <3>1. vfPc' = "announce" /\ txStatus' = [txStatus EXCEPT ![t] = "VERIFIED"]
      BY <1>8, <2>5 DEF VfSettleTx, VfGoto, VfStop
    <3>2. \A b \in vfBundles' : SeenExecuted(b)'
      BY <1>0, <2>1, <2>2, <2>3, <2>5, <3>1 DEF SeenExecuted, TransactionsFor, TypeOK
    <3> QED BY <1>0, <2>2, <2>4, <3>1, <3>2 DEF VerifierInv, Settling, TypeOK
  <2>6. CASE vfVerdict = "FAILED"
    <3>1. vfPc' = "fail" /\ txStatus' = [txStatus EXCEPT ![t] = "FAILED"]
      BY <1>8, <2>6 DEF VfSettleTx, VfGoto, VfStop
    <3>2. \A b \in vfBundles' : Linked(b)'
      BY <2>1, <2>2 DEF Linked, TransactionsFor
    <3> QED BY <1>0, <2>2, <2>4, <3>1, <3>2 DEF VerifierInv, Settling, TypeOK
  <2> QED BY <1>8, <2>5, <2>6 DEF VfSettleTx
<1>9. ASSUME NEW t \in Txs, VfAnnounceCompleted(t) PROVE VerifierInv'
  <2>1. \A b \in Bundles : SeenExecuted(b) => SeenExecuted(b)'
    BY SeenStays
  <2> QED BY <1>0, <1>9, <2>1 DEF VfAnnounceCompleted, VfGoto, VerifierInv, Settling, TypeOK
<1>10. ASSUME NEW b \in Bundles, VfComplete(b), vfPc' # "idle" PROVE VerifierInv'
  <2>1. \A c \in Bundles : SeenExecuted(c) => SeenExecuted(c)'
    BY SeenStays
  <2> QED BY <1>0, <1>10, <2>1 DEF VfComplete, VfStop, VerifierInv, Settling, TypeOK
<1>11. ASSUME NEW b \in Bundles, VfFail(b), vfPc' # "idle" PROVE VerifierInv'
  <2>1. \A c \in Bundles : Linked(c) => Linked(c)'
    BY LinkedStays
  <2> QED BY <1>0, <1>11, <2>1 DEF VfFail, VfStop, VerifierInv, Settling, TypeOK
<1> QED BY <1>1, <1>2, <1>3, <1>4, <1>5, <1>6, <1>7, <1>8, <1>9, <1>10, <1>11
        DEF Next, Network, vars, vfVars,
        Mempool, MpList, MpCount, MpFinish, MpAbort, MpExpire, MpPromote,
        Executor, ExList, ExFinish, ExAbort, ExCheck, ExExpire, ExSubmitFails, ExSend,
        ExFail, ExLink,
        Verifier, VfFinish, VfAbort, VfPoll, VfSettleTx, VfCompleted, VfAnnounceFailed,
        VfComplete, VfFail, VfStop, VfGoto,
        Submit, TtlPasses, Land, Drop, Crash

-----------------------------------------------------------------------------
(* The event feed *)

Feed == FeedSaysOnceAndTruly /\ FeedInv

\* What no step but a promotion, a stored verdict or an announcement disturbs.
LEMMA FeedKept ==
  ASSUME IInv, [Next]_vars, UNCHANGED <<addedEvents, completedEvents, failedEvents>>,
         vfPc' = "announce" \/ vfPc' = "fail" =>
           \A t \in vfQueue' : IsOldest(t, vfQueue') =>
             completedEvents[t] = 0 /\ failedEvents[t] = 0
  PROVE  Feed'
<1>0. TypeOK /\ Feed
  BY DEF IInv, Feed
<1>1. \A b \in Bundles : ~Left(b)' => addedEvents[b] = 0
  BY <1>0, LeftStays DEF Feed, FeedInv
<1>2. \A t \in Txs : Stays(t)
  BY StoredStays
<1>3. \A t \in Txs : txStatus'[t] \in {"ABSENT", "UNVERIFIED"} => txStatus[t] \in {"ABSENT", "UNVERIFIED"}
  BY <1>0, <1>2 DEF Stays, TypeOK, TxStatus
<1>4. FeedInv'
  BY <1>0, <1>1, <1>3 DEF Feed, FeedInv
<1>5. FeedSaysOnceAndTruly'
  BY <1>0, <1>2 DEF Feed, FeedSaysOnceAndTruly, Stays
<1> QED BY <1>4, <1>5 DEF Feed

LEMMA FeedNext == IInv /\ [Next]_vars => Feed'
<1> SUFFICES ASSUME IInv, [Next]_vars PROVE Feed'
  OBVIOUS
<1> USE DEF eventVars, bundleVars, txVars, chainVars
<1>0. TypeOK /\ Feed /\ vfQueue \subseteq Nat /\ vfQueue \subseteq Txs
  BY DEF IInv, Feed, TypeOK, Txs
<1>1. CASE UNCHANGED <<eventVars, vfVars>>
  BY <1>0, <1>1, FeedKept DEF vfVars, Feed, FeedInv
<1>2. CASE UNCHANGED eventVars /\ vfPc' \notin {"announce", "fail"}
  BY <1>2, FeedKept
<1>3. ASSUME NEW b \in Bundles, MpPromote(b) PROVE Feed'
  <2>1. status[b] = "PENDING" /\ addedEvents[b] = 0
    BY <1>0, <1>3 DEF MpPromote, FirstFresh, IsOldest, IInv, MempoolInv, Feed, FeedInv, Left
  <2>2. Left(b)'
    BY <1>0, <1>3 DEF MpPromote, SetStatus, Left, TypeOK
  <2>3. \A c \in Bundles : Left(c) => Left(c)'
    BY LeftStays
  <2>4. \A c \in Bundles \ {b} : addedEvents'[c] = addedEvents[c]
    BY <1>0, <1>3 DEF MpPromote, TypeOK
  <2>5. addedEvents'[b] <= 1
    BY <1>0, <1>3, <2>1 DEF MpPromote, TypeOK
  <2> QED BY <1>0, <1>3, <2>2, <2>3, <2>4, <2>5
          DEF MpPromote, Feed, FeedInv, FeedSaysOnceAndTruly, vfVars
<1>4. ASSUME NEW t \in Txs, VfSettleTx(t) PROVE Feed'
  <2>1. completedEvents[t] = 0 /\ failedEvents[t] = 0
    BY <1>0, <1>4 DEF VfSettleTx, IsOldest, IInv, VerifierInv, Settling, Feed, FeedInv
  <2>2. CASE vfPc' = "idle"
    BY <1>2, <1>4, <2>2 DEF VfSettleTx
  <2>3. CASE vfQueue' = vfQueue
    BY <1>0, <1>4, <2>1, <2>3, OldestUnique, FeedKept DEF VfSettleTx
  <2> QED BY <1>4, <2>2, <2>3 DEF VfSettleTx, VfGoto, VfStop
<1>5. ASSUME NEW t \in Txs, VfAnnounceCompleted(t) PROVE Feed'
  <2>1. completedEvents[t] = 0 /\ failedEvents[t] = 0
    BY <1>0, <1>5 DEF VfAnnounceCompleted, IsOldest, Feed, FeedInv
  <2>2. txStatus[t] = "VERIFIED" /\ chain[t] = "SUCCESS"
    BY <1>5 DEF VfAnnounceCompleted, IsOldest, IInv, VerifierInv, SentInv
  <2> QED BY <1>0, <1>5, <2>1, <2>2
          DEF VfAnnounceCompleted, VfGoto, Feed, FeedInv, FeedSaysOnceAndTruly, TypeOK, Left
<1>6. ASSUME NEW t \in Txs, VfAnnounceFailed(t) PROVE Feed'
  <2>1. completedEvents[t] = 0 /\ failedEvents[t] = 0
    BY <1>0, <1>6 DEF VfAnnounceFailed, IsOldest, Feed, FeedInv
  <2>2. txStatus[t] = "FAILED" /\ chain[t] = "FAILED"
    BY <1>6 DEF VfAnnounceFailed, IsOldest, IInv, VerifierInv, SentInv
  <2> QED BY <1>0, <1>6, <2>1, <2>2
          DEF VfAnnounceFailed, VfAdvance, Feed, FeedInv, FeedSaysOnceAndTruly, TypeOK, Left
<1>7. ASSUME NEW b \in Bundles, VfFail(b) PROVE Feed'
  <2>1. CASE vfPc' = "idle"
    BY <1>2, <1>7, <2>1 DEF VfFail
  <2>2. CASE vfQueue' = vfQueue
    BY <1>0, <1>7, <2>2, FeedKept DEF VfFail, Feed, FeedInv
  <2> QED BY <1>7, <2>1, <2>2 DEF VfFail, VfStop
<1> QED BY <1>1, <1>2, <1>3, <1>4, <1>5, <1>6, <1>7 DEF Next, Network, vars, VfPcs,
        Mempool, MpList, MpCount, MpFinish, MpAbort, MpExpire,
        Executor, ExList, ExFinish, ExAbort, ExCheck, ExExpire, ExSubmitFails, ExSend,
        ExRecord, ExFail, ExLink,
        Verifier, VfList, VfFinish, VfAbort, VfPoll, VfLoadLinks, VfStop, VfAdvance,
        VfCompleted, VfComplete,
        Submit, TtlPasses, Land, Drop, Crash

-----------------------------------------------------------------------------
(* The mempool's listing *)

\* A row appears only by a submission, after all the older ones.
LEMMA OnlySubmitted ==
  ASSUME IInv, [Next]_vars, NEW b \in Bundles, status[b] = "ABSENT", status'[b] # "ABSENT"
  PROVE  Submit(b)
<1>1. ~MpExpire(b) /\ ~MpPromote(b)
  BY DEF MpExpire, MpPromote, IsNewest, FirstFresh, IsOldest, IInv, MempoolInv
<1>2. ~ExExpire(b) /\ ~ExFail(b)
  BY DEF ExExpire, ExFail, IsNewest, IInv, ExecutorInv
<1>3. ~Linked(b) /\ ~SeenExecuted(b)
  BY DEF Linked, SeenExecuted, TransactionsFor, IInv, LinkInv
<1>4. ~VfComplete(b) /\ ~VfFail(b)
  BY <1>3 DEF VfComplete, VfFail, IInv, VerifierInv
<1> QED BY <1>1, <1>2, <1>4, Writers

\* Only the mempool gives a bundle a slot.
LEMMA OnlyPromoted ==
  ASSUME IInv, [Next]_vars, NEW b \in Bundles, status[b] = "PENDING", status'[b] = "PROCESSING"
  PROVE  MpPromote(b)
BY Writers DEF IInv, TypeOK, SetStatus, MarkFailed, Submit, MpExpire, ExExpire, ExFail,
   VfComplete, VfFail, bundleVars

\* A PENDING row that is not listed has a full query of younger ones.
LEMMA ListsAllButCutOff ==
  ASSUME MpList, NEW c \in WithStatus("PENDING"),
         c \notin ListByStatus("PENDING", PendingLimit)
  PROVE  CutOff(c)'
<1> DEFINE Younger == {d \in WithStatus("PENDING") : d > c}
<1>1. IsFiniteSet(Bundles)
  BY BoundsAssumption, FS_Interval DEF Bundles
<1>2. IsFiniteSet(Younger)
  BY <1>1, FS_Subset DEF WithStatus
<1>3. Cardinality(Younger) \in Nat
  BY <1>2, FS_CardinalityType
<1>4. ~(Cardinality(Younger) < PendingLimit)
  BY DEF ListByStatus, Newest
<1>5. mpWaiting' = WithStatus("PENDING")
  BY DEF MpList
<1>6. Younger = {d \in mpWaiting' : d > c}
  BY <1>5
<1> QED BY <1>3, <1>4, <1>6, BoundsAssumption DEF CutOff

Waits == mpExpired \cup mpFresh

\* The listing loses only rows that are no longer PENDING.
LEMMA ListingKept ==
  ASSUME IInv, [Next]_vars, UNCHANGED mpWaiting,
         Waits' \subseteq Waits,
         \A c \in Waits : c \in Waits' \/ status'[c] # "PENDING"
  PROVE  \A b \in Waits', c \in WithStatus("PENDING")' : c < b => c \in Waits' \/ CutOff(c)'
<1> SUFFICES ASSUME NEW b \in Waits', NEW c \in Bundles, status'[c] = "PENDING", c < b
             PROVE  c \in Waits' \/ CutOff(c)'
  BY DEF WithStatus
<1>1. b \in Bundles /\ status[b] = "PENDING"
  BY DEF Waits, IInv, TypeOK, MempoolInv
<1>2. CASE status[c] = "PENDING"
  <2>1. c \in Waits \/ CutOff(c)
    BY <1>2 DEF IInv, QueueInv, Waits, WithStatus
  <2> QED BY <2>1 DEF CutOff
<1>3. CASE status[c] = "ABSENT"
  BY <1>1, <1>3 DEF IInv, QueueInv
<1> QED BY <1>2, <1>3, EachMoves DEF Moved

LEMMA QueueNext == IInv /\ [Next]_vars => QueueInv'
<1> SUFFICES ASSUME IInv, [Next]_vars PROVE QueueInv'
  OBVIOUS
<1> USE DEF bundleVars, MpStop
<1>0. TypeOK /\ TypeOK' /\ QueueInv
  BY TypeOKNext DEF IInv
<1>1. \A b, c \in Bundles : c < b /\ status'[c] = "ABSENT" => status'[b] = "ABSENT"
  <2> SUFFICES ASSUME NEW b \in Bundles, NEW c \in Bundles, c < b,
                      status'[c] = "ABSENT", status'[b] # "ABSENT"
               PROVE  FALSE
    OBVIOUS
  <2>1. status[c] = "ABSENT"
    BY EachMoves DEF Moved
  <2>2. status[b] = "ABSENT"
    BY <1>0, <2>1 DEF QueueInv
  <2>3. Submit(b)
    BY <2>2, OnlySubmitted
  <2> QED BY <2>1, <2>3 DEF Submit
<1>2. mpPc' = "promote" => mpExpired' = {}
  BY <1>0 DEF QueueInv, Next, Network, vars, mpVars,
        Mempool, MpList, MpCount, MpFinish, MpAbort, MpExpire, MpPromote,
        Executor, ExList, ExFinish, ExAbort, ExCheck, ExExpire, ExSubmitFails, ExSend,
        ExRecord, ExFail, ExLink,
        Verifier, VfList, VfFinish, VfAbort, VfPoll, VfLoadLinks, VfSettleTx,
        VfAnnounceCompleted, VfCompleted, VfAnnounceFailed, VfComplete, VfFail,
        Submit, TtlPasses, Land, Drop, Crash
<1>3. \A b \in Waits', c \in WithStatus("PENDING")' : c < b => c \in Waits' \/ CutOff(c)'
  <2>1. CASE UNCHANGED mpVars
    BY <2>1, ListingKept DEF mpVars, Waits
  <2>2. CASE Waits' = {}
    BY <2>2
  <2>3. CASE MpList
    <3>1. Waits' = ListByStatus("PENDING", PendingLimit)
      BY <2>3 DEF MpList, Waits
    <3>2. WithStatus("PENDING")' = WithStatus("PENDING")
      BY <2>3 DEF MpList, WithStatus
    <3> QED BY <2>3, <3>1, <3>2, ListsAllButCutOff
  <2>4. CASE MpCount
    BY <2>4, ListingKept DEF MpCount, Waits
  <2>5. ASSUME NEW d \in Bundles, MpExpire(d) \/ MpPromote(d), Waits' # {}
        PROVE  /\ Waits' \subseteq Waits /\ UNCHANGED mpWaiting
               /\ \A c \in Waits : c \in Waits' \/ status'[c] # "PENDING"
    BY <1>0, <2>5 DEF MpExpire, MpPromote, SetStatus, Waits, TypeOK
  <2>6. ASSUME NEW d \in Bundles, MpExpire(d) \/ MpPromote(d), Waits' # {}
        PROVE  \A b \in Waits', c \in WithStatus("PENDING")' : c < b => c \in Waits' \/ CutOff(c)'
    BY <2>5, <2>6, ListingKept
  <2>7. CASE MpStop
    BY <2>7 DEF Waits
  <2> QED BY <2>1, <2>2, <2>3, <2>4, <2>5, <2>6, <2>7 DEF Next, Network, vars,
        Mempool, MpFinish, MpAbort,
        Executor, ExList, ExFinish, ExAbort, ExCheck, ExExpire, ExSubmitFails, ExSend,
        ExRecord, ExFail, ExLink,
        Verifier, VfList, VfFinish, VfAbort, VfPoll, VfLoadLinks, VfSettleTx,
        VfAnnounceCompleted, VfCompleted, VfAnnounceFailed, VfComplete, VfFail,
        Submit, TtlPasses, Land, Drop, Crash
<1> QED BY <1>1, <1>2, <1>3 DEF QueueInv, Waits

-----------------------------------------------------------------------------
(* The inductive invariant, and what it gives *)

LEMMA IInvInit == Init => IInv
<1> SUFFICES ASSUME Init PROVE IInv
  OBVIOUS
<1>1. TypeOK
  BY TypeOKInit
<1>2. SlotCapacityRespected /\ MempoolInv
  <2>1. WithStatus("PROCESSING") = {}
    BY DEF Init, WithStatus
  <2>2. Cardinality(WithStatus("PROCESSING")) = 0
    BY <2>1, FS_EmptySet
  <2> QED BY <2>2, BoundsAssumption DEF Init, SlotCapacityRespected, MempoolInv
<1>3. CompletedWasExecuted /\ FeedSaysOnceAndTruly /\ SentInv /\ LinkInv /\ FeedInv
  BY DEF Init, CompletedWasExecuted, WithStatus, FeedSaysOnceAndTruly, SentInv, LinkInv, FeedInv, Left
<1>4. ExecutorInv /\ VerifierInv
  BY DEF Init, ExecutorInv, VerifierInv
<1>5. QueueInv
  BY DEF Init, QueueInv
<1> QED BY <1>1, <1>2, <1>3, <1>4, <1>5 DEF IInv

LEMMA IInvNext == IInv /\ [Next]_vars => IInv'
BY TypeOKNext, SlotsNext, SentNext, LinkNext, CompletedNext, ExecutorNext, VerifierNext, FeedNext,
   QueueNext
   DEF IInv, Slots, Feed

\* The invariant the run Pipeline_faults checks, for every instance: what each
\* pipeline remembers of a row it read is still true when it acts on it.
THEOREM InvariantHolds == Spec => []IInv
<1>1. Init => IInv
  BY IInvInit
<1>2. IInv /\ [Next]_vars => IInv'
  BY IInvNext
<1> QED BY <1>1, <1>2, PTL DEF Spec

\* No interleaving of the mempool's stale count with the executor and the
\* verifier, no failed query and no restart takes more than SlotCapacity slots.
THEOREM CapacityHolds == Spec => []SlotCapacityRespected
<1>1. IInv => SlotCapacityRespected
  BY DEF IInv
<1> QED BY <1>1, InvariantHolds, PTL

\* COMPLETED is said only of a bundle a linked, verified transaction executed.
THEOREM CompletedHolds == Spec => []CompletedWasExecuted
<1>1. IInv => CompletedWasExecuted
  BY DEF IInv
<1> QED BY <1>1, InvariantHolds, PTL

\* The event feed says each thing at most once, and nothing false.
THEOREM FeedHolds == Spec => []FeedSaysOnceAndTruly
<1>1. IInv => FeedSaysOnceAndTruly
  BY DEF IInv
<1> QED BY <1>1, InvariantHolds, PTL

\* A promotion passes an older PENDING bundle over only where the LIMIT of the query
\* had cut it off, whatever was submitted, expired or given up while the tick ran.
THEOREM OldestFirst == Spec => PromotesOldest
<1> DEFINE Step == \A b \in Bundles : status[b] = "PENDING" /\ status'[b] = "PROCESSING"
                     => \A c \in WithStatus("PENDING") : c < b => CutOff(c)
<1>1. ASSUME IInv, [Next]_vars, NEW b \in Bundles, status[b] = "PENDING",
             status'[b] = "PROCESSING", NEW c \in WithStatus("PENDING"), c < b
      PROVE  CutOff(c)
  <2>1. MpPromote(b)
    BY <1>1, OnlyPromoted
  <2>2. b \in mpFresh /\ (\A d \in mpFresh : b <= d) /\ mpExpired = {}
    BY <1>1, <2>1 DEF MpPromote, FirstFresh, IsOldest, IInv, QueueInv
  <2>3. c \in mpFresh \/ CutOff(c)
    BY <1>1, <2>2 DEF IInv, QueueInv
  <2> QED BY <1>1, <2>2, <2>3 DEF Bundles, WithStatus
<1>2. IInv /\ [Next]_vars => [Step]_vars
  BY <1>1
<1> QED BY <1>2, InvariantHolds, PTL DEF Spec, PromotesOldest

-----------------------------------------------------------------------------
(* What strands a bundle *)

\* Only a settling step puts a verdict on a stored row.
LEMMA OnlySettles ==
  ASSUME IInv, [Next]_vars, NEW t \in Txs, txStatus[t] = "UNVERIFIED", txStatus'[t] # "UNVERIFIED"
  PROVE  VfSettleTx(t)
<1>0. TypeOK
  BY DEF IInv
<1>1. ASSUME NEW u \in Txs, ExRecord(u) PROVE FALSE
  BY <1>0, <1>1 DEF ExRecord, TypeOK
<1>2. ASSUME NEW u \in Txs, VfSettleTx(u) PROVE u = t
  BY <1>0, <1>2 DEF VfSettleTx, TypeOK
<1>3. txStatus' # txStatus
  OBVIOUS
<1> QED BY <1>1, <1>2, <1>3 DEF Next, Network, vars, txVars,
        Mempool, MpList, MpCount, MpFinish, MpAbort, MpExpire, MpPromote,
        Executor, ExList, ExFinish, ExAbort, ExCheck, ExExpire, ExSubmitFails, ExSend,
        ExFail, ExLink,
        Verifier, VfList, VfFinish, VfAbort, VfPoll, VfLoadLinks,
        VfAnnounceCompleted, VfCompleted, VfAnnounceFailed, VfComplete, VfFail,
        Submit, TtlPasses, Land, Drop, Crash

\* A link made after the verifier has read the links: the ledger had closed.
LEMMA LateLink ==
  ASSUME IInv, [Next]_vars, NEW b \in Bundles, NEW t \in Txs,
         <<b, t>> \notin links, Stranded(b, t)'
  PROVE  chain[t] \in {"SUCCESS", "FAILED"}
<1>1. ExLink(b, t)
  <2>1. PICK c \in Bundles, u \in Txs : ExLink(c, u)
    BY OnlyLinks DEF Stranded
  <2> QED BY <2>1 DEF ExLink, Stranded
<1>2. txStatus[t] # "ABSENT" /\ UNCHANGED <<txStatus, vfPc, vfQueue>>
  BY <1>1 DEF ExLink, vfVars, IInv, ExecutorInv
<1>3. CASE txStatus[t] # "UNVERIFIED"
  BY <1>2, <1>3 DEF IInv, SentInv, TypeOK, TxStatus
<1>4. CASE vfPc = "settle" /\ IsOldest(t, vfQueue)
  <2>1. chain[t] = vfVerdict
    BY <1>4 DEF IInv, VerifierInv, IsOldest
  <2> QED BY <2>1 DEF IInv, TypeOK, ChainStatus, Verdicts
<1> QED BY <1>2, <1>3, <1>4 DEF Stranded

\* The verifier lets go of a bundle it is about to write by writing it, or stops.
LEMMA WriterKeeps ==
  ASSUME IInv, [Next]_vars, NEW b \in Bundles, NEW t \in Txs,
         AboutToWrite(b, t), status[b] = "PROCESSING", status'[b] = "PROCESSING"
  PROVE  AboutToWrite(b, t)' \/ vfPc' = "idle"
<1>0. TypeOK
  BY DEF IInv
<1>1. ~VfComplete(b) /\ ~VfFail(b)
  BY <1>0 DEF VfComplete, VfFail, SetStatus, MarkFailed, Live, TypeOK
<1> QED BY <1>1, ZenonT(60) DEF AboutToWrite, Next, Network, vars, vfVars,
        Mempool, MpList, MpCount, MpFinish, MpAbort, MpExpire, MpPromote,
        Executor, ExList, ExFinish, ExAbort, ExCheck, ExExpire, ExSubmitFails, ExSend,
        ExRecord, ExFail, ExLink,
        Verifier, VfList, VfFinish, VfAbort, VfPoll, VfLoadLinks, VfSettleTx,
        VfAnnounceCompleted, VfCompleted, VfAnnounceFailed, VfComplete, VfFail,
        VfStop, VfAdvance, VfGoto,
        Submit, TtlPasses, Land, Drop, Crash

\* Reading the links of a transaction takes every bundle linked by then in hand.
LEMMA ReadsAll ==
  ASSUME IInv, [Next]_vars, NEW b \in Bundles, NEW t \in Txs, <<b, t>> \in links,
         ~(vfPc = "settle" /\ IsOldest(t, vfQueue)), vfPc' = "settle", IsOldest(t, vfQueue')
  PROVE  AboutToWrite(b, t)'
<1>1. vfQueue \in SUBSET Nat
  BY DEF IInv, TypeOK, Txs
<1>2. PICK u \in Txs : VfLoadLinks(u)
  BY DEF Next, Network, vars, vfVars,
        Mempool, MpList, MpCount, MpFinish, MpAbort, MpExpire, MpPromote,
        Executor, ExList, ExFinish, ExAbort, ExCheck, ExExpire, ExSubmitFails, ExSend,
        ExRecord, ExFail, ExLink,
        Verifier, VfList, VfFinish, VfAbort, VfPoll, VfSettleTx,
        VfAnnounceCompleted, VfCompleted, VfAnnounceFailed, VfComplete, VfFail,
        VfStop, VfAdvance, VfGoto,
        Submit, TtlPasses, Land, Drop, Crash
<1>3. u = t
  BY <1>1, <1>2, OldestUnique DEF VfLoadLinks
<1> QED BY <1>2, <1>3 DEF VfLoadLinks, AboutToWrite, BundlesFor

\* Under every set of faults, a bundle is stranded only where its link is inserted
\* after the verifier read the links of a transaction the network had decided, or
\* where the verifier stops before it has written what it holds.
THEOREM StrandsOnlyThere == Spec => StrandedInWindowsOnly
<1> DEFINE Step == \A b \in Bundles, t \in Txs : Stranded(b, t)' =>
             \/ Stranded(b, t)
             \/ <<b, t>> \notin links /\ chain[t] \in {"SUCCESS", "FAILED"}
             \/ AboutToWrite(b, t) /\ vfPc' = "idle"
<1>1. ASSUME IInv, [Next]_vars, NEW b \in Bundles, NEW t \in Txs, Stranded(b, t)',
             ~Stranded(b, t), <<b, t>> \in links
      PROVE  AboutToWrite(b, t) /\ vfPc' = "idle"
  <2>1. status[b] = "PROCESSING" /\ status'[b] = "PROCESSING"
    BY <1>1, EachMoves DEF Stranded, Moved, IInv, LinkInv
  <2>2. AboutToWrite(b, t)
    <3> SUFFICES ASSUME ~AboutToWrite(b, t) PROVE FALSE
      OBVIOUS
    <3>1. txStatus[t] = "UNVERIFIED" /\ ~(vfPc = "settle" /\ IsOldest(t, vfQueue))
      BY <1>1, <2>1 DEF Stranded
    <3>2. txStatus'[t] = "UNVERIFIED"
      BY <1>1, <3>1, OnlySettles DEF VfSettleTx
    <3>3. vfPc' = "settle" /\ IsOldest(t, vfQueue')
      BY <1>1, <3>2 DEF Stranded
    <3> QED BY <1>1, <3>1, <3>3, ReadsAll DEF Stranded
  <2> QED BY <1>1, <2>1, <2>2, WriterKeeps DEF Stranded
<1>2. IInv /\ [Next]_vars => Step
  BY <1>1, LateLink
<1> QED BY <1>2, InvariantHolds, PTL DEF Spec, StrandedInWindowsOnly

-----------------------------------------------------------------------------
(* Where no query fails *)

\* The bundle at hand, until it is linked or given up.
LEMMA AtHandProcessing ==
  ASSUME IInv, NEW b \in Bundles, AtHand(b), ~Linked(b)
  PROVE  status[b] = "PROCESSING"
BY DEF AtHand, IsNewest, IInv, ExecutorInv

LEMMA AtHandUnique ==
  ASSUME IInv, NEW b \in Bundles, NEW c \in Bundles, AtHand(b), AtHand(c)
  PROVE  b = c
<1>1. exQueue \in SUBSET Nat
  BY DEF IInv, TypeOK, Bundles
<1> QED BY <1>1, NewestUnique DEF AtHand

\* The executor writes bundles without a link, the verifier linked ones that
\* are PROCESSING: nobody writes a terminal one.
LEMMA WrittenOnce ==
  ASSUME IInv, [Next]_vars, LinkOnceInv,
         NEW b \in Bundles, status'[b] # status[b]
  PROVE  /\ status[b] \notin Terminal
         /\ Linked(b) => VfComplete(b) \/ VfFail(b)
<1>1. ASSUME Submit(b) \/ MpExpire(b) \/ MpPromote(b)
      PROVE  status[b] \in {"ABSENT", "PENDING"}
  BY <1>1 DEF Submit, MpExpire, MpPromote, IsNewest, FirstFresh, IsOldest, IInv, MempoolInv
<1>2. Linked(b) => status[b] \notin {"ABSENT", "PENDING"}
  BY DEF Linked, TransactionsFor, IInv, LinkInv
<1>3. ASSUME ExExpire(b) \/ ExFail(b) PROVE ~Linked(b) /\ status[b] = "PROCESSING"
  <2>1. AtHand(b) /\ ~Linked(b)
    BY <1>3 DEF ExExpire, ExFail, AtHand, IInv, ExecutorInv, LinkOnceInv
  <2> QED BY <2>1, AtHandProcessing
<1>4. ASSUME VfComplete(b) \/ VfFail(b) PROVE status[b] = "PROCESSING"
  BY <1>4 DEF VfComplete, VfFail, LinkOnceInv, Settling
<1> QED BY <1>1, <1>2, <1>3, <1>4, Writers DEF Terminal

\* What the verifier is about to write stays as it found it.
LEMMA SettlingKept ==
  ASSUME IInv, [Next]_vars, LinkOnceInv, Settling, Outcome' = Outcome,
         NEW b \in vfBundles, status'[b] = status[b]
  PROVE  status'[b] = "PROCESSING" /\ \E t \in TransactionsFor(b)' : txStatus'[t] = Outcome'
<1>1. PICK t \in Txs : <<b, t>> \in links /\ txStatus[t] = Outcome
  BY DEF LinkOnceInv, TransactionsFor
<1>2. Outcome \in {"VERIFIED", "FAILED"}
  BY DEF Outcome
<1> QED BY <1>1, <1>2, StoredStays DEF Stays, TransactionsFor, LinkOnceInv

LEMMA LinkOnceNext ==
  ASSUME IInv, LinkOnceInv, ~DbError, [Next]_vars PROVE LinkOnceInv'
<1> USE DEF bundleVars, txVars, chainVars, vfVars
<1>0. TypeOK
  BY DEF IInv
<1>1. \A b \in Bundles : \A t, u \in TransactionsFor(b)' : t = u
  <2>1. CASE UNCHANGED links
    BY <2>1 DEF TransactionsFor, LinkOnceInv
  <2>2. ASSUME NEW c \in Bundles, NEW v \in Txs, ExLink(c, v)
        PROVE  \A b \in Bundles : \A t, u \in TransactionsFor(b)' : t = u
    <3>1. ~Linked(c)
      BY <2>2 DEF ExLink, LinkOnceInv, AtHand
    <3> QED BY <2>2, <3>1 DEF ExLink, TransactionsFor, Linked, LinkOnceInv
  <2> QED BY <2>1, <2>2, OnlyLinks
<1>2. ASSUME NEW b \in Bundles, NEW t \in TransactionsFor(b)', txStatus'[t] = "UNVERIFIED"
      PROVE  status'[b] = "PROCESSING"
  <2>0. t \in Txs
    BY DEF TransactionsFor
  <2>1. CASE t \in TransactionsFor(b)
    <3>0. Linked(b) /\ txStatus[t] # "ABSENT"
      BY <2>0, <2>1 DEF TransactionsFor, Linked, IInv, LinkInv
    <3>1. Linked(b) /\ txStatus[t] = "UNVERIFIED"
      BY <1>0, <1>2, <2>0, <3>0, StoredStays DEF Stays, TypeOK, TxStatus
    <3>2. status[b] = "PROCESSING"
      BY <2>1, <3>1 DEF LinkOnceInv
    <3>3. ~VfComplete(b) /\ ~VfFail(b)
      BY <2>1, <3>1 DEF VfComplete, VfFail, LinkOnceInv, Settling, Outcome
    <3> QED BY <3>1, <3>2, <3>3, WrittenOnce
  <2>2. ASSUME t \notin TransactionsFor(b), NEW c \in Bundles, NEW u \in Txs, ExLink(c, u)
        PROVE  status'[b] = "PROCESSING"
    <3>1. c = b /\ AtHand(b) /\ status' = status
      BY <2>0, <2>2 DEF ExLink, TransactionsFor, AtHand
    <3>2. ~Linked(b)
      BY <2>2, <3>1 DEF ExLink, LinkOnceInv
    <3> QED BY <3>1, <3>2, AtHandProcessing
  <2> QED BY <2>1, <2>2, OnlyLinks DEF TransactionsFor
<1>3. exPc' \in {"link", "fail"} => \A b \in Bundles : AtHand(b)' => ~Linked(b)'
  <2> SUFFICES ASSUME exPc' \in {"link", "fail"} PROVE \A b \in Bundles : AtHand(b)' => ~Linked(b)'
    OBVIOUS
  <2>1. /\ exPc \in {"submit", "record", "link", "fail"}
        /\ UNCHANGED <<exQueue, links>>
    BY <1>0, ZenonT(60) DEF Next, Network, vars, exVars, ExPcs, TypeOK,
        Mempool, MpList, MpCount, MpFinish, MpAbort, MpExpire, MpPromote,
        Executor, ExList, ExFinish, ExAbort, ExCheck, ExExpire, ExSubmitFails, ExSend,
        ExRecord, ExFail, ExLink, ExStop, ExAdvance, ExGoto,
        Verifier, VfList, VfFinish, VfAbort, VfPoll, VfLoadLinks, VfSettleTx,
        VfAnnounceCompleted, VfCompleted, VfAnnounceFailed, VfComplete, VfFail,
        Submit, TtlPasses, Land, Drop, Crash
  <2>2. \A b \in Bundles : AtHand(b) => ~Linked(b)
    BY <2>1 DEF IInv, ExecutorInv, LinkOnceInv, AtHand
  <2> QED BY <2>1, <2>2 DEF AtHand, Linked, TransactionsFor
<1>4. ASSUME Settling', NEW b \in vfBundles'
      PROVE  status'[b] = "PROCESSING" /\ \E t \in TransactionsFor(b)' : txStatus'[t] = Outcome'
  <2>1. ASSUME NEW t \in Txs, VfSettleTx(t)
        PROVE  status'[b] = "PROCESSING" /\ \E u \in TransactionsFor(b)' : txStatus'[u] = Outcome'
    <3>1. b \in vfBundles /\ status' = status /\ links' = links
      BY <1>4, <2>1 DEF VfSettleTx, VfGoto, VfStop, Settling
    <3>2. <<b, t>> \in links /\ txStatus[t] = "UNVERIFIED"
      BY <2>1, <3>1 DEF VfSettleTx, IsOldest, IInv, VerifierInv, Settling
    <3>3. txStatus'[t] = Outcome'
      BY <1>0, <1>4, <2>1 DEF VfSettleTx, VfGoto, VfStop, Outcome, Settling, TypeOK
    <3>4. b \in Bundles /\ t \in TransactionsFor(b)
      BY <1>0, <3>1, <3>2 DEF TypeOK, TransactionsFor
    <3>5. status[b] = "PROCESSING"
      BY <3>2, <3>4 DEF LinkOnceInv
    <3> QED BY <3>1, <3>3, <3>4, <3>5 DEF TransactionsFor
  <2>2. CASE Settling /\ b \in vfBundles /\ Outcome' = Outcome /\ ~VfComplete(b) /\ ~VfFail(b)
    <3>1. b \in Bundles /\ Linked(b)
      BY <1>0, <2>2 DEF TypeOK, LinkOnceInv, Linked
    <3>2. status'[b] = status[b]
      BY <2>2, <3>1, WrittenOnce
    <3> QED BY <2>2, <3>2, SettlingKept
  <2>3. \/ Settling /\ b \in vfBundles /\ Outcome' = Outcome
        \/ \E t \in Txs : VfSettleTx(t)
    BY <1>4 DEF Settling, Outcome, Next, Network, vars,
        Mempool, MpList, MpCount, MpFinish, MpAbort, MpExpire, MpPromote,
        Executor, ExList, ExFinish, ExAbort, ExCheck, ExExpire, ExSubmitFails, ExSend,
        ExRecord, ExFail, ExLink,
        Verifier, VfList, VfFinish, VfAbort, VfPoll, VfLoadLinks,
        VfAnnounceCompleted, VfCompleted, VfAnnounceFailed, VfComplete, VfFail,
        VfStop, VfAdvance, VfGoto,
        Submit, TtlPasses, Land, Drop, Crash
  <2>4. ~VfComplete(b) /\ ~VfFail(b)
    BY <1>4 DEF VfComplete, VfFail, VfStop
  <2> QED BY <2>1, <2>2, <2>3, <2>4
<1> QED BY <1>1, <1>2, <1>3, <1>4 DEF LinkOnceInv

\* What became of a transaction changes as it is sent, and while it waits.
LEMMA OnlyAnswers ==
  ASSUME IInv, [Next]_vars, NEW t \in Txs, chain'[t] # chain[t]
  PROVE  chain[t] = "WAITING" \/ \E b \in Bundles : ExSend(b, t)
<1>0. TypeOK
  BY DEF IInv
<1>1. ASSUME NEW b \in Bundles, NEW u \in Txs, ExSend(b, u) PROVE u = t
  BY <1>0, <1>1 DEF ExSend, TypeOK
<1>2. ASSUME NEW u \in Txs, Land(u) \/ Drop(u) PROVE chain[t] = "WAITING"
  BY <1>0, <1>2 DEF Land, Drop, TypeOK
<1>3. chain' # chain
  OBVIOUS
<1> QED BY <1>1, <1>2, <1>3 DEF Next, Network, vars, chainVars,
        Mempool, MpList, MpCount, MpFinish, MpAbort, MpExpire, MpPromote,
        Executor, ExList, ExFinish, ExAbort, ExCheck, ExExpire, ExSubmitFails,
        ExRecord, ExFail, ExLink,
        Verifier, VfList, VfFinish, VfAbort, VfPoll, VfLoadLinks, VfSettleTx,
        VfAnnounceCompleted, VfCompleted, VfAnnounceFailed, VfComplete, VfFail,
        Submit, TtlPasses, Crash

\* A bundle nobody promoted was not sent, and neither was one the executor is
\* about to expire or to send.
LEMMA NotSent ==
  ASSUME IInv, SentOnceInv, NEW b \in Bundles,
         status[b] \in {"ABSENT", "PENDING"} \/ (AtHand(b) /\ exPc \in {"expire", "submit"})
  PROVE  ~Sent(b)
<1>1. CASE status[b] \in {"ABSENT", "PENDING"}
  <2> SUFFICES ASSUME NEW t \in Txs, txBundle[t] = b PROVE FALSE
    BY DEF Sent
  <2>1. chain[t] # "UNSENT"
    BY DEF SentOnceInv, NoBundle, Bundles
  <2> QED BY <1>1, <2>1 DEF IInv, SentInv, Left
<1>2. CASE AtHand(b) /\ exPc \in {"expire", "submit"}
  <2>1. ~Linked(b)
    BY <1>2 DEF AtHand, IInv, ExecutorInv
  <2>2. status[b] = "PROCESSING"
    BY <1>2, <2>1, AtHandProcessing
  <2> QED BY <1>2, <2>1, <2>2 DEF SentOnceInv, WithStatus
<1> QED BY <1>1, <1>2

\* Only the executor sends, and what it sends is new.
LEMMA OnlySends ==
  ASSUME IInv, [Next]_vars
  PROVE  \/ UNCHANGED txBundle
         \/ \E b \in Bundles, t \in Txs :
              /\ ExSend(b, t) /\ chain[t] = "UNSENT"
              /\ txBundle' = [txBundle EXCEPT ![t] = b]
BY DEF Next, Network, vars, chainVars,
        Mempool, MpList, MpCount, MpFinish, MpAbort, MpExpire, MpPromote,
        Executor, ExList, ExFinish, ExAbort, ExCheck, ExExpire, ExSubmitFails, ExSend, IsOldest,
        ExRecord, ExFail, ExLink,
        Verifier, VfList, VfFinish, VfAbort, VfPoll, VfLoadLinks, VfSettleTx,
        VfAnnounceCompleted, VfCompleted, VfAnnounceFailed, VfComplete, VfFail,
        Submit, TtlPasses, Land, Drop, Crash

LEMMA SentOnceNext ==
  ASSUME IInv, SentOnceInv, ~DbError, "crash" \notin Faults, [Next]_vars
  PROVE  SentOnceInv'
<1>0. TypeOK /\ TypeOK'
  BY TypeOKNext DEF IInv
<1>1. CASE UNCHANGED txBundle
  <2>1. SubmittedOnce'
    BY <1>1 DEF SentOnceInv, SubmittedOnce
  <2>2. ASSUME NEW b \in Bundles, status'[b] = "EXPIRED" PROVE ~Sent(b)
    <3>1. CASE status[b] = "EXPIRED"
      BY <3>1 DEF SentOnceInv, ExpiredNeverSubmitted, WithStatus, Sent
    <3>2. CASE MpExpire(b) \/ ExExpire(b)
      <4>1. status[b] = "PENDING" \/ (AtHand(b) /\ exPc = "expire")
        BY <3>2 DEF MpExpire, ExExpire, IsNewest, AtHand, IInv, MempoolInv
      <4> QED BY <4>1, NotSent
    <3> QED BY <1>0, <2>2, <3>1, <3>2, Writers DEF TypeOK, Submit, MpPromote, ExFail, VfComplete,
               VfFail, SetStatus, MarkFailed, bundleVars
  <2>3. \A t \in Txs : chain'[t] = "UNSENT" => txBundle'[t] = NoBundle
    BY <1>1, StoredStays DEF Stays, SentOnceInv
  <2>4. ASSUME NEW b \in Bundles, status'[b] = "PROCESSING", Sent(b), ~Linked(b)'
        PROVE  exPc' \in {"record", "link", "fail"} /\ AtHand(b)'
    <3>1. status[b] = "PROCESSING"
      BY <2>4, EachMoves, NotSent DEF Moved
    <3>2. ~Linked(b)
      BY <2>4, LinkedStays
    <3>3. exPc \in {"record", "link", "fail"} /\ AtHand(b)
      BY <2>4, <3>1, <3>2 DEF SentOnceInv, WithStatus
    <3>4. \A c \in Bundles : AtHand(c) => c = b
      BY <3>3, AtHandUnique
    <3>5. ASSUME NEW c \in Bundles, ExFail(c) PROVE FALSE
      BY <1>0, <2>4, <3>1, <3>4, <3>5 DEF ExFail, AtHand, MarkFailed, Live, TypeOK
    <3>6. ASSUME NEW c \in Bundles, NEW t \in Txs, ExLink(c, t) PROVE FALSE
      BY <2>4, <3>4, <3>6 DEF ExLink, AtHand, Linked, TransactionsFor
    <3> QED BY <3>3, <3>5, <3>6 DEF AtHand, DbError, Next, Network, vars, exVars,
        Mempool, MpList, MpCount, MpFinish, MpAbort, MpExpire, MpPromote,
        Executor, ExList, ExFinish, ExAbort, ExCheck, ExExpire, ExSubmitFails, ExSend,
        ExRecord, ExStop, ExAdvance, ExGoto,
        Verifier, VfList, VfFinish, VfAbort, VfPoll, VfLoadLinks, VfSettleTx,
        VfAnnounceCompleted, VfCompleted, VfAnnounceFailed, VfComplete, VfFail,
        Submit, TtlPasses, Land, Drop, Crash
  <2>5. \A b : Sent(b)' = Sent(b)
    BY <1>1 DEF Sent
  <2> QED BY <1>1, <2>1, <2>2, <2>3, <2>4, <2>5
          DEF SentOnceInv, ExpiredNeverSubmitted, WithStatus, Sent
<1>2. ASSUME NEW b \in Bundles, NEW t \in Txs, ExSend(b, t), chain[t] = "UNSENT",
             txBundle' = [txBundle EXCEPT ![t] = b]
      PROVE  SentOnceInv'
  <2>1. AtHand(b) /\ exPc = "submit"
    BY <1>2 DEF ExSend, AtHand
  <2>2. ~Sent(b)
    BY <2>1, NotSent
  <2>3. status[b] = "PROCESSING"
    BY <2>1, AtHandProcessing DEF AtHand, IInv, ExecutorInv
  <2>4. \A u \in Txs : txBundle'[u] = IF u = t THEN b ELSE txBundle[u]
    BY <1>0, <1>2 DEF TypeOK
  <2>5. SubmittedOnce'
    BY <2>2, <2>4 DEF SubmittedOnce, SentOnceInv, Sent
  <2>6. ExpiredNeverSubmitted'
    BY <1>2, <2>3, <2>4 DEF ExSend, bundleVars, ExpiredNeverSubmitted, SentOnceInv, WithStatus
  <2>7. \A u \in Txs : chain'[u] = "UNSENT" => txBundle'[u] = NoBundle
    BY <1>0, <1>2, <2>4, StoredStays DEF ExSend, Stays, SentOnceInv, TypeOK
  <2>8. ASSUME NEW c \in Bundles, status'[c] = "PROCESSING", Sent(c)'
        PROVE  Linked(c)' \/ (exPc' \in {"record", "link", "fail"} /\ AtHand(c)')
    <3>1. CASE c = b
      BY <1>2, <3>1 DEF ExSend, ExGoto, AtHand
    <3>2. CASE c # b
      <4>1. Sent(c)
        BY <2>4, <2>8, <3>2 DEF Sent
      <4>2. status[c] = "PROCESSING"
        BY <1>2, <2>8 DEF ExSend, bundleVars
      <4>3. Linked(c)
        BY <2>1, <4>1, <4>2 DEF SentOnceInv, WithStatus
      <4> QED BY <4>3, LinkedStays
    <3> QED BY <3>1, <3>2
  <2> QED BY <2>5, <2>6, <2>7, <2>8 DEF SentOnceInv, WithStatus
<1> QED BY <1>1, <1>2, OnlySends

\* What the network may still execute keeps its bundle out of FAILED and EXPIRED.
LEMMA TrackNext ==
  ASSUME IInv, LinkOnceInv, SentOnceInv, TrackInv,
         ~DbError, "crash" \notin Faults, "lostReply" \notin Faults, [Next]_vars
  PROVE  TrackInv'
<1> USE DEF DbError
<1>0. TypeOK /\ TypeOK'
  BY TypeOKNext DEF IInv
<1>1. exPc' = "fail" => \A b \in Bundles : AtHand(b)' => ~Sent(b)'
  <2> SUFFICES ASSUME exPc' = "fail" PROVE \A b \in Bundles : AtHand(b)' => ~Sent(b)'
    OBVIOUS
  <2>1. exPc \in {"submit", "fail"} /\ UNCHANGED <<exQueue, txBundle>>
    BY DEF Next, Network, vars, exVars, chainVars,
        Mempool, MpList, MpCount, MpFinish, MpAbort, MpExpire, MpPromote,
        Executor, ExList, ExFinish, ExAbort, ExCheck, ExExpire, ExSubmitFails, ExSend,
        ExRecord, ExFail, ExLink, ExStop, ExAdvance, ExGoto,
        Verifier, VfList, VfFinish, VfAbort, VfPoll, VfLoadLinks, VfSettleTx,
        VfAnnounceCompleted, VfCompleted, VfAnnounceFailed, VfComplete, VfFail,
        Submit, TtlPasses, Land, Drop, Crash
  <2>2. \A b \in Bundles : AtHand(b) => ~Sent(b)
    BY <2>1, NotSent DEF TrackInv
  <2> QED BY <2>1, <2>2 DEF AtHand, Sent
<1>2. ASSUME NEW t \in Txs, chain'[t] \in {"WAITING", "SUCCESS"}
      PROVE  status'[txBundle'[t]] \in {"PROCESSING", "COMPLETED"}
  <2>1. CASE chain[t] = "UNSENT"
    <3>1. PICK b \in Bundles : ExSend(b, t)
      BY <1>0, <1>2, <2>1, OnlyAnswers DEF TypeOK
    <3>2. AtHand(b) /\ ~Linked(b)
      BY <3>1 DEF ExSend, AtHand, IInv, ExecutorInv
    <3>3. status[b] = "PROCESSING"
      BY <3>2, AtHandProcessing
    <3> QED BY <1>0, <3>1, <3>3 DEF ExSend, bundleVars, TypeOK
  <2>2. CASE chain[t] # "UNSENT"
    <3>1. txBundle'[t] = txBundle[t] /\ txBundle[t] \in Bundles
      BY <2>2, StoredStays DEF Stays, IInv, SentInv
    <3>2. chain[t] \in {"WAITING", "SUCCESS"}
      BY <1>2, <2>2, OnlyAnswers DEF ExSend, IsOldest
    <3> DEFINE b == txBundle[t]
    <3>3. status[b] \in {"PROCESSING", "COMPLETED"} /\ Sent(b)
      BY <3>1, <3>2 DEF TrackInv, Sent
    <3>4. ~ExExpire(b)
      BY <3>1, <3>3, NotSent DEF ExExpire, AtHand
    <3>5. ~ExFail(b)
      BY <3>1, <3>3 DEF ExFail, AtHand, TrackInv
    <3>6. ~VfFail(b)
      <4> SUFFICES ASSUME VfFail(b) PROVE FALSE
        OBVIOUS
      <4>1. PICK u \in Txs : <<b, u>> \in links /\ txStatus[u] = "FAILED"
        BY DEF VfFail, LinkOnceInv, Settling, Outcome, TransactionsFor
      <4>2. txBundle[u] = b /\ chain[u] = "FAILED"
        BY <3>1, <4>1 DEF IInv, LinkInv, SentInv
      <4>3. u = t
        BY <3>1, <4>2 DEF SentOnceInv, SubmittedOnce, NoBundle, Bundles
      <4> QED BY <3>2, <4>2, <4>3
    <3>7. status'[b] # status[b] => VfComplete(b)
      BY <3>1, <3>3, <3>4, <3>5, <3>6, Writers
         DEF Submit, MpExpire, MpPromote, IsNewest, FirstFresh, IsOldest, IInv, MempoolInv
    <3>8. VfComplete(b) => status'[b] = "COMPLETED"
      BY <1>0, <3>1 DEF VfComplete, SetStatus, TypeOK
    <3> QED BY <3>1, <3>3, <3>7, <3>8
  <2> QED BY <2>1, <2>2
<1> QED BY <1>1, <1>2 DEF TrackInv

-----------------------------------------------------------------------------
(* What the pipelines promise where fewer things fail *)

\* The parts of NetworkInv are inductive one upon the other, each for the faults
\* it allows for.
THEOREM NetworkInvariantHolds == Spec => []NetworkInv
<1>1. Init => NetworkInv
  <2> SUFFICES ASSUME Init PROVE NetworkInv
    OBVIOUS
  <2>1. LinkOnceInv
    BY DEF Init, LinkOnceInv, TransactionsFor, Settling
  <2>2. SentOnceInv /\ TrackInv
    BY DEF Init, SentOnceInv, SubmittedOnce, ExpiredNeverSubmitted, WithStatus, TrackInv
  <2> QED BY <2>1, <2>2 DEF NetworkInv
<1>2. IInv /\ NetworkInv /\ [Next]_vars => NetworkInv'
  <2> SUFFICES ASSUME IInv, NetworkInv, [Next]_vars PROVE NetworkInv'
    OBVIOUS
  <2>1. Without({"db"}) => LinkOnceInv'
    BY LinkOnceNext DEF NetworkInv, Without, DbError
  <2>2. Without({"db", "crash"}) => SentOnceInv'
    BY SentOnceNext DEF NetworkInv, Without, DbError
  <2>3. Without({"db", "crash", "lostReply"}) => TrackInv'
    BY TrackNext DEF NetworkInv, Without, DbError
  <2> QED BY <2>1, <2>2, <2>3 DEF NetworkInv, Without
<1> QED BY <1>1, <1>2, InvariantHolds, PTL DEF Spec

\* Where no query fails, no pipeline overwrites a terminal status: the executor's
\* and the verifier's unconditional writes never meet, whatever the network, the
\* clock and a restart do.
THEOREM FinalStays ==
  ASSUME Without({"db"}) PROVE Spec => TerminalIsFinal
<1> DEFINE Step == \A b \in Bundles : status[b] \in Terminal => status'[b] = status[b]
<1>1. IInv /\ NetworkInv /\ [Next]_vars => [Step]_vars
  BY WrittenOnce DEF NetworkInv
<1> QED BY <1>1, InvariantHolds, NetworkInvariantHolds, PTL DEF Spec, TerminalIsFinal

\* Where no query fails and the process does not stop, one transaction per bundle
\* is sent, although replies are lost and the network forgets transactions.
THEOREM SentOnce ==
  ASSUME Without({"db", "crash"}) PROVE Spec => []SubmittedOnce
<1>1. NetworkInv => SubmittedOnce
  BY DEF NetworkInv, SentOnceInv
<1> QED BY <1>1, NetworkInvariantHolds, PTL

\* Under the same faults, a bundle reported EXPIRED was never sent.
THEOREM ExpiredUnsent ==
  ASSUME Without({"db", "crash"}) PROVE Spec => []ExpiredNeverSubmitted
<1>1. NetworkInv => ExpiredNeverSubmitted
  BY DEF NetworkInv, SentOnceInv
<1> QED BY <1>1, NetworkInvariantHolds, PTL

\* If every reply of the network arrives, what it executed is never reported
\* FAILED, EXPIRED or PENDING.
THEOREM ExecutedTracked ==
  ASSUME Without({"db", "crash", "lostReply"}) PROVE Spec => []ExecutedIsTracked
<1>1. IInv /\ NetworkInv => ExecutedIsTracked
  BY DEF NetworkInv, TrackInv, ExecutedIsTracked, Executed
<1> QED BY <1>1, InvariantHolds, NetworkInvariantHolds, PTL

-----------------------------------------------------------------------------
(* The pipelines implement BundleLifecycle *)

ExecutedSet == {b \in Bundles : Executed(b)}

\* Only a closing ledger adds to what the network has executed.
LEMMA ExecutedNext ==
  ASSUME IInv, [Next]_vars
  PROVE  \/ ExecutedSet' = ExecutedSet
         \/ \E t \in Txs : /\ Land(t)
                           /\ txBundle[t] \notin ExecutedSet
                           /\ ExecutedSet' = ExecutedSet \cup {txBundle[t]}
<1> USE DEF ExecutedSet, Executed
<1>0. TypeOK
  BY DEF IInv
<1>1. CASE UNCHANGED <<chain, txBundle>>
  BY <1>1
<1>2. ASSUME NEW b \in Bundles, NEW t \in Txs, ExSend(b, t) PROVE ExecutedSet' = ExecutedSet
  <2>1. chain[t] = "UNSENT" /\ chain'[t] # "SUCCESS"
    BY <1>0, <1>2 DEF ExSend, IsOldest, TypeOK
  <2>2. \A u \in Txs : (chain'[u] = "SUCCESS") = (chain[u] = "SUCCESS")
    BY <1>0, <1>2, <2>1 DEF ExSend, TypeOK
  <2>3. \A u \in Txs : u # t => txBundle'[u] = txBundle[u]
    BY <1>0, <1>2 DEF ExSend, TypeOK
  <2> QED BY <2>1, <2>2, <2>3
<1>3. ASSUME NEW t \in Txs, Drop(t) PROVE ExecutedSet' = ExecutedSet
  BY <1>0, <1>3 DEF Drop, TypeOK
<1>4. ASSUME NEW t \in Txs, Land(t), chain' = [chain EXCEPT ![t] = "FAILED"]
      PROVE  ExecutedSet' = ExecutedSet
  BY <1>0, <1>4 DEF Land, TypeOK
<1>5. ASSUME NEW t \in Txs, Land(t), ~Executed(txBundle[t]),
             chain' = [chain EXCEPT ![t] = "SUCCESS"]
      PROVE  /\ txBundle[t] \notin ExecutedSet
             /\ ExecutedSet' = ExecutedSet \cup {txBundle[t]}
  <2>1. txBundle[t] \in Bundles
    BY <1>5 DEF Land, IInv, SentInv
  <2>2. txBundle' = txBundle /\ \A u \in Txs : chain'[u] = IF u = t THEN "SUCCESS" ELSE chain[u]
    BY <1>0, <1>5 DEF Land, TypeOK
  <2>3. \A b \in Bundles : Executed(b)' <=> (Executed(b) \/ b = txBundle[t])
    BY <2>2, <1>5
  <2> QED BY <1>5, <2>1, <2>3
<1> QED BY <1>1, <1>2, <1>3, <1>4, <1>5 DEF Next, Network, Land, vars, chainVars,
        Mempool, MpList, MpCount, MpFinish, MpAbort, MpExpire, MpPromote,
        Executor, ExList, ExFinish, ExAbort, ExCheck, ExExpire, ExSubmitFails,
        ExRecord, ExFail, ExLink,
        Verifier, VfList, VfFinish, VfAbort, VfPoll, VfLoadLinks, VfSettleTx,
        VfAnnounceCompleted, VfCompleted, VfAnnounceFailed, VfComplete, VfFail,
        Submit, TtlPasses, Crash

\* Both modules take Cardinality from the same standard module.
LEMMA SameCardinality == \A S : Lifecycle!Cardinality(S) = Cardinality(S)
BY DEF Lifecycle!Cardinality, Cardinality

\* A step of the pipelines is a step of the lifecycle, or changes neither a
\* status nor what the network has executed.
LEMMA StepImplements ==
  IInv /\ IInv' /\ [Next]_vars => [Lifecycle!Next]_(Lifecycle!lifecycleVars)
<1> SUFFICES ASSUME IInv, IInv', [Next]_vars
             PROVE  [Lifecycle!Next]_(Lifecycle!lifecycleVars)
  OBVIOUS
<1> USE DEF ExecutedSet
<1>0. TypeOK
  BY DEF IInv
<1>1. ASSUME NEW t \in Txs, Land(t), txBundle[t] \notin ExecutedSet,
             ExecutedSet' = ExecutedSet \cup {txBundle[t]}
      PROVE  Lifecycle!Next
  <2>1. txBundle[t] \in Bundles /\ Left(txBundle[t])
    BY <1>1 DEF Land, IInv, SentInv
  <2>2. status[txBundle[t]] # "COMPLETED"
    <3>1. ASSUME status[txBundle[t]] = "COMPLETED" PROVE FALSE
      <4>1. SeenExecuted(txBundle[t])
        BY <2>1, <3>1 DEF IInv, CompletedWasExecuted, WithStatus
      <4>2. Executed(txBundle[t])
        BY <4>1 DEF SeenExecuted, TransactionsFor, Executed
      <4> QED BY <1>1, <2>1, <4>2
    <3> QED BY <3>1
  <2>3. status' = status
    BY <1>1 DEF Land, bundleVars
  <2>4. Lifecycle!Execute(txBundle[t])
    BY <1>1, <2>1, <2>2, <2>3 DEF Lifecycle!Execute, Left
  <2> QED BY <2>1, <2>4 DEF Lifecycle!Next
<1>2. CASE ExecutedSet' = ExecutedSet /\ UNCHANGED status
  BY <1>2 DEF Lifecycle!lifecycleVars
<1>3. ASSUME ExecutedSet' = ExecutedSet, NEW b \in Bundles, Moved(b),
             status' = [status EXCEPT ![b] = status'[b]]
      PROVE  Lifecycle!Next
  <2>1. CASE status[b] = "ABSENT" /\ status'[b] = "PENDING"
    <3>1. Lifecycle!Submit(b)
      BY <1>3, <2>1 DEF Lifecycle!Submit, Lifecycle!Move
    <3> QED BY <3>1 DEF Lifecycle!Next
  <2>2. CASE status[b] = "PENDING" /\ status'[b] = "PROCESSING"
    <3>1. WithStatus("PROCESSING")' = WithStatus("PROCESSING") \cup {b}
      BY <1>0, <1>3, <2>2 DEF WithStatus, TypeOK
    <3>2. Cardinality(WithStatus("PROCESSING")') = Cardinality(WithStatus("PROCESSING")) + 1
      BY <2>2, <3>1, <1>0, ProcessingFinite, FS_AddElement DEF WithStatus
    <3>3. Cardinality(WithStatus("PROCESSING")') <= SlotCapacity
      BY DEF IInv, SlotCapacityRespected
    <3>4. Lifecycle!Cardinality(Lifecycle!Processing) < SlotCapacity
      BY <3>2, <3>3, ProcessingFinite, BoundsAssumption, SameCardinality
         DEF Lifecycle!Processing, WithStatus
    <3>5. Lifecycle!Promote(b)
      BY <1>3, <2>2, <3>4 DEF Lifecycle!Promote, Lifecycle!Move
    <3> QED BY <3>5 DEF Lifecycle!Next
  <2>3. CASE status[b] \in {"PENDING", "PROCESSING"} /\ status'[b] = "EXPIRED"
    <3>1. Lifecycle!Expire(b)
      BY <1>3, <2>3 DEF Lifecycle!Expire, Lifecycle!Move
    <3> QED BY <3>1 DEF Lifecycle!Next
  <2>4. CASE status[b] = "PROCESSING" /\ status'[b] = "FAILED"
    <3>1. Lifecycle!Fail(b)
      BY <1>3, <2>4 DEF Lifecycle!Fail, Lifecycle!Move
    <3> QED BY <3>1 DEF Lifecycle!Next
  <2>5. CASE status[b] \in {"PROCESSING", "FAILED"} /\ status'[b] = "COMPLETED" /\ SeenExecuted(b)
    <3>1. Executed(b)
      BY <2>5 DEF SeenExecuted, TransactionsFor, Executed
    <3>2. Lifecycle!Complete(b)
      BY <1>3, <2>5, <3>1 DEF Lifecycle!Complete, Lifecycle!Move
    <3> QED BY <3>2 DEF Lifecycle!Next
  <2> QED BY <1>3, <2>1, <2>2, <2>3, <2>4, <2>5 DEF Moved
<1>4. OneMove
  BY OneMoveNext
<1>5. \A b \in Bundles : status' = [status EXCEPT ![b] = status'[b]] /\ status'[b] = status[b]
                          => UNCHANGED status
  BY <1>0 DEF TypeOK
<1> QED BY <1>1, <1>2, <1>3, <1>4, <1>5, ExecutedNext DEF OneMove

\* The three pipelines, with every fault the model knows, implement the
\* lifecycle a client is promised (BundleLifecycle).
THEOREM RefinesLifecycle == Spec => ImplementsLifecycle
<1>1. Init => Lifecycle!Init
  BY DEF Init, Lifecycle!Init, Executed
<1>2. IInv /\ IInv' /\ [Next]_vars => [Lifecycle!Next]_(Lifecycle!lifecycleVars)
  BY StepImplements
<1> QED BY <1>1, <1>2, InvariantHolds, PTL DEF Spec, ImplementsLifecycle, Lifecycle!Spec

=============================================================================
