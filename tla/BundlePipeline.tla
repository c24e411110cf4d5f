--------------------------- MODULE BundlePipeline ---------------------------
(***************************************************************************)
(* The three pipelines that carry a bundle from its PENDING row to a       *)
(* terminal status, as they run inside one provider process:               *)
(*                                                                         *)
(*   mempool   crates/core/src/pipelines/mempool.rs   PENDING -> PROCESSING *)
(*                                                    PENDING -> EXPIRED    *)
(*   executor  crates/core/src/pipelines/executor.rs  PROCESSING -> on chain*)
(*                                                    -> EXPIRED | FAILED   *)
(*   verifier  crates/core/src/pipelines/verifier.rs  -> COMPLETED | FAILED *)
(*                                                                         *)
(* They share nothing but three Postgres tables, every query of which is a *)
(* statement of its own (no transaction spans two of them), and the        *)
(* Stellar network.  Each step of this model is one such statement, one    *)
(* RPC call, or the local computation between two of them.  The processes  *)
(* interleave freely, the process may stop between any two steps, a query  *)
(* may fail before or after the database applied it, and a call to the     *)
(* network may fail before or after the network took it.                   *)
(***************************************************************************)
EXTENDS Naturals, FiniteSets

CONSTANTS
  MaxBundles,       \* bundles ever submitted (bound)
  MaxTxs,           \* transactions ever sent (bound)
  SlotCapacity,     \* MEMPOOL_SLOT_CAPACITY
  PendingLimit,     \* LIMIT of the mempool's PENDING query (256 in the code)
  VerifyLimit,      \* LIMIT of the verifier's UNVERIFIED query (64)
  Faults            \* which of FaultKinds this instance lets happen

FaultKinds == {
  "rpc",            \* a call to the RPC server fails and has no effect
  "lostReply",      \* send_transaction fails although the network took it
  "dropped",        \* the network forgets a transaction it had taken
  "earlyLedger",    \* a ledger closes before the executor has recorded the tx
  "db",             \* a query fails, before or after the database applied it
  "summary",        \* a stored bundle's MLXDR cannot be summarised
  "crash" }         \* the provider process stops and starts again

ASSUME BoundsAssumption ==
  /\ MaxBundles \in Nat
  /\ MaxTxs \in Nat
  /\ SlotCapacity \in Nat
  /\ PendingLimit \in Nat
  /\ VerifyLimit \in Nat

ASSUME FaultsAssumption == Faults \subseteq FaultKinds

\* Bundle ids are numbered in created_at order, transactions in the order sent.
Bundles == 1..MaxBundles
Txs     == 1..MaxTxs
NoTx     == 0
NoBundle == 0

Live         == {"PENDING", "PROCESSING"}
Terminal     == {"COMPLETED", "EXPIRED", "FAILED"}
BundleStatus == {"ABSENT"} \cup Live \cup Terminal
TxStatus     == {"ABSENT", "UNVERIFIED", "VERIFIED", "FAILED"}
ChainStatus  == {"UNSENT", "WAITING", "SUCCESS", "FAILED", "DROPPED"}

VARIABLES
  \* ---- table operations_bundles ----
  status,           \* bundle -> its status column ("ABSENT": no row yet)
  retryCount,       \* bundle -> its retry_count column
  late,             \* bundles whose ttl is before the clock's now
  \* ---- tables transactions and bundles_transactions ----
  txStatus,         \* tx -> its status column ("ABSENT": no row)
  links,            \* set of <<bundle, tx>>
  \* ---- the Stellar network ----
  chain,            \* tx -> what became of it
  txBundle,         \* tx -> the bundle whose operations it carries
  \* ---- events handed to the broadcaster ----
  addedEvents,      \* bundle -> mempool.bundle_added events
  completedEvents,  \* tx -> verifier.bundle_completed events
  failedEvents,     \* tx -> verifier.bundle_failed events
  \* ---- locals of one mempool tick ----
  mpPc, mpExpired, mpFresh, mpFree,
  mpWaiting,        \* the rows PENDING when the LIMIT cut the listing short (history)
  \* ---- locals of one executor tick ----
  exPc, exQueue, exTx,
  \* ---- locals of one verifier tick ----
  vfPc, vfQueue, vfVerdict, vfBundles

bundleVars == <<status, retryCount>>
txVars     == <<txStatus, links>>
chainVars  == <<chain, txBundle>>
eventVars  == <<addedEvents, completedEvents, failedEvents>>
mpVars     == <<mpPc, mpExpired, mpFresh, mpFree, mpWaiting>>
exVars     == <<exPc, exQueue, exTx>>
vfVars     == <<vfPc, vfQueue, vfVerdict, vfBundles>>

vars == <<bundleVars, late, txVars, chainVars, eventVars, mpVars, exVars, vfVars>>

MpPcs == {"idle", "sweep", "promote"}
ExPcs == {"idle", "next", "expire", "submit", "record", "link", "fail"}
VfPcs == {"idle", "next", "links", "settle", "announce", "complete", "fail"}
Verdicts == {"NONE", "SUCCESS", "FAILED"}

TypeOK ==
  /\ status \in [Bundles -> BundleStatus]
  /\ retryCount \in [Bundles -> Nat]
  /\ late \subseteq Bundles
  /\ txStatus \in [Txs -> TxStatus]
  /\ links \subseteq Bundles \X Txs
  /\ chain \in [Txs -> ChainStatus]
  /\ txBundle \in [Txs -> Bundles \cup {NoBundle}]
  /\ addedEvents \in [Bundles -> Nat]
  /\ completedEvents \in [Txs -> Nat]
  /\ failedEvents \in [Txs -> Nat]
  /\ mpPc \in MpPcs
  /\ mpExpired \subseteq Bundles
  /\ mpFresh \subseteq Bundles
  /\ mpFree \in Nat
  /\ mpWaiting \subseteq Bundles
  /\ exPc \in ExPcs
  /\ exQueue \subseteq Bundles
  /\ exTx \in Txs \cup {NoTx}
  /\ vfPc \in VfPcs
  /\ vfQueue \subseteq Txs
  /\ vfVerdict \in Verdicts
  /\ vfBundles \subseteq Bundles

Init ==
  /\ status = [b \in Bundles |-> "ABSENT"]
  /\ retryCount = [b \in Bundles |-> 0]
  /\ late = {}
  /\ txStatus = [t \in Txs |-> "ABSENT"]
  /\ links = {}
  /\ chain = [t \in Txs |-> "UNSENT"]
  /\ txBundle = [t \in Txs |-> NoBundle]
  /\ addedEvents = [b \in Bundles |-> 0]
  /\ completedEvents = [t \in Txs |-> 0]
  /\ failedEvents = [t \in Txs |-> 0]
  /\ mpPc = "idle" /\ mpExpired = {} /\ mpFresh = {} /\ mpFree = 0 /\ mpWaiting = {}
  /\ exPc = "idle" /\ exQueue = {} /\ exTx = NoTx
  /\ vfPc = "idle" /\ vfQueue = {} /\ vfVerdict = "NONE" /\ vfBundles = {}

-----------------------------------------------------------------------------
(* Queries *)

WithStatus(s) == {b \in Bundles : status[b] = s}

\* ORDER BY created_at DESC LIMIT n, and ORDER BY created_at LIMIT n.
Newest(S, n) == {x \in S : Cardinality({y \in S : y > x}) < n}
Oldest(S, n) == {x \in S : Cardinality({y \in S : y < x}) < n}

IsNewest(x, S) == x \in S /\ \A y \in S : y <= x
IsOldest(x, S) == x \in S /\ \A y \in S : x <= y

\* list_by_status(status, limit)
ListByStatus(s, limit) == Newest(WithStatus(s), limit)

\* Mutant: the WHERE clause on the status column is missing.
ListAllTxs(limit) == Oldest({t \in Txs : txStatus[t] # "ABSENT"}, limit)

\* list_unverified(limit)
ListUnverified(limit) == Oldest({t \in Txs : txStatus[t] = "UNVERIFIED"}, limit)

\* Mutant: the WHERE clause on the transaction is missing.
BundlesForAnyTx(t) == {b \in Bundles : \E u \in Txs : <<b, u>> \in links}

\* list_transactions_for_bundle / list_bundles_for_transaction
TransactionsFor(b) == {t \in Txs : <<b, t>> \in links}
BundlesFor(t)      == {b \in Bundles : <<b, t>> \in links}

\* The unconditional UPDATE of set_status.
SetStatus(b, s) ==
  /\ status' = [status EXCEPT ![b] = s]
  /\ UNCHANGED retryCount

\* Mutant: no gate on the status, so a terminal one is overwritten.
MarkFailedUngated(b) ==
  /\ status' = [status EXCEPT ![b] = "FAILED"]
  /\ retryCount' = [retryCount EXCEPT ![b] = @ + 1]

\* Mutant: the gate forgets PROCESSING.
MarkFailedPendingOnly(b) ==
  IF status[b] = "PENDING" THEN MarkFailedUngated(b) ELSE UNCHANGED bundleVars

\* The UPDATE of mark_failed, gated on a live status in its WHERE clause.
MarkFailed(b) ==
  IF status[b] \in Live
    THEN /\ status' = [status EXCEPT ![b] = "FAILED"]
         /\ retryCount' = [retryCount EXCEPT ![b] = @ + 1]
    ELSE UNCHANGED bundleVars

DbError  == "db" \in Faults
RpcError == "rpc" \in Faults

\* What the network has executed.
Executed(b) == \E t \in Txs : chain[t] = "SUCCESS" /\ txBundle[t] = b

-----------------------------------------------------------------------------
(* Submission and the clock *)

\* POST /provider/bundles stores the row.  Rows are created in id order.
Submit(b) ==
  /\ status[b] = "ABSENT"
  /\ \A c \in Bundles : c < b => status[c] # "ABSENT"
  /\ SetStatus(b, "PENDING")
  /\ UNCHANGED <<late, txVars, chainVars, eventVars, mpVars, exVars, vfVars>>

\* The clock passes the ttl of a bundle.  After a terminal status nobody
\* compares the ttl again, so only live bundles turn late in the model.
TtlPasses(b) ==
  /\ status[b] \in Live
  /\ b \notin late
  /\ late' = late \cup {b}
  /\ UNCHANGED <<bundleVars, txVars, chainVars, eventVars, mpVars, exVars, vfVars>>

-----------------------------------------------------------------------------
(* Mempool: one tick sweeps what it listed, counts the slots, promotes. *)

MpStop ==
  /\ mpPc' = "idle"
  /\ mpExpired' = {}
  /\ mpFresh' = {}
  /\ mpFree' = 0
  /\ mpWaiting' = {}

\* The listed PENDING rows, split on ttl < now into expired and fresh ones. Where
\* the LIMIT left some out, mpWaiting keeps all that were PENDING.
MpList ==
  /\ mpPc = "idle"
  /\ mpPc' = "sweep"
  /\ mpExpired' = ListByStatus("PENDING", PendingLimit) \cap late
  /\ mpFresh' = ListByStatus("PENDING", PendingLimit) \ late
  /\ mpWaiting' = IF ListByStatus("PENDING", PendingLimit) = WithStatus("PENDING")
                    THEN {} ELSE WithStatus("PENDING")
  /\ UNCHANGED <<mpFree, bundleVars, late, txVars, chainVars, eventVars, exVars, vfVars>>

\* Mutant: an expired row is passed over and not written.
MpExpireForgets(b) ==
  /\ mpPc = "sweep"
  /\ IsNewest(b, mpExpired)
  /\ mpExpired' = mpExpired \ {b}
  /\ UNCHANGED <<mpPc, mpFresh, mpFree, mpWaiting, bundleVars, late, txVars, chainVars, eventVars, exVars, vfVars>>

MpExpire(b) ==
  /\ mpPc = "sweep"
  /\ IsNewest(b, mpExpired)
  /\ SetStatus(b, "EXPIRED")
  /\ \/ mpExpired' = mpExpired \ {b} /\ UNCHANGED <<mpPc, mpFresh, mpFree, mpWaiting>>
     \/ DbError /\ MpStop
  /\ UNCHANGED <<late, txVars, chainVars, eventVars, exVars, vfVars>>

\* Mutants: the slots already taken are not subtracted; one slot too few.
FreeSlotsIgnoringTaken(taken) == SlotCapacity
FreeSlotsOffByOne(taken) == IF taken + 1 < SlotCapacity THEN SlotCapacity - taken - 1 ELSE 0

\* slot_capacity.saturating_sub(processing_count_before)
FreeSlots(taken) == IF taken < SlotCapacity THEN SlotCapacity - taken ELSE 0

MpCount ==
  /\ mpPc = "sweep"
  /\ mpExpired = {}
  /\ mpPc' = "promote"
  /\ mpFree' = FreeSlots(Cardinality(ListByStatus("PROCESSING", SlotCapacity)))
  /\ UNCHANGED <<mpExpired, mpFresh, mpWaiting, bundleVars, late, txVars, chainVars, eventVars, exVars,
                 vfVars>>

\* Mutant: the list is not sorted.
AnyFresh(b) == b \in mpFresh

\* fresh.sort_by_key(created_at), taken from the front.
FirstFresh(b) == IsOldest(b, mpFresh)

\* take(free_slots)
SlotLeft == mpFree > 0

\* A bundle that cannot be summarised is promoted without its event.
MpPromote(b) ==
  /\ mpPc = "promote"
  /\ SlotLeft
  /\ FirstFresh(b)
  /\ SetStatus(b, "PROCESSING")
  /\ \/ /\ mpFresh' = mpFresh \ {b}
        /\ mpFree' = mpFree - 1
        /\ UNCHANGED <<mpPc, mpExpired, mpWaiting>>
        /\ \/ addedEvents' = [addedEvents EXCEPT ![b] = @ + 1]
           \/ "summary" \in Faults /\ UNCHANGED addedEvents
     \/ DbError /\ MpStop /\ UNCHANGED addedEvents
  /\ UNCHANGED <<late, txVars, chainVars, completedEvents, failedEvents, exVars, vfVars>>

MpFinish ==
  /\ mpPc = "promote"
  /\ mpFree = 0 \/ mpFresh = {}
  /\ MpStop
  /\ UNCHANGED <<bundleVars, late, txVars, chainVars, eventVars, exVars, vfVars>>

\* A query that fails without effect ends the tick.
MpAbort ==
  /\ DbError
  /\ mpPc # "idle"
  /\ MpStop
  /\ UNCHANGED <<bundleVars, late, txVars, chainVars, eventVars, exVars, vfVars>>

Mempool ==
  \/ MpList \/ MpCount \/ MpFinish \/ MpAbort
  \/ \E b \in Bundles : MpExpire(b) \/ MpPromote(b)

-----------------------------------------------------------------------------
(* Executor: one tick walks the PROCESSING rows it listed, newest first. *)

ExStop ==
  /\ exPc' = "idle"
  /\ exQueue' = {}
  /\ exTx' = NoTx

\* Done with b: the loop goes on to the next listed bundle.
ExAdvance(b) ==
  /\ exPc' = "next"
  /\ exQueue' = exQueue \ {b}
  /\ exTx' = NoTx

ExGoto(pc) == exPc' = pc /\ UNCHANGED <<exQueue, exTx>>

ExList ==
  /\ exPc = "idle"
  /\ exPc' = "next"
  /\ exQueue' = ListByStatus("PROCESSING", SlotCapacity)
  /\ UNCHANGED <<exTx, bundleVars, late, txVars, chainVars, eventVars, mpVars, vfVars>>

\* Mutants: a bundle that has a transaction is not skipped; the ttl gate comes
\* before the skip.
ExCheckNoSkip(b) ==
  /\ exPc = "next"
  /\ IsNewest(b, exQueue)
  /\ \/ b \in late /\ ExGoto("expire")
     \/ b \notin late /\ ExGoto("submit")
  /\ UNCHANGED <<bundleVars, late, txVars, chainVars, eventVars, mpVars, vfVars>>

ExCheckTtlFirst(b) ==
  /\ exPc = "next"
  /\ IsNewest(b, exQueue)
  /\ \/ b \in late /\ ExGoto("expire")
     \/ b \notin late /\ TransactionsFor(b) # {} /\ ExAdvance(b)
     \/ b \notin late /\ TransactionsFor(b) = {} /\ ExGoto("submit")
  /\ UNCHANGED <<bundleVars, late, txVars, chainVars, eventVars, mpVars, vfVars>>

\* A bundle that has a transaction is skipped, then the ttl gate decides.
ExCheck(b) ==
  /\ exPc = "next"
  /\ IsNewest(b, exQueue)
  /\ \/ TransactionsFor(b) # {} /\ ExAdvance(b)
     \/ TransactionsFor(b) = {} /\ b \in late /\ ExGoto("expire")
     \/ TransactionsFor(b) = {} /\ b \notin late /\ ExGoto("submit")
  /\ UNCHANGED <<bundleVars, late, txVars, chainVars, eventVars, mpVars, vfVars>>

ExExpire(b) ==
  /\ exPc = "expire"
  /\ IsNewest(b, exQueue)
  /\ SetStatus(b, "EXPIRED")
  /\ ExAdvance(b) \/ (DbError /\ ExStop)
  /\ UNCHANGED <<late, txVars, chainVars, eventVars, mpVars, vfVars>>

\* submit_one up to send_transaction: building, simulating, assembling and
\* signing may fail, and simulation does fail for a bundle already executed,
\* whose fee Create names a UTXO that exists by then.
ExSubmitFails(b) ==
  /\ exPc = "submit"
  /\ IsNewest(b, exQueue)
  /\ RpcError \/ Executed(b)
  /\ ExGoto("fail")
  /\ UNCHANGED <<bundleVars, late, txVars, chainVars, eventVars, mpVars, vfVars>>

\* The provider signs with one account and reads its sequence number anew for
\* every bundle: the network admits one waiting transaction of it at a time.
Admits == \A t \in Txs : chain[t] # "WAITING"

\* send_transaction of the next transaction.  The status field of the reply is
\* not looked at: a transaction the network did not admit counts as sent.
ExSend(b, t) ==
  /\ exPc = "submit"
  /\ IsNewest(b, exQueue)
  /\ ~Executed(b)
  /\ IsOldest(t, {u \in Txs : chain[u] = "UNSENT"})
  /\ chain' = [chain EXCEPT ![t] = IF Admits THEN "WAITING" ELSE "DROPPED"]
  /\ txBundle' = [txBundle EXCEPT ![t] = b]
  /\ \/ exPc' = "record" /\ exTx' = t /\ UNCHANGED exQueue
     \/ "lostReply" \in Faults /\ ExGoto("fail")
  /\ UNCHANGED <<bundleVars, late, txVars, eventVars, mpVars, vfVars>>

\* txs.create: INSERT INTO transactions
ExRecord(t) ==
  /\ exPc = "record"
  /\ exTx = t
  /\ txStatus' = [txStatus EXCEPT ![t] = "UNVERIFIED"]
  /\ ExGoto("link") \/ (DbError /\ ExGoto("fail"))
  /\ UNCHANGED <<links, bundleVars, late, chainVars, eventVars, mpVars, vfVars>>

\* link.link: INSERT INTO bundles_transactions ... ON CONFLICT DO NOTHING
ExLink(b, t) ==
  /\ exPc = "link"
  /\ exTx = t
  /\ IsNewest(b, exQueue)
  /\ links' = links \cup {<<b, t>>}
  /\ ExAdvance(b) \/ (DbError /\ ExGoto("fail"))
  /\ UNCHANGED <<txStatus, bundleVars, late, chainVars, eventVars, mpVars, vfVars>>

\* Mutant: the bundle stays PROCESSING for the next tick to try again.
ExFailLeavesProcessing(b) ==
  /\ exPc = "fail"
  /\ IsNewest(b, exQueue)
  /\ ExAdvance(b)
  /\ UNCHANGED <<bundleVars, late, txVars, chainVars, eventVars, mpVars, vfVars>>

\* Whatever error submit_one returned: mark_failed, at the first attempt.
ExFail(b) ==
  /\ exPc = "fail"
  /\ IsNewest(b, exQueue)
  /\ MarkFailed(b)
  /\ ExAdvance(b) \/ (DbError /\ ExStop)
  /\ UNCHANGED <<late, txVars, chainVars, eventVars, mpVars, vfVars>>

ExFinish ==
  /\ exPc = "next"
  /\ exQueue = {}
  /\ ExStop
  /\ UNCHANGED <<bundleVars, late, txVars, chainVars, eventVars, mpVars, vfVars>>

\* A query that fails without effect: inside submit_one it fails the bundle,
\* outside it ends the tick.
ExAbort ==
  /\ DbError
  /\ \/ exPc \in {"record", "link"} /\ ExGoto("fail")
     \/ exPc \in {"next", "expire", "fail"} /\ ExStop
  /\ UNCHANGED <<bundleVars, late, txVars, chainVars, eventVars, mpVars, vfVars>>

Executor ==
  \/ ExList \/ ExFinish \/ ExAbort
  \/ \E b \in Bundles : ExCheck(b) \/ ExExpire(b) \/ ExSubmitFails(b) \/ ExFail(b)
  \/ \E t \in Txs : ExRecord(t)
  \/ \E b \in Bundles, t \in Txs : ExSend(b, t) \/ ExLink(b, t)

-----------------------------------------------------------------------------
(* Verifier: one tick walks the UNVERIFIED rows it listed, oldest first. *)

VfStop ==
  /\ vfPc' = "idle"
  /\ vfQueue' = {}
  /\ vfVerdict' = "NONE"
  /\ vfBundles' = {}

VfAdvance(t) ==
  /\ vfPc' = "next"
  /\ vfQueue' = vfQueue \ {t}
  /\ vfVerdict' = "NONE"
  /\ vfBundles' = {}

VfGoto(pc) == vfPc' = pc /\ UNCHANGED <<vfQueue, vfVerdict, vfBundles>>

VfList ==
  /\ vfPc = "idle"
  /\ vfPc' = "next"
  /\ vfQueue' = ListUnverified(VerifyLimit)
  /\ UNCHANGED <<vfVerdict, vfBundles, bundleVars, late, txVars, chainVars, eventVars, mpVars, exVars>>

\* Mutant: a transaction not found is taken for a failed one.
VfPollGivesUp(t) ==
  /\ vfPc = "next"
  /\ IsOldest(t, vfQueue)
  /\ vfVerdict' = IF chain[t] = "SUCCESS" THEN "SUCCESS" ELSE "FAILED"
  /\ vfPc' = "links"
  /\ UNCHANGED <<vfQueue, vfBundles, bundleVars, late, txVars, chainVars, eventVars, mpVars, exVars>>

\* get_transaction.  NOT_FOUND and an RPC error both leave the row as it is.
VfPoll(t) ==
  /\ vfPc = "next"
  /\ IsOldest(t, vfQueue)
  /\ \/ /\ chain[t] \in {"SUCCESS", "FAILED"}
        /\ vfVerdict' = chain[t]
        /\ vfPc' = "links"
        /\ UNCHANGED <<vfQueue, vfBundles>>
     \/ /\ chain[t] \in {"WAITING", "DROPPED"} \/ RpcError
        /\ VfAdvance(t)
  /\ UNCHANGED <<bundleVars, late, txVars, chainVars, eventVars, mpVars, exVars>>

VfLoadLinks(t) ==
  /\ vfPc = "links"
  /\ IsOldest(t, vfQueue)
  /\ vfPc' = "settle"
  /\ vfBundles' = BundlesFor(t)
  /\ UNCHANGED <<vfQueue, vfVerdict, bundleVars, late, txVars, chainVars, eventVars, mpVars, exVars>>

\* The transaction row first: VERIFIED, or FAILED.
VfSettleTx(t) ==
  /\ vfPc = "settle"
  /\ IsOldest(t, vfQueue)
  /\ \/ /\ vfVerdict = "SUCCESS"
        /\ txStatus' = [txStatus EXCEPT ![t] = "VERIFIED"]
        /\ VfGoto("announce") \/ (DbError /\ VfStop)
     \/ /\ vfVerdict = "FAILED"
        /\ txStatus' = [txStatus EXCEPT ![t] = "FAILED"]
        /\ VfGoto("fail") \/ (DbError /\ VfStop)
  /\ UNCHANGED <<links, bundleVars, late, chainVars, eventVars, mpVars, exVars>>

VfAnnounceCompleted(t) ==
  /\ vfPc = "announce"
  /\ IsOldest(t, vfQueue)
  /\ completedEvents' = [completedEvents EXCEPT ![t] = @ + 1]
  /\ VfGoto("complete")
  /\ UNCHANGED <<addedEvents, failedEvents, bundleVars, late, txVars, chainVars, mpVars, exVars>>

\* set_status(Completed) on every linked bundle, whatever its status is by now.
VfComplete(b) ==
  /\ vfPc = "complete"
  /\ b \in vfBundles
  /\ SetStatus(b, "COMPLETED")
  /\ \/ vfBundles' = vfBundles \ {b} /\ UNCHANGED <<vfPc, vfQueue, vfVerdict>>
     \/ DbError /\ VfStop
  /\ UNCHANGED <<late, txVars, chainVars, eventVars, mpVars, exVars>>

VfCompleted(t) ==
  /\ vfPc = "complete"
  /\ IsOldest(t, vfQueue)
  /\ vfBundles = {}
  /\ VfAdvance(t)
  /\ UNCHANGED <<bundleVars, late, txVars, chainVars, eventVars, mpVars, exVars>>

VfFail(b) ==
  /\ vfPc = "fail"
  /\ b \in vfBundles
  /\ MarkFailed(b)
  /\ \/ vfBundles' = vfBundles \ {b} /\ UNCHANGED <<vfPc, vfQueue, vfVerdict>>
     \/ DbError /\ VfStop
  /\ UNCHANGED <<late, txVars, chainVars, eventVars, mpVars, exVars>>

VfAnnounceFailed(t) ==
  /\ vfPc = "fail"
  /\ IsOldest(t, vfQueue)
  /\ vfBundles = {}
  /\ failedEvents' = [failedEvents EXCEPT ![t] = @ + 1]
  /\ VfAdvance(t)
  /\ UNCHANGED <<addedEvents, completedEvents, bundleVars, late, txVars, chainVars, mpVars, exVars>>

VfFinish ==
  /\ vfPc = "next"
  /\ vfQueue = {}
  /\ VfStop
  /\ UNCHANGED <<bundleVars, late, txVars, chainVars, eventVars, mpVars, exVars>>

VfAbort ==
  /\ DbError
  /\ vfPc # "idle"
  /\ VfStop
  /\ UNCHANGED <<bundleVars, late, txVars, chainVars, eventVars, mpVars, exVars>>

Verifier ==
  \/ VfList \/ VfFinish \/ VfAbort
  \/ \E t \in Txs : \/ VfPoll(t) \/ VfLoadLinks(t) \/ VfSettleTx(t)
                    \/ VfAnnounceCompleted(t) \/ VfCompleted(t) \/ VfAnnounceFailed(t)
  \/ \E b \in Bundles : VfComplete(b) \/ VfFail(b)

-----------------------------------------------------------------------------
(* The network, and the process as a whole *)

InFlight(t) == exTx = t /\ exPc \in {"record", "link"}

\* A ledger closes on a waiting transaction.  Two transactions of one bundle
\* cannot both succeed: both spend the same UTXOs and create the same fee UTXO.
Land(t) ==
  /\ chain[t] = "WAITING"
  /\ "earlyLedger" \in Faults \/ ~InFlight(t)
  /\ \/ ~Executed(txBundle[t]) /\ chain' = [chain EXCEPT ![t] = "SUCCESS"]
     \/ chain' = [chain EXCEPT ![t] = "FAILED"]
  /\ UNCHANGED <<txBundle, bundleVars, late, txVars, eventVars, mpVars, exVars, vfVars>>

Drop(t) ==
  /\ "dropped" \in Faults
  /\ chain[t] = "WAITING"
  /\ chain' = [chain EXCEPT ![t] = "DROPPED"]
  /\ UNCHANGED <<txBundle, bundleVars, late, txVars, eventVars, mpVars, exVars, vfVars>>

\* The process stops and starts: every tick loses its locals, the tables stay.
Crash ==
  /\ "crash" \in Faults
  /\ MpStop /\ ExStop /\ VfStop
  /\ UNCHANGED <<bundleVars, late, txVars, chainVars, eventVars>>

Network == \E t \in Txs : Land(t) \/ Drop(t)

Next ==
  \/ \E b \in Bundles : Submit(b) \/ TtlPasses(b)
  \/ Mempool \/ Executor \/ Verifier
  \/ Network \/ Crash

Spec == Init /\ [][Next]_vars

\* Every pipeline is a task of its own on an interval timer, and the network
\* closes ledgers: each goes on taking steps.  Clients and the clock need not.
Fairness ==
  /\ WF_vars(Mempool)
  /\ WF_vars(Executor)
  /\ WF_vars(Verifier)
  /\ \A t \in Txs : WF_vars(Land(t))

FairSpec == Spec /\ Fairness

-----------------------------------------------------------------------------
(* Properties *)

\* However the mempool's stale count of the PROCESSING rows interleaves with
\* the other pipelines, and whatever fails, at most SlotCapacity bundles hold a
\* slot (mempool.rs run_tick, "while live PROCESSING slot count < capacity").
SlotCapacityRespected == Cardinality(WithStatus("PROCESSING")) <= SlotCapacity

SeenExecuted(b) == \E t \in TransactionsFor(b) :
  chain[t] = "SUCCESS" /\ txBundle[t] = b /\ txStatus[t] = "VERIFIED"

\* COMPLETED is never said of a bundle unless a transaction linked to it
\* carried its operations and succeeded on the network (verifier.rs).
CompletedWasExecuted == \A b \in WithStatus("COMPLETED") : SeenExecuted(b)

\* The event feed says each thing at most once, restarts and failed queries
\* included, and says nothing false: one bundle_added per bundle, one verdict
\* per transaction, the verdict of the network.
FeedSaysOnceAndTruly ==
  /\ \A b \in Bundles : addedEvents[b] <= 1
  /\ \A t \in Txs :
       /\ completedEvents[t] + failedEvents[t] <= 1
       /\ completedEvents[t] = 1 => chain[t] = "SUCCESS" /\ txStatus[t] = "VERIFIED"
       /\ failedEvents[t] = 1 => chain[t] = "FAILED" /\ txStatus[t] = "FAILED"

\* A query full of rows younger than c was waiting when the tick listed, so the
\* newest-first LIMIT cut c off.
CutOff(c) == Cardinality({d \in mpWaiting : d > c}) >= PendingLimit

\* A promotion takes the oldest PENDING bundle (mempool.rs:5-6), and passes an
\* older one over only where the LIMIT of the PENDING query had cut it off:
\* neither a row submitted nor one expired while the tick runs changes that.
PromotesOldest ==
  [][\A b \in Bundles : status[b] = "PENDING" /\ status'[b] = "PROCESSING"
       => \A c \in WithStatus("PENDING") : c < b => CutOff(c)]_vars

\* A terminal status is never overwritten (repo.rs mark_failed; the verifier's
\* and the executor's own writes are unconditional).
TerminalIsFinal ==
  [][\A b \in Bundles : status[b] \in Terminal => status'[b] = status[b]]_vars

\* One bundle, one transaction: nothing is submitted to the network twice.
SubmittedOnce ==
  \A t, u \in Txs : t # u /\ txBundle[t] = txBundle[u] => txBundle[t] = NoBundle

\* A bundle reported EXPIRED was never handed to the network.
ExpiredNeverSubmitted ==
  \A b \in WithStatus("EXPIRED"), t \in Txs : txBundle[t] # b

\* The verifier will write b when it has written what it holds.
AboutToWrite(b, t) ==
  /\ vfPc \in {"settle", "announce", "complete", "fail"}
  /\ IsOldest(t, vfQueue)
  /\ b \in vfBundles

\* The verifier has read the links of t, which it reads once, and is not about
\* to write the bundle b that t carries: nothing lists t again, the executor
\* skips a linked bundle, and b keeps its slot for good.
Stranded(b, t) ==
  /\ status[b] = "PROCESSING"
  /\ <<b, t>> \in links
  /\ txStatus[t] # "UNVERIFIED" \/ (vfPc = "settle" /\ IsOldest(t, vfQueue))
  /\ ~AboutToWrite(b, t)

\* Nothing but two windows strands a bundle, whatever else fails: a ledger that
\* closes, and a verifier that reads, between the inserts of the transaction row
\* and of its link (executor.rs:289-291), and a verifier stopped by a restart or
\* a failed query between reading the links and its last write (verifier.rs:93-169).
StrandedInWindowsOnly ==
  [][\A b \in Bundles, t \in Txs : Stranded(b, t)' =>
       \/ Stranded(b, t)
       \/ <<b, t>> \notin links /\ chain[t] \in {"SUCCESS", "FAILED"}
       \/ AboutToWrite(b, t) /\ vfPc' = "idle"]_vars

\* What the network executed is accounted for: its bundle is waiting to be
\* verified or COMPLETED, never FAILED, EXPIRED or PENDING (verifier.rs keeps
\* polling on NOT_FOUND, executor.rs skips a bundle that has a transaction).
ExecutedIsTracked ==
  \A b \in Bundles : Executed(b) => status[b] \in {"PROCESSING", "COMPLETED"}

\* Every bundle a client was told is PENDING reaches a terminal status.
EveryBundleSettles ==
  \A b \in Bundles : status[b] = "PENDING" ~> status[b] \in Terminal

\* "any PENDING bundle whose ttl has passed is marked EXPIRED" (mempool.rs:4),
\* or had been listed before it passed; it does not stay PENDING, whatever the
\* network does to the bundles that hold the slots.
LatePendingIsSwept ==
  \A b \in Bundles : (status[b] = "PENDING" /\ b \in late) ~> status[b] # "PENDING"

\* The pipelines implement the lifecycle a client is promised.
Lifecycle == INSTANCE BundleLifecycle
               WITH executed <- {b \in Bundles : Executed(b)}
ImplementsLifecycle == Lifecycle!Spec

-----------------------------------------------------------------------------
(* The inductive invariant behind the safety properties: what each pipeline *)
(* may rely on about the rows it read before the others took their steps.   *)

Left(b)   == status[b] \notin {"ABSENT", "PENDING"}
Linked(b) == TransactionsFor(b) # {}
Settling  == vfPc \in {"announce", "complete", "fail"}

\* Nobody else touches a PENDING row, and the slots counted free stay free.
MempoolInv ==
  /\ \A b \in mpExpired \cup mpFresh : status[b] = "PENDING"
  /\ mpExpired \cap mpFresh = {}
  /\ mpPc = "promote" =>
       Cardinality(WithStatus("PROCESSING")) + mpFree <= SlotCapacity

\* Only promoted bundles are sent, and a settled row repeats the network.
SentInv == \A t \in Txs :
  /\ chain[t] = "UNSENT" => txStatus[t] = "ABSENT"
  /\ chain[t] # "UNSENT" => txBundle[t] \in Bundles /\ Left(txBundle[t])
  /\ txStatus[t] = "VERIFIED" => chain[t] = "SUCCESS"
  /\ txStatus[t] = "FAILED" => chain[t] = "FAILED"

LinkInv == \A b \in Bundles, t \in Txs : <<b, t>> \in links =>
  /\ txBundle[t] = b
  /\ txStatus[t] # "ABSENT"
  /\ status[b] \in {"PROCESSING", "COMPLETED", "FAILED"}

\* A listed row is still PROCESSING unless it has got a transaction, and the
\* transaction being stored is the one of the bundle at hand.
ExecutorInv ==
  /\ \A b \in exQueue : \/ status[b] = "PROCESSING"
                        \/ status[b] \in {"COMPLETED", "FAILED"} /\ Linked(b)
  /\ exPc \in {"expire", "submit", "record"} =>
       \A b \in Bundles : IsNewest(b, exQueue) => ~Linked(b)
  /\ exPc \in {"record", "link"} =>
       exTx \in Txs /\ chain[exTx] # "UNSENT" /\ IsNewest(txBundle[exTx], exQueue)
  /\ exPc = "record" => txStatus[exTx] = "ABSENT"
  /\ exPc = "link" => txStatus[exTx] # "ABSENT"

\* The verdict at hand is the network's, and the bundles it is written to are
\* linked to the transaction it is about.
VerifierInv ==
  /\ \A t \in vfQueue : \/ txStatus[t] = "UNVERIFIED"
                        \/ Settling /\ IsOldest(t, vfQueue)
  /\ vfPc \in {"links", "settle"} =>
       \A t \in vfQueue : IsOldest(t, vfQueue) => chain[t] = vfVerdict
  /\ vfPc = "settle" => \A t \in vfQueue : IsOldest(t, vfQueue) =>
                           \A b \in vfBundles : <<b, t>> \in links
  /\ vfPc \in {"announce", "complete"} => \A b \in vfBundles : SeenExecuted(b)
  /\ vfPc = "fail" => \A b \in vfBundles : Linked(b)
  /\ vfPc \in {"idle", "next", "links"} => vfBundles = {}
  /\ vfPc \in {"announce", "complete", "fail"} =>
       \A t \in vfQueue : IsOldest(t, vfQueue) =>
         txStatus[t] = IF vfPc = "fail" THEN "FAILED" ELSE "VERIFIED"

\* No event before the write it follows.
FeedInv ==
  /\ \A b \in Bundles : ~Left(b) => addedEvents[b] = 0
  /\ \A t \in Txs : txStatus[t] \in {"ABSENT", "UNVERIFIED"}
                      => completedEvents[t] = 0 /\ failedEvents[t] = 0
  /\ vfPc \in {"announce", "fail"} => \A t \in vfQueue : IsOldest(t, vfQueue)
                      => completedEvents[t] = 0 /\ failedEvents[t] = 0

\* Rows arrive in created_at order, so a listing holds every PENDING row older than
\* one it still holds, but those the LIMIT cut off; the sweep is over before it promotes.
QueueInv ==
  /\ \A b, c \in Bundles : c < b /\ status[c] = "ABSENT" => status[b] = "ABSENT"
  /\ mpPc = "promote" => mpExpired = {}
  /\ \A b \in mpExpired \cup mpFresh, c \in WithStatus("PENDING") :
       c < b => c \in mpExpired \cup mpFresh \/ CutOff(c)

IInv ==
  /\ TypeOK
  /\ SlotCapacityRespected
  /\ CompletedWasExecuted
  /\ FeedSaysOnceAndTruly
  /\ MempoolInv
  /\ SentInv
  /\ LinkInv
  /\ ExecutorInv
  /\ VerifierInv
  /\ FeedInv
  /\ QueueInv

\* What the pipelines may rely on besides, where fewer things fail.

Sent(b) == \E t \in Txs : txBundle[t] = b

AtHand(b) == IsNewest(b, exQueue)

\* What the verifier has written to the transaction it is settling.
Outcome == IF vfPc = "fail" THEN "FAILED" ELSE "VERIFIED"

\* Where no query fails, a bundle has one link, the bundle the executor gives up
\* has none, and the verifier's are still PROCESSING when it writes them.
LinkOnceInv ==
  /\ \A b \in Bundles : \A t, u \in TransactionsFor(b) : t = u
  /\ \A b \in Bundles : \A t \in TransactionsFor(b) :
       txStatus[t] = "UNVERIFIED" => status[b] = "PROCESSING"
  /\ exPc \in {"link", "fail"} => \A b \in Bundles : AtHand(b) => ~Linked(b)
  /\ Settling => \A b \in vfBundles :
       status[b] = "PROCESSING" /\ \E t \in TransactionsFor(b) : txStatus[t] = Outcome

\* Without restarts either, a bundle that was sent has its link, or is at hand.
SentOnceInv ==
  /\ SubmittedOnce
  /\ ExpiredNeverSubmitted
  /\ \A t \in Txs : chain[t] = "UNSENT" => txBundle[t] = NoBundle
  /\ \A b \in WithStatus("PROCESSING") :
       Sent(b) => Linked(b) \/ (exPc \in {"record", "link", "fail"} /\ AtHand(b))

\* If every reply arrives, no bundle is given up that the network may execute.
TrackInv ==
  /\ exPc = "fail" => \A b \in Bundles : AtHand(b) => ~Sent(b)
  /\ \A t \in Txs : chain[t] \in {"WAITING", "SUCCESS"} =>
       status[txBundle[t]] \in {"PROCESSING", "COMPLETED"}

Without(kinds) == Faults \cap kinds = {}

NetworkInv ==
  /\ Without({"db"}) => LinkOnceInv
  /\ Without({"db", "crash"}) => SentOnceInv
  /\ Without({"db", "crash", "lostReply"}) => TrackInv

-----------------------------------------------------------------------------
(* What a comment of the code says, and the code does not do *)

\* verifier.rs:4 "SUCCESS -> mark VERIFIED, ..., mark each COMPLETED", of the
\* bundles linked to the transaction.
VerifiedBundleCompletes ==
  \A b \in Bundles, t \in Txs :
    (<<b, t>> \in links /\ txStatus[t] = "VERIFIED") ~> status[b] = "COMPLETED"
=============================================================================
