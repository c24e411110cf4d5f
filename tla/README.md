# Verification of the provider stack

TLA+ models of the Moonlight provider stack (`src/`), checked with TLC on small
instances and proved with TLAPS for every instance. Line numbers below are those
of the repository; paths under `crates/` and `frontend/` are relative to `src/`.

## 1. The system

One process (`crates/api/src/lib.rs`) serves an HTTP API, a WebSocket event feed
and five background tasks over one Postgres database, on behalf of one *privacy
provider* (PP) whose key comes from the environment. It talks to a Soroban RPC
server and to the HTTP API of a *council*. No query transaction spans two
statements and no lock is shared between two tasks: every component meets the
others in the tables, one statement at a time.

| component | state | operations | meets |
|---|---|---|---|
| submission (`routes/bundles.rs`, `bundle.rs`) | rows of `operations_bundles` | `post_submit`: gates, fee, insert | entities, council rows, channel states, RPC balances |
| mempool (`pipelines/mempool.rs`) | – (locals of a tick) | sweep past-ttl PENDING rows, promote into free slots | bundle table, event feed |
| executor (`pipelines/executor.rs`) | – | submit PROCESSING bundles, record and link the transaction | bundle, transaction and link tables, RPC |
| verifier (`pipelines/verifier.rs`) | – | poll UNVERIFIED transactions, settle their bundles | the same tables, RPC, event feed |
| council watcher (`pipelines/event_watcher.rs`, `membership_convergence.rs`) | in-memory cursor per council | replay contract events, converge by query | `council_memberships`, `channel_states`, RPC, council HTTP |
| council routes (`routes/council.rs`) | – | discover, join, sync | council HTTP, `council_memberships` |
| event broadcaster and sessions (`events.rs`, `routes/events.rs`) | bounded channel, label | send, subscribe, forward, ping | WebSocket clients |
| authentication (`auth/sep10.rs`, `auth/sep43.rs`, `auth/jwt.rs`, `routes/auth_*.rs`, `routes/entities.rs`) | nonce map, challenge and session tables | issue, consume, mint, verify, register | entity tables |
| holding keys (`holding.rs`, `routes/holding.rs`, `sdk/src/channel.rs`) | – (derived) | scan for held UTXOs, hand out targets | RPC balances, submission |
| MLXDR and fee (`mlxdr.rs`) | – (pure) | decode, classify, aggregate, fee | submission, executor |
| metrics (`pipelines/metrics.rs`) | `mempool_metrics` | one snapshot per tick | bundle table |
| operator routes, health, SPA | – | read-only projections | all tables |
| browser client (`frontend/src/lib`) | UTXO reservations, socket | reserve, select, reconnect | HTTP API, event feed |

What makes each component correct, and what is hard about it:

* **Pipelines.** A bundle holds one of `SlotCapacity` slots while PROCESSING,
  is sent to the network at most once, is reported COMPLETED only if executed,
  and settles. Hard: counts, lists and rows are read before awaits and used
  after them; sending, recording and linking a transaction are three steps of
  which each can fail with or without effect; the process can stop between any
  two; the network answers late, wrongly or never.
* **Submission.** What is admitted can execute as the executor builds it, passed
  the gates, and moves no funds held for somebody else. Hard: approval, council
  rows, channel state, ledger and balances are read one after another while
  registrations, the council watcher and other bundles change them, and the
  transaction is built later, by another task, from what the row says.
* **Council watcher.** The stored status and channel state should follow the
  chain's last event, across replays, retention gaps, restarts and council
  queries that overtake events.
* **Event feed.** A subscriber that falls behind is told before it goes on; a
  silent one is closed and one that answers is not. Hard: one loop serves
  heartbeat, ring and client, and every send may wait.
* **Authentication.** A nonce is good once, for its own key, until its ttl; the
  operator's routes answer to the operator's recent signature. Hard: one store
  with a limit serves two sign-ins, and restarts empty it.
* **Registration.** A wallet ends approved and complete however many attempts
  overlap or fail halfway.
* **Holding keys.** No held UTXO lies beyond the scan; a target was never used.
  Hard: nothing is stored, and a scan is several simulations at several ledgers.
* **MLXDR and fee.** Three readers look at the same slots at different times and
  refuse different things; the fee must balance what the contract checks.

## 2. Modules

| module | models | kind |
|---|---|---|
| `BundleLifecycle` | what a client is promised about one bundle after another: a status each, and what the network executed | abstract specification |
| `BundlePipeline` | mempool, executor, verifier, their three tables, the network, crashes | detailed specification, properties, inductive invariant |
| `BundlePipelineProofs` | the inductive invariants, the safety theorems, promotion order, the refinement | proofs |
| `Mlxdr` | slots, their readers, classification, the fee, the channel operation | operators |
| `ChannelTransaction` | what `submit_one` makes of stored slots, and what the contract demands of it | operators over `Mlxdr` |
| `EntityTable` | the `entities` table and its queries | state shared by the next two |
| `BundleSubmission` | `post_submit`, the gates' writers, the executor's construction, the channel contract | specification, composes the three above |
| `WalletAuth` | nonce store, dashboard sign-in, registration, SEP-10 sign-in, tokens, the extractor | specification over `EntityTable` |
| `Holding` | the scans of `get_targets` and `get_held` against payers and the owner | specification |
| `EventFeed` | the broadcast ring and the WebSocket sessions | specification with fairness |
| `CouncilWatcher` | the event watcher, both convergences, join and sync, their two tables, the councils and the RPC's retention, crashes | specification, properties |
| `NaturalOrder` | least and greatest elements, the set form of induction, finite sets listed in order and summed | lemmas used by the proofs |
| `EntityTableProofs` | what the queries of the table keep | lemmas used by the next two |
| `WalletAuthProofs`, `BundleSubmissionProofs`, `HoldingProofs`, `EventFeedProofs`, `CouncilWatcherProofs` | the inductive invariant and the theorems of the component in the name | proofs |
| `MCBundlePipeline`, `MCBundleSubmission`, `MCWalletAuth`, `MCHolding`, `MCEventFeed`, `MCCouncilWatcher` | constants, bodies posted, sets of faults, symmetry | instances for TLC |

How they meet: `BundleSubmission` ends where `BundlePipeline` begins, at the row
(`Persist` is `Submit` of the pipelines), and spells out the step that
`BundlePipeline` keeps as one that may fail (`ExSubmitFails`, `ExSend`).
`CouncilWatcher` is what writes the rows behind `memberships` and `disabled`;
`BundleSubmission` lets them change at any time to any value the watcher stores,
which is more than the watcher does. `WalletAuth` and `BundleSubmission` extend the same
`EntityTable`: registration statement by statement in the first, as a writer of
the email in the second. `Holding` hands out the keys whose spends
`BundleSubmission` signs.

### BundlePipeline and the code

* `status`, `retryCount`, `late` are the columns `status`, `retry_count` and
  (compared with the clock) `ttl` of `operations_bundles`. Bundles are numbered
  in `created_at` order. `txStatus` and `links` are `transactions` and
  `bundles_transactions`. `chain` and `txBundle` are the network's side of a
  transaction; `addedEvents`, `completedEvents` and `failedEvents` count the
  events handed to the broadcaster.
* `mpPc`, `mpExpired`, `mpFresh`, `mpFree` are the locals of `mempool::run_tick`
  (`expired`, `fresh`, `free_slots`; `mpWaiting` is a history variable: where the
  LIMIT cut the listing short, all the rows that were PENDING, empty otherwise), `exPc`, `exQueue`, `exTx` those of
  `executor::run_tick` and `submit_one` (`processing`, the hash returned),
  `vfPc`, `vfQueue`, `vfVerdict`, `vfBundles` those of `verifier::run_tick`
  (`unverified`, `resp.status`, `bundle_ids`). The `Mutex<bool>` of each loop
  only keeps a pipeline from overlapping itself, which one program counter says.
* An action is one SQL statement, one RPC call, or the computation between two:

| code | action |
|---|---|
| mempool.rs 62-64, 65-67, 70-80, 82-122, end | `MpList`, `MpExpire`, `MpCount`, `MpPromote`, `MpFinish` |
| executor.rs 92-97, 110-118, 120-123, 162-278, 281, 289, 291, 125-130 | `ExList`, `ExCheck`, `ExExpire`, `ExSubmitFails`, `ExSend`, `ExRecord`, `ExLink`, `ExFail` |
| verifier.rs 83, 85-92, 93, 96 and 162, 111, 119, 166, 177 | `VfList`, `VfPoll`, `VfLoadLinks`, `VfSettleTx`, `VfAnnounceCompleted`, `VfComplete`, `VfFail`, `VfAnnounceFailed` |
| `?` on a failed query | `MpAbort`, `ExAbort`, `VfAbort`, and the `DbError` disjunct of the writes |
| process stops | `Crash` |

* A query that fails *without* effect is `…Abort`; one that fails *after* the
  database applied it is the `DbError` disjunct of its own action. A failed
  query inside `submit_one` fails the bundle (its caller turns every error into
  `mark_failed`); elsewhere it ends the tick.
* Two actions stand for more than one such step. `MpPromote` is the write and the
  event sent after it: that the event is lost is its `DbError` disjunct. `ExSend` is
  everything from `get_account` to `send_transaction`, which touches no table: what
  fails before the send is `ExSubmitFails`.
* The order of a tick is the code's: the executor walks its list newest first
  (`ORDER BY created_at DESC`), the verifier oldest first, the mempool expires
  in list order and promotes oldest first.
* The network (external): the PP signs with one account whose sequence number
  is read anew per bundle, so the network admits one waiting transaction of it
  at a time (`Admits`); the reply's status is ignored (executor.rs 281-290), so
  a transaction that was not admitted is recorded like any other and never
  found (`DROPPED`). Two transactions of one bundle cannot both succeed: they
  spend the same UTXOs and create the same fee UTXO (executor.rs 191), and the
  simulation of the second fails once the first has executed.
* `Faults` selects what may go wrong in an instance: `rpc`, `lostReply`,
  `dropped`, `earlyLedger`, `db`, `summary`, `crash`. The theorems hold for
  every subset.

### CouncilWatcher and the code

* `memberships` is `council_memberships` in `created_at` order, `channelStates`
  the `is_disabled` column of `channel_states` (`UNKNOWN`: no row). `cursors` is
  the map of the same name in `run`; a crash loses it.
* `log`, `first` and `asked` are the world's side (external): the events of a
  council's contract, one a ledger, the oldest ledger the RPC server retains,
  and the undecided join requests. A council has one channel. What it answers
  over HTTP is what its contract's last event says (`CouncilSays`,
  `ChannelSays`). Events are forgotten only where retention, which is days, can
  pass unread: while the process is down, while `getEvents` keeps failing, and
  before there is a row.
* `wPc`, `wQueue`, `wFrom`, `wPage` are the watcher's place in `run` and
  `run_tick` and the locals `memberships`, `pagination`, `response`; `chQueue`,
  `chAnswer` those of `converge_channel_states`; `mbBusy`, `mbQueue`, `mbAnswer`
  those of `converge_membership_statuses`, once for boot and once for an
  operator's sync; `joining` is the request of `post_join` between the council's
  answer and the insert.

| code | action |
|---|---|
| event_watcher.rs 51 and 150 with 193-207, 214-229, 236, 239 | `BeginChannels`, `AskChannel`, `StoreChannel`, `EndChannels` |
| membership_convergence.rs 40-57, 58-91, 72 and 94, 99 | `BeginMemberships`, `AskMembership`, `StoreMembership`, `EndMemberships` |
| event_watcher.rs 113, 116-126, 136-152 and 162-168, 154-161, 170-179, 180-182, 184 | `Tick`, `NextCouncil`, `Fetch`, `Refetch`, `ApplyEvent`, `EndPage`, `EndTick` |
| council.rs 193-210, 230-238 | `Join`, `InsertRow` |
| process stops, starts | `Crash`, `Start` |

* Where the code uses `?`, a failure ends the tick or the pass (`AbortTick`, the
  `db` disjunct of `StoreMembership`); where it uses `.ok()` or `continue`, the
  next row is taken (`StoreChannel`, `AskChannel`, `AskMembership`,
  `SkipCouncil`). A write that fails may have been applied.
* Not in the model: an event's ledger stamp, which nothing reads; the broadcast
  of `channel_provider_added`; jurisdictions, labels and names of a join.

### BundleSubmission and the code

* `pc` is the await `post_submit` is at and `request` what its locals hold:
  `approval` (`name`), `operations_mlxdr` (`ops`, signed in place), the ledger of
  the held signatures, `spend_balances`. After `Persist` only what the row holds
  is left, and the two fields the properties compare with. What a request *could*
  have read while it ran is kept as history (`names`, `serving`, `enabled`).
* `memberships` and `disabled` are the columns the gates read, `balance` the
  channel's UTXOs (-1 never existed, 0 spent), `ledger` the latest ledger,
  `builtAt` the ledger at which the executor built the row's transaction.

| code | action |
|---|---|
| bundles.rs 40-50, 50-55, 55-71 | `Begin`, `ReadApproval`, `RefuseUnapproved` |
| bundles.rs 80-176 (one query, then checks of the body) | `ReadMemberships` |
| bundles.rs 178-204, 224-236, 239-270, 293-316 | `SignHeldSpends`, `ReadChannel`, `ReadBalances`, `Persist` |
| the checks between two awaits | `ClassifyStage`, `BalanceStage`, `FeeStage`: the await they lead to |
| `?` on a query or a call, or the process stops | `Abandon` |
| executor.rs 162-277 | `Build`, `Assemble` |
| entities.rs 90-120, `CouncilMembershipRepo::set_status`, `ChannelStateRepo::apply_state` | `Register`, `SetMembership`, `SetChannel` |

* A slot is read by four functions that differ in what they refuse:
  `classify_bundle` decodes everything, `unsigned_spend_utxo` looks into spends,
  `extract_user_signed_entries` passes over a wrapper it does not know and fails
  on one that is not XDR, `extract_user_spend_signatures` passes over. `Slot`
  has one field for each of the ways they tell apart.
* Classification, the entries and the signatures of a body are lists in slot order:
  `Kept` names the slots that stay, and `InOrder` is the one way to list a finite set
  of numbers in order. The same operator sorts the map of signatures (`ByUtxo`).
* The contract is external and is what the comments of executor.rs and mlxdr.rs
  say of it: the sums balance, spent UTXOs are funded and created ones new, every
  spend and the provider have signed in a map in key order, every account that
  deposits has an entry of its own whose nonce is in the footprint, nothing is
  past its expiration.

### WalletAuth and the code

`pending` is `NonceStore.inner` (the mutex makes `issue` and `consume` one step
each); `accounts`, `walletUsers` and `entities` are tables; `token` and
`envelope` are what wallets hold. `post_register` is one action a statement
(`Post` with the consumed nonce, then `Find`, `Approve` or `Create`,
`ListAccounts`, `NewAccount`, `FindWalletUser`), the dashboard handlers have no
await and are one action each, `auth_stellar.rs` has one (`StellarVerify`,
`StellarRecord`, `StellarMint`). `Restart` drops the store and the requests.

### Holding and the code

`scanned` is the vector `scan_holding` fills, one batch a step, each batch read
at one ledger; `result` the indices an answer names. The email and the channel
are fixed: another email has other keys. `before` is history: what was in use
when the request began.

### EventFeed and the code

A cursor into the ring (`next`), the timer (`beat`, with `Skip`),
`last_inbound_seen` (`seen`) and the frame whose send is being awaited (`hand`)
are a session. `select!` is `biased`: `Heartbeat`, `Receive`, `Inbound` are
enabled in that order of preference. A ping is followed by the idle check in the
same arm (`Write`). `WriteFails` is a send on a closed connection; the result of
the lag notice alone is ignored. The outbox is the bounded channel of
`actix-ws`; a client, or the network for it, takes from it at its own pace.

## 3. Runs

Bounds of the pipelines: `MaxBundles`, `MaxTxs` bound the rows, `SlotCapacity` is
the code's configuration (default 100), `PendingLimit` and `VerifyLimit` stand
for the LIMITs 256 and 64. Two bundles and one slot are enough for every pair of
pipelines to disagree about a row, two or three transactions for a bundle to be
sent twice; three bundles are used where two must queue behind one.

| run | instance | shows |
|---|---|---|
| `Pipeline_faults` | 2 bundles, 2 txs, 1 slot; db, crash, earlyLedger | `SlotCapacityRespected`, `CompletedWasExecuted`, `FeedSaysOnceAndTruly`, `IInv` hold under failed queries and restarts; `StrandedInWindowsOnly`: what leaves a bundle PROCESSING behind a transaction nobody lists again; and the pipelines implement `BundleLifecycle` |
| `Pipeline_network` | 2, 3, 2, fair; rpc, lostReply, dropped, summary | `SubmittedOnce`, `ExpiredNeverSubmitted`, `LatePendingIsSwept`, `TerminalIsFinal` on an unreliable network, and the invariant `NetworkInv` of their proofs |
| `Pipeline_settles` | 3, 3, 1, fair; a PENDING query of 2; no fault | `EveryBundleSettles`, `ExecutedIsTracked`, and `PromotesOldest` with more bundles waiting than one query returns |
| `Submission_gates` | 2 requests, 1 wallet, 2 emails, 1 council row, 2 ledgers; eleven bodies, and a held spend against each of them | `TypeOK`, `SubmissionInv`; `BuiltIsExecutable`: what was admitted, and whose UTXOs and signatures are still good, the contract accepts as it is built; `HeldFundsStayWithEmail`; `GatesHonoured` |
| `Holding_scan` | 2 payers and the owner, 2 batches of 2 keys, up to 3 asked for | `HoldingInv`, `FundedIsListed`, `ResolvesUpToCap`, `TargetsWereNew` |
| `Auth_wallets` | operator and a wallet, 3 nonces, a store of 2, 2 registrations, 1 SEP-10 request, 4 instants | `AuthInv`, `NonceUsedOnce`, `LiveNonceKept`, `ApprovedStays`, `RegisteredIsComplete`, `OperatorSignedIn` |
| `Feed_sessions` | 1 session, ring of 2, outbox of 2, 3 events, 8 instants of fifteen seconds, fair | `FeedInv`, `GapsAnnounced`, `IdledWasSlack`, `SilentIsClosed`, `EventuallyServed` |
| `Watcher_follows` | 1 council, 4 events in pages of 2, 1 crash; rpc, db, council, downtime, outage, oldHistory | `MembershipFollows`, `ChannelFollows`: no event below the cursor is lost on its way to the tables |
| `Watcher_retention` | 1 council, 2 events, 2 rows, 1 crash; rpc, downtime, outage, sync, others, rejoin | `ChannelCaughtUp`: what fell out of retention is learnt by convergence |
| `Watcher_settles` | 2 councils, 2 events each, 1 crash, fair; downtime | `MembershipCaughtUp`, `EventuallyFollows`, and the invariant `WatcherInv` of the proofs |
| `Pipeline_verified` | as below; a violation | finding 1 |
| `Submission_mixed` | as below; a violation | finding 2 |

The type invariant of a module is a conjunct of its inductive invariant
(`AuthInv`, `FeedInv`, `HoldingInv`, `IInv`, `WatcherInv`) and is checked there;
that of `BundleSubmission` follows from `SubmissionInv`, but is not part of it, and
is checked beside it.

Which faults a property survives is part of what it says. Of the pipelines:
`ExecutedIsTracked` does not survive a lost reply, a failed insert or a crash
after the send (the bundle becomes FAILED, EXPIRED or is sent again, and
executes); `TerminalIsFinal` does not survive a failed link query (FAILED is
then overwritten by COMPLETED, which `BundleLifecycle` allows and
`CompletedWasExecuted` justifies); `EveryBundleSettles` needs a single slot: with two, the second transaction
of a tick may not be admitted, is recorded all the same, and its bundle stays
PROCESSING for good.

Two properties of the pipelines survive every fault because they say what the code
does where the simple promise fails. A bundle can be left PROCESSING behind a
settled transaction for good: `StrandedInWindowsOnly` says that this takes a link
inserted after the verifier read the links of a transaction the network had decided
(finding 1), or a verifier stopped, by a restart or a failed query, between
reading the links and its last write, and that nothing else does it. And the mempool
does not always promote the oldest bundle, because its query returns the newest 256:
`PromotesOldest` says that a promotion passes an older PENDING bundle over only if
256 younger ones were waiting when the tick listed. With `PendingLimit` 2 and three
bundles the run reaches such a promotion.

Of the watcher: `ChannelCaughtUp` does not survive a silent council or a failed
write during a convergence, whose errors are ignored, nor history lost before
the join, since the first tick for a new council converges nothing.
`MembershipCaughtUp` does not survive an outage (the recovery converges the
channels only) nor a second row for a council (one inserted after the watcher
moved past the admission stays PENDING). `MembershipFollows` speaks of the last
event below the cursor: a page that was half applied, and a council's answer,
may run ahead of it. Two or more events a council are enough for an admission to
be undone, four in pages of two for a page to fail while a later one decides;
one crash is enough for a replay over converged state; two councils share a
tick, so that an abort for one can starve the other.

Of submission: two requests are enough for one to spend, or create, what the
other was admitted with; the bodies are two deposits of different accounts, a
send whose spends are not in key order, a withdrawal, a held spend beside one of
the client's own, and one body for each check that refuses. Two ledgers let a
client's signature expire, and ask for the provider's one ledger after it was
made. Of the wallets: a store of two is full with the operator's nonce and one
more; the operator's own wallet is the one that registers and connects, which is
where a token of the other kind would tell. Of the holding keys: two batches let
a payer leave a whole batch unused below a funded key, and reach the cap. Of the
feed: a ring of two is overrun while a frame waits for room in an outbox of two,
and eight instants are the idle timeout twice. Its clock advances only when no
session can run: a session is taken not to be starved of processor time, which
is the only assumption about speed, and none is made about the client.

Two runs end in a violation and are listed as findings:

1. `Pipeline_verified`. verifier.rs 4 says "mark each COMPLETED"; a verifier tick
   between the insert of the transaction (executor.rs 289) and of its link (291)
   completes nothing, and never comes back.
2. `Submission_mixed`. executor.rs 188-190 says the fee is the excess of inflows,
   spends included, "so the bundle balances"; `calculate_fee` (mlxdr.rs 710-718)
   leaves spends out as soon as anything is deposited. A bundle with both is
   admitted and the transaction built of it does not balance.

Further disagreements between a comment and the code, met while modelling and
not made runs: executor.rs 116-117 "A bundle past its TTL must never execute"
(the ttl is compared before five RPC calls, and not again); event_watcher.rs 4-5
"whose payload references this stack's PP" (the topic alone decides);
event_watcher.rs 56-58, a removal "is honoured on boot" (the replay that follows
applies the old admission over it until it reaches the removal); a sync may
store the answer it got before the watcher applied a removal, against bundles.rs
73-74; core/src/holding.rs 16-18 "append-only" (a payer may fund its second
target and not its first; `FundedIsListed` says why no funds are lost by it);
routes/events.rs 92, where a session that waited in a send checks for idleness
before it reads the pong that has arrived (`IdledWasSlack` says what is left).

### Fairness

`FairSpec` adds weak fairness of each pipeline as a whole (each is a task on an
interval timer, `pipelines/mod.rs` 24-33, and a tick always runs to its end) and
of `Land(t)` for each transaction (ledgers close). Nothing is assumed of
clients, of the clock, of faults or of which statement a pipeline runs next:
that is determined by its program counter.

For the watcher, `FairSpec` adds weak fairness of the watcher as a whole (a task
on an interval timer whose next statement its program counter determines), of
the handlers that have begun (an operator's sync, the insert of a join), and of
`Start` (a process that died is started again). Councils need not decide,
operators need not ask, and crashes are bounded by `MaxCrashes`.

For the feed, `Spec` has weak fairness of each session's `Run`: tokio polls a
task that has something to do. Sends, clients and time owe nothing.
`BundleSubmission`, `WalletAuth` and `Holding` state safety only: a request may
be abandoned at any await, and the code promises no answer.

Deadlock is checked for the pipelines, the watcher and the holding keys, which
never stop. It is not for the submission, the sign-ins and the feed, whose
requests, nonces or clock are used up at the bound of the exploration.

## 4. Proofs

Every theorem is about every value of the constants. The assumptions on them
are named in the module that declares them and say what the code fixes:
capacities, intervals and lifetimes are natural numbers, not zero where the code
has a constant that is not; a scan reads whole batches, and a payer may ask for
at most one; the entity table has a name that is no email. Bounds on the
exploration (`MaxBundles`, `MaxClock`, ...) may be any natural number. Where a
theorem needs more than that, it says so after `ASSUME`, and the hypothesis is
part of what the code can be relied on for.

| module | theorem | states |
|---|---|---|
| `BundlePipelineProofs` | `TypeCorrect`, `InvariantHolds` | `TypeOK`, `IInv`, for every set of faults |
| | `CapacityHolds`, `CompletedHolds`, `FeedHolds` | `SlotCapacityRespected`, `CompletedWasExecuted`, `FeedSaysOnceAndTruly`, for every set of faults |
| | `RefinesLifecycle` | the pipelines implement `BundleLifecycle` |
| | `OldestFirst` | `PromotesOldest`, for every set of faults and every limit |
| | `StrandsOnlyThere` | `StrandedInWindowsOnly`, for every set of faults |
| | `NetworkInvariantHolds` | `NetworkInv`, whose parts are conditional on the faults |
| | `FinalStays` | `TerminalIsFinal`, without `db` |
| | `SentOnce`, `ExpiredUnsent` | `SubmittedOnce`, `ExpiredNeverSubmitted`, without `db`, `crash` |
| | `ExecutedTracked` | `ExecutedIsTracked`, without `db`, `crash`, `lostReply` |
| `WalletAuthProofs` | `TypeCorrect`, `AuthInvariant` | `TypeOK`, `AuthInv` |
| | `NonceAcceptedOnce`, `LiveNonceLost`, `ApprovedForever` | `NonceUsedOnce`, `LiveNonceKept`, `ApprovedStays` |
| | `RegistrationComplete`, `OperatorOnlySignedIn` | `RegisteredIsComplete`, `OperatorSignedIn` |
| `HoldingProofs` | `TypeCorrect`, `HoldingInvariant` | `TypeOK`, `HoldingInv` |
| | `ResolvesCap`, `TargetsNew` | `ResolvesUpToCap`, `TargetsWereNew` |
| | `FundedListed` | `FundedIsListed`, if `ScanCap <= MatchCap` |
| `EventFeedProofs` | `TypeCorrect`, `FeedInvariant` | `TypeOK`, `FeedInv` |
| | `GapsAreAnnounced`, `OnlySlackIsIdled`, `SilentAreClosed` | `GapsAnnounced`, `IdledWasSlack`, `SilentIsClosed` |
| `BundleSubmissionProofs` | `SubmissionInvariant` | `SubmissionInv` |
| | `TypeCorrect`, `HeldFundsStay`, `GatesAreHonoured` | `TypeOK`, `HeldFundsStayWithEmail`, `GatesHonoured` |
| | `BundlesBalance` | `BundleBalances`, if nobody deposits and spends in one bundle (`AllUnmixed`) |
| | `AdmittedIsExecutable` | `BuiltIsExecutable`, if clients post what they can answer for (`AllSound`) |
| `CouncilWatcherProofs` | `TypeCorrect`, `WatcherInvariant` | `TypeOK`, `WatcherInv` |
| | `ChannelsFollow` | `ChannelFollows`, for every set of faults |
| | `MembershipsFollow` | `MembershipFollows`, without `others`, `sync`, `rejoin` |
| | `ChannelsCaughtUp` | `ChannelCaughtUp`, without `db`, `council`, `oldHistory` |
| | `MembershipsCaughtUp` | `MembershipCaughtUp`, with `rpc` and `downtime` alone |

`BundleSubmission` assumes of what clients post (`SubmissionAssumption`) that no
slot carries the provider's signature (the key never leaves the process), and that
the keys of the fees, which are derived of random row ids, are none a client names.
Two theorems need more. `AllUnmixed` leaves out the bundles of finding 2, and so
says that they are the only ones whose fee does not balance them. `AllSound` says
besides what admission does not look at and leaves to the client: that a UTXO is
named once in a bundle, that a Create has a positive amount (admission asks it of the
fee alone), that spends and deposits carry the client's signature or, a
spend, none, and that no client signs a nonce that a simulation puts in the place of
one. `BodiesAreSound` checks that every body of `Submission_gates`, those the gates
refuse included, meets the hypothesis, and that the mixed one does not.

### The pipelines

None of the safety invariants is inductive. `IInv` adds what each pipeline may
rely on about rows it read earlier: a row the mempool listed is still PENDING,
because nobody else writes a PENDING row, and the slots it counted free are
still free, because nobody else promotes (`MempoolInv`); a row the executor
listed is still PROCESSING unless it has been given a transaction, and the
transaction it is recording is the one of the bundle at hand (`ExecutorInv`);
the verdict the verifier holds is the network's, and the bundles it will write
are linked to the transaction it is about (`VerifierInv`); rows, links and the
network agree (`SentInv`, `LinkInv`); no event precedes the write it follows
(`FeedInv`); rows arrive in `created_at` order, and a listing still holds every
PENDING row older than one of its own, unless the LIMIT cut it off when the tick
listed (`QueueInv`), which is what makes a promotion take the oldest of the others.

The argument runs through four facts that every step keeps: a status moves only
along the edges of `Moved` (`EachMoves`), a stored transaction, its verdict and
a link stay (`StoredStays`), a linked bundle stays linked (`LinkedStays`), and a
bundle seen executed stays so (`SeenStays`). Each conjunct of `IInv` then has a
lemma of its own with one step per action that can disturb it. The slot bound
rests on `NewestIsAll`: a query with LIMIT n returns every row when there are at
most n, which the bound itself guarantees. The refinement maps a closing ledger
to `Execute` and every other step, by `OneMove`, to one move of the lifecycle or
to a stutter.

`NetworkInv` is proved on top of `IInv` and says what may be relied on besides
where fewer things fail. Each hypothesis is needed, and TLC has the
counterexample without it: after a failed link query the executor marks FAILED
a bundle that the verifier then completes (`db`); after a restart the executor
sends a bundle again whose transaction was not recorded (`crash`); a reply that is
lost has the bundle FAILED and executed (`lostReply`).

`StrandsOnlyThere` needs no such hypothesis. A link that is new where the verifier
has read already is one of a transaction the network has decided (`LateLink`); one
that is older was in the verifier's hand when it read (`ReadsAll`), and it lets go
of a bundle only by writing it or by stopping (`WriterKeeps`).

### Sign-in and registration

`AuthInv` says what is stored was drawn and is not used, and for how long
(`NonceInv`), that a token of the operator is as old as a sign-in (`TokenInv`),
and which rows a registration has behind it at each of its statements
(`RegistrationInv`): that is what makes a registration complete although
another one, a sign-in, or a failed attempt wrote between its statements.
`LiveNonceLost` needs the cardinality of the store at its limit, where one entry
gives way.

### Holding keys

The invariant of the scan is `DenseInv`: below a key that is in use or was handed
out, fewer than `MaxTargets` keys are unused, however many payers fund their
targets in whatever order. A batch is at least as long, so that a batch
of unused keys has nothing above it, which is what `scan_holding` takes for
granted when it stops. `ScanInv` relates the balances that were read, each at a
ledger of its own, to those of now.

### Event feed

`StreamInv` says that the frames in the outbox, the one whose send is awaited and
the event the cursor comes to next form a stream the client may read
(`Told`: in order, none twice, no gap without a notice). `TimeInv` relates the
beat, the instant last heard of the client and the frames that wait for the
session: as long as no send was held up, what waits to be read was sent in this
instant, and the client was not yet idle at the last beat.

### Submission

`SubmissionInv` has two parts. `GateInv` says, for each await of `post_submit`, what
a request at it has behind it (`Passed`): which gates it saw, and that what is the
case now is in its history (`Watched`). `HeldFundsStay` and `GatesAreHonoured` are
then about the steps that sign and that store. `BodyInv` says what has become of
the body meanwhile (`Assembled`): what signing left as it was, and which ledger the
signatures it added are good for (`Carried`), that no spend is unsigned after the
signing, that there is one balance for each spend, and, once the executor built the
row, that its entries could be read.

What the executor makes of a row in which that holds, and whether the contract
accepts it, is a matter of operators over lists of slots of any length, and is proved
from two general facts. A finite set of numbers has exactly one listing in order
(`InOrderOfNumbers`), and every index of the set is in it: so `Kept` keeps the slots
it names and no others (`KeptPlaces`), and the signatures are a map in the order of
its keys however the slots were ordered (`SortedSpends`). The sum of a list depends on
the values and not on the order (`SumsAnyOrder`), and one more slot adds its amount
(`TotalAppended`): so the sums by kind that the fee is computed from are those the
contract adds up (`BalancedWithFee`, where deposits and spends must not meet). On
these rest the four things the contract looks at: the sums (`BuiltBalances`), spent
and created UTXOs (`UtxosAreFit`), who signed (`SignaturesAreFit`), and that each
account that deposits has the entry it signed, spliced in for the placeholder, and its
nonce in the footprint (`SpliceEntries`, `AccountsAreFit`).

### Council watcher

`TickInv` relates the page in hand to the council's log (`PageInv`), the cursor to
the place the tick has got to (`CursorInv`), and a channel state to the events
handled (`ChannelInv`, by `Said`: what the last of them says, or what a later
one said). `MemberInv` is the same of the rows, and holds where every membership
event is about this provider and only the watcher and its boot write rows:
`WatcherInv` has it under `OwnRows`. With other providers' events the rows follow
those as well, and a sync may store an answer after the watcher applied a newer
event; both are described in section 3.

Neither says anything of events that were gone before the watcher could read them,
which is what a convergence is for. `AnsweredInv` says of each council how far its
channel state can be relied on (`Learnt`): up to where the watcher has read
(`ReadTo`), or, as long as the convergence of this boot or recovery has still to ask
or to store the answer (`ChannelOwed`), not at all. Only two kinds of step move that
point on: an applied event, which `ApplyEvent` writes as it moves, and a stored
answer, which says what the council had decided when it was asked, and so covers
every event that was gone by then. A later event is ahead of that point and is
still to be read, because a cursor out of retention is not used again before the
recovery asked, and the first tick of a council begins where retention does, with
nothing gone before the provider joined (`HistoryInv`).
A watcher that has read a log to the end has nothing owed, and `LearntAll` says that
what was learnt up to the end is what the council has decided. `AskedInv` is the same
of the rows. There it is the boot alone that asks, so that it holds where events are
lost only while the process is down, and it needs besides that the rows the boot
listed are those of the table, one for each council.

### What is only model-checked

* Liveness (`EventuallyServed`, `EveryBundleSettles`, `LatePendingIsSwept`,
  `EventuallyFollows`): out of the prover's reach.

Every safety invariant and action property of a run is stated by a theorem.
`BundleBalances` is as well, under the hypothesis its violation run does without.
Of finding 1 what is proved is `StrandedInWindowsOnly`: there is one other way, and no third.

Induction over data is out of reach in the form of the library, which takes an
operator as a parameter. It is used in one form only, the least element of a set of
naturals (`NaturalOrder`, from the well-foundedness of `<`), and everything
recursive is brought to it: where a walk over a sequence ends, which event comes
first after a gap, and, as an induction on the size of a finite set (`InductiveSet`),
that an ordered listing and a sum over a set exist. The operators of `Mlxdr` and
`ChannelTransaction` are written for that: listings are given by what they are
(`InOrder`) and not by how a list is filtered or sorted.

## 5. Not modelled

Within the pipelines: the events `executor_transaction_submitted`
and `bundle.{deposit,withdraw}_completed` follow statements that are modelled
and change no other state; the reply's hash is the transaction's identity; the
ttl of a bundle in a terminal status is never compared again and does not pass.
Reads of a row for its channel id or its summary are part of the step after
them, and their failure is that pipeline's `Abort`.

Within submission: the verdict of the simulation, which may fail any row (`Build`) but
refuses none, so that what the contract would say of the transaction stays the
question the properties ask; resource budgets (`inflate_soroban_resources`); 128-bit
overflow of sums; UTXO keys that are not 65 bytes, signatures that are not 64,
slots that are not strings, depositors that are contracts; the sub-invocations
of an authorization entry. Two deposits of one account in a bundle are not among
the bodies: the first client entry is spliced for it, and what the host makes of
the second call is not in the repository.

Within authentication: signature schemes and XDR structure (a request is signed
or not), jurisdictions, the trimming of emails (`get_targets` trims, registration
does not), envelopes and tokens of a wallet other than its last.

Within the feed: contents and labels of events, `summarize_bundle`, the close
frame.

Outside: the metrics pipeline writes a table that only charts read; the operator
and dashboard routes, health, SPA, boot, configuration and the views keep no
state of their own; the browser client (reserving UTXOs, reconnecting to the
feed) is planned; `sessions`, `challenges` and `utxos` are tables no modelled
route writes. Cryptography and XDR encoding are left to their libraries.

## 6. Plan

1. The browser client: reservation of UTXOs and reconnection to the feed.
2. The metrics snapshot, should a reader of `mempool_metrics` come to depend on
   its sums.
