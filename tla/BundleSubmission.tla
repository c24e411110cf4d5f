--------------------------- MODULE BundleSubmission ---------------------------
(***************************************************************************)
(* The admission of bundles, post_submit in crates/api/src/routes/         *)
(* bundles.rs, up to the transaction the executor builds of the row.       *)
(*                                                                         *)
(* A request runs through the awaits of the handler, one action each, and  *)
(* between two of them wallets register, the watcher writes the rows the   *)
(* gates read, other requests proceed, bundles land and ledgers close.     *)
(* What a request has read stays in its record.                            *)
(***************************************************************************)
EXTENDS ChannelTransaction, EntityTable

CONSTANTS
  Requests,        \* requests, and the rows they insert
  Councils,        \* membership rows
  Arrivals,        \* what a request may post: [Requests -> sets of
                   \* [wallet, channel : BOOLEAN, ops : Seq(Slot)]]
  Utxos,           \* UTXO keys: natural numbers
  Endowment,       \* balances at the start: [Utxos -> Int]
  HoldingKeys,     \* the first HOLDING_MATCH_CAP keys: [Emails -> SUBSET Utxos]
  MaxOperations,   \* BUNDLE_MAX_OPERATIONS
  MaxFee,          \* i64::MAX
  MaxLedger        \* bound of the exploration

\* The key of the fee, derived of the row's id.
OpexKey(r) == 100 + r

\* No client holds a key of the provider, and none can sign with one; the UTXOs a body
\* names are the clients', and none is a fee's.
ASSUME SubmissionAssumption ==
  /\ Requests \subseteq Nat
  /\ Utxos \subseteq 0..99
  /\ \A r \in Requests : \A a \in Arrivals[r] :
       /\ a.wallet \in Wallets /\ a.channel \in BOOLEAN /\ a.ops \in Seq(Slot)
       /\ \A i \in DOMAIN a.ops :
            /\ a.ops[i].sig.by # "PROVIDER"
            /\ a.ops[i].kind \in {"CREATE", "SPEND"} => a.ops[i].who \in Utxos
  /\ Endowment \in [Utxos -> Int]
  /\ MaxOperations \in Nat /\ MaxFee \in Nat /\ MaxLedger \in Nat \ {0}

VARIABLES
  pc,           \* the await a request is at
  request,      \* what it holds: the body, what was read for it, and as history
                \* what held at some moment of it: names, serving, enabled
  memberships,  \* status of the rows of council_memberships
  disabled,     \* channel_states says the channel is disabled
  balance,      \* UTXO balances of the channel
  ledger,       \* latest ledger
  builtAt       \* ledger at which the executor assembled the row

vars == <<pc, request, memberships, disabled, balance, ledger, builtAt, entities>>
chain == <<balance, ledger, builtAt>>
rows  == <<memberships, disabled, entities>>

Open    == {"APPROVAL", "INTERACTION", "MEMBERSHIP", "LEDGER", "CHANNEL", "BALANCES", "PERSIST"}
Stored  == {"STORED", "BUILT"}
Over    == {"REFUSED", "FAILED", "LANDED"}
Stages  == {"IDLE"} \cup Open \cup Stored \cup Over
AllKeys == Utxos \cup {OpexKey(r) : r \in Requests}

NoRequest == [wallet |-> CHOOSE w \in Wallets : TRUE, channel |-> FALSE, ops |-> <<>>,
              name |-> NoName, signedAt |-> 0, balances |-> <<>>,
              names |-> {}, serving |-> FALSE, enabled |-> FALSE]

FeeOf(q) == Fee(q.ops, q.balances)

-----------------------------------------------------------------------------
(* The checks between the awaits: the stage they lead to *)

Removed ==
  /\ \A c \in Councils : memberships[c] # "ACTIVE"
  /\ \E c \in Councils : memberships[c] = "REJECTED"

\* Mutant: any email's keys will do.
HeldByAnyone(name) == UNION {HoldingKeys[e] : e \in Emails}

HeldFor(name) == IF name = NoName THEN {} ELSE HoldingKeys[name]

\* The checks on the body that come before a held spend is signed.
WellFormed(q) ==
  /\ Len(q.ops) \in 1..MaxOperations
  /\ UnsignedReadable(q.ops)
  /\ UnsignedSpends(q.ops) # {} =>
       q.channel /\ {q.ops[i].who : i \in UnsignedSpends(q.ops)} \subseteq HeldFor(q.name)

\* Mutant: the fee is narrowed without a check.
FeeStageUnchecked(q) == IF FeeOf(q) > 0 THEN "PERSIST" ELSE "REFUSED"

FeeStage(q) == IF FeeOf(q) \in 1..MaxFee THEN "PERSIST" ELSE "REFUSED"

BalanceStage(q) ==
  IF SpendUtxos(q.ops) = <<>> THEN FeeStage(q)
  ELSE IF q.channel THEN "BALANCES" ELSE "REFUSED"

ClassifyStage(q) ==
  IF ~Classifies(q.ops) THEN "REFUSED"
  ELSE IF q.channel THEN "CHANNEL" ELSE BalanceStage(q)

\* Mutant: a spend counts as a withdrawal.
WithdrawOnlyOrSend(slots) == ~HasKind("DEPOSIT", slots)

WithdrawOnly(slots) == ~HasKind("DEPOSIT", slots) /\ HasKind("WITHDRAW", slots)

\* What is refused, failed or landed is not looked at again.
Goto(r, q, stage) ==
  /\ pc' = [pc EXCEPT ![r] = stage]
  /\ request' = [request EXCEPT ![r] = IF stage \in Over THEN NoRequest ELSE q]

-----------------------------------------------------------------------------
(* The handler, await by await *)

\* A request with a valid entity session arrives.
Begin(r) ==
  /\ pc[r] = "IDLE"
  /\ \E a \in Arrivals[r] :
       Goto(r, [NoRequest EXCEPT !.wallet = a.wallet, !.channel = a.channel, !.ops = a.ops,
                                 !.names = {entities[a.wallet].name},
                                 !.serving = ~Removed, !.enabled = ~disabled], "APPROVAL")
  /\ UNCHANGED <<chain, rows>>

ReadApproval(r) ==
  /\ pc[r] = "APPROVAL"
  /\ LET w == request[r].wallet IN
     Goto(r, [request[r] EXCEPT !.name = entities[w].name],
          IF Approved(w) THEN "MEMBERSHIP" ELSE "INTERACTION")
  /\ UNCHANGED <<chain, rows>>

\* Best effort: the answer is 403 whether or not the row was written.
RefuseUnapproved(r) ==
  /\ pc[r] = "INTERACTION"
  /\ RecordInteraction(request[r].wallet) \/ UNCHANGED entities
  /\ Goto(r, request[r], "REFUSED")
  /\ UNCHANGED <<chain, memberships, disabled>>

ReadMemberships(r) ==
  /\ pc[r] = "MEMBERSHIP"
  /\ Goto(r, request[r],
          IF Removed \/ ~WellFormed(request[r]) THEN "REFUSED"
          ELSE IF UnsignedSpends(request[r].ops) # {} THEN "LEDGER"
          ELSE ClassifyStage(request[r]))
  /\ UNCHANGED <<chain, rows>>

\* get_latest_ledger answers; the held spends are signed in place.
SignHeldSpends(r) ==
  /\ pc[r] = "LEDGER"
  /\ LET q == request[r]
         signed == [q EXCEPT !.ops = SignSpends(@, ledger + ExpirationOffset), !.signedAt = ledger]
     IN  IF \A i \in UnsignedSpends(q.ops) : Signable(q.ops[i])
           THEN Goto(r, signed, ClassifyStage(signed))
           ELSE Goto(r, q, "REFUSED")
  /\ UNCHANGED <<chain, rows>>

ReadChannel(r) ==
  /\ pc[r] = "CHANNEL"
  /\ Goto(r, request[r],
          IF disabled /\ ~WithdrawOnly(request[r].ops) THEN "REFUSED" ELSE BalanceStage(request[r]))
  /\ UNCHANGED <<chain, rows>>

\* fetch_utxo_balances
ReadBalances(r) ==
  /\ pc[r] = "BALANCES"
  /\ LET utxos == SpendUtxos(request[r].ops)
         q == [request[r] EXCEPT !.balances = [i \in DOMAIN utxos |-> balance[utxos[i]]]]
     IN  Goto(r, q, FeeStage(q))
  /\ UNCHANGED <<chain, rows>>

NoHistory(q) == [q EXCEPT !.name = NoName, !.names = {}, !.serving = FALSE, !.enabled = FALSE]

\* add_bundle: the row holds the operations, the fee and the submitter.
Persist(r) ==
  /\ pc[r] = "PERSIST"
  /\ Goto(r, NoHistory(request[r]), "STORED")
  /\ UNCHANGED <<chain, rows>>

\* A query or a call fails, or the process stops: nothing has been written.
Abandon(r) ==
  /\ pc[r] \in Open
  /\ Goto(r, request[r], "REFUSED")
  /\ UNCHANGED <<chain, rows>>

-----------------------------------------------------------------------------
(* The executor and the channel contract *)

TransactionOf(r) == Assemble(request[r].ops, FeeOf(request[r]), OpexKey(r), builtAt[r])

\* submit_one fails for a row without a channel, for one it cannot read, and when
\* the simulation refuses the bundle or another call to the RPC server fails.  A
\* simulation that would refuse it may also pass here: whether the contract would
\* then take what was built is what BundleBalances and BuiltIsExecutable ask.
Build(r) ==
  /\ pc[r] = "STORED"
  /\ \/ /\ request[r].channel /\ EntriesReadable(request[r].ops)
        /\ Goto(r, request[r], "BUILT")
        /\ builtAt' = [builtAt EXCEPT ![r] = ledger]
     \/ Goto(r, request[r], "FAILED") /\ UNCHANGED builtAt
  /\ UNCHANGED <<balance, ledger, rows>>

IsAccepted(r) == Accepts(TransactionOf(r), request[r].ops, balance, ledger)

\* External: the contract takes the spends and makes the creates.
Land(r) ==
  /\ pc[r] = "BUILT" /\ IsAccepted(r)
  /\ LET op == TransactionOf(r).op
         made == {op.create[i] : i \in DOMAIN op.create}
     IN  balance' = [k \in AllKeys |->
           IF k \in ToSet(Keys(op.spend)) THEN 0
           ELSE IF \E c \in made : c.who = k THEN (CHOOSE c \in made : c.who = k).amount
           ELSE balance[k]]
  /\ Goto(r, request[r], "LANDED")
  /\ UNCHANGED <<ledger, builtAt, rows>>

CloseLedger ==
  /\ ledger < MaxLedger
  /\ ledger' = ledger + 1
  /\ UNCHANGED <<pc, request, balance, builtAt, rows>>

-----------------------------------------------------------------------------
(* What else writes the rows the gates read *)

\* The history keeps what a request could have seen.
Noticed ==
  request' = [r \in Requests |->
    IF pc[r] \in Open
      THEN [request[r] EXCEPT !.names = @ \cup {entities'[request[r].wallet].name},
                              !.serving = @ \/ ~Removed',
                              !.enabled = @ \/ ~disabled']
      ELSE request[r]]

\* post_register; a registration that overlaps with another one names an entity
\* that is already approved.
Register(w, name) ==
  /\ CreateEntity(w, name) \/ (Exists(w) /\ ApproveWithIdentity(w, name))
  /\ UNCHANGED <<pc, chain, memberships, disabled>>
  /\ Noticed

\* The watcher or a convergence writes the row.
SetMembership(c, status) ==
  /\ memberships' = [memberships EXCEPT ![c] = status]
  /\ UNCHANGED <<pc, chain, disabled, entities>>
  /\ Noticed

SetChannel ==
  /\ disabled' = ~disabled
  /\ UNCHANGED <<pc, chain, memberships, entities>>
  /\ Noticed

-----------------------------------------------------------------------------
Init ==
  /\ EntityInit
  /\ pc = [r \in Requests |-> "IDLE"]
  /\ request = [r \in Requests |-> NoRequest]
  /\ memberships = [c \in Councils |-> "ACTIVE"]
  /\ disabled = FALSE
  /\ balance = [k \in AllKeys |-> IF k \in Utxos THEN Endowment[k] ELSE -1]
  /\ ledger = 1
  /\ builtAt = [r \in Requests |-> 0]

Next ==
  \/ \E r \in Requests :
       \/ Begin(r) \/ ReadApproval(r) \/ RefuseUnapproved(r) \/ ReadMemberships(r)
       \/ SignHeldSpends(r) \/ ReadChannel(r) \/ ReadBalances(r) \/ Persist(r) \/ Abandon(r)
       \/ Build(r) \/ Land(r)
  \/ CloseLedger
  \/ \E w \in Wallets, name \in Emails \cup {NoName} : Register(w, name)
  \/ \E c \in Councils, status \in {"ACTIVE", "REJECTED"} : SetMembership(c, status)
  \/ SetChannel

Spec == Init /\ [][Next]_vars

-----------------------------------------------------------------------------
(* Properties *)

\* Every variable has its type, and the fee of a stored row is positive and fits
\* the column (bundles.rs:278-291).
TypeOK ==
  /\ EntityTypeOK
  /\ pc \in [Requests -> Stages]
  /\ memberships \in [Councils -> {"PENDING", "ACTIVE", "REJECTED"}]
  /\ disabled \in BOOLEAN
  /\ balance \in [AllKeys -> Int]
  /\ ledger \in 1..MaxLedger
  /\ builtAt \in [Requests -> 0..MaxLedger]
  /\ \A r \in Requests :
       /\ request[r].ops \in Seq(Slot)
       /\ pc[r] \in Stored => FeeOf(request[r]) \in 1..MaxFee

\* The UTXOs a row spends had funds when its fee was derived, and still have.
StillFunded(r) ==
  LET utxos == SpendUtxos(request[r].ops) IN
  \A i \in DOMAIN utxos : request[r].balances[i] > 0 /\ balance[utxos[i]] = request[r].balances[i]

\* The UTXOs it creates do not exist yet.
StillNew(r) ==
  \A k \in {OpexKey(r)} \cup {request[r].ops[i].who :
              i \in {j \in DOMAIN request[r].ops : request[r].ops[j].kind = "CREATE"}} :
    balance[k] = -1

\* Neither the client's signatures nor the two the provider makes have expired.
InTime(r) ==
  /\ ledger <= builtAt[r] + ExpirationOffset
  /\ \A i \in DOMAIN request[r].ops : LET sig == request[r].ops[i].sig IN
       /\ sig.by = "OWNER" => ledger <= sig.exp
       /\ sig.by = "PROVIDER" => ledger <= request[r].signedAt + ExpirationOffset

\* A bundle that was admitted and whose UTXOs and signatures are still good is
\* one the contract accepts as the executor builds it: it balances with the fee
\* of admission, every spend and every asked account is authorized, and the
\* signatures are in the order of a map (bundles.rs:272, executor.rs:186-275).
BuiltIsExecutable ==
  \A r \in Requests :
    pc[r] = "BUILT" /\ StillFunded(r) /\ StillNew(r) /\ InTime(r) => IsAccepted(r)

Stores(r) == pc[r] = "PERSIST" /\ pc'[r] = "STORED"

\* A spend signed with a holding key is stored only for a submitter whose email,
\* at some moment of the request, was the one the UTXO is held for: "nobody else
\* may direct those funds" (bundles.rs:116-120).
HeldFundsStayWithEmail ==
  [][\A r \in Requests : Stores(r) =>
       \A i \in DOMAIN request'[r].ops :
         request'[r].ops[i].sig.by = "PROVIDER" =>
           \E e \in request[r].names \cap Emails : request'[r].ops[i].who \in HoldingKeys[e]]_vars

\* What is stored passed the gates as they stood at some moment between its
\* arrival and its insertion: a provider known to be removed all that time
\* stores nothing, and a channel disabled all that time takes withdraw-only
\* bundles (bundles.rs:73-96, 216-236).
GatesHonoured ==
  [][\A r \in Requests : Stores(r) =>
       /\ Approved(request[r].wallet)
       /\ request[r].serving
       /\ request[r].channel /\ ~request[r].enabled =>
            /\ \A i \in DOMAIN request[r].ops : request[r].ops[i].kind # "DEPOSIT"
            /\ \E i \in DOMAIN request[r].ops : request[r].ops[i].kind = "WITHDRAW"]_vars

\* "Inject a fresh Create for that amount under a deterministic OPEX UTXO key so
\* the bundle balances" (executor.rs:188-190).
BundleBalances ==
  \A r \in Requests :
    pc[r] = "BUILT" /\ StillFunded(r) => Balanced(TransactionOf(r).op, balance)
-----------------------------------------------------------------------------
(* The inductive invariant: what the gates let through *)

Request(balances) ==
  [wallet : Wallets \cup {NoRequest.wallet}, channel : BOOLEAN, ops : Seq(Slot),
   name : Emails \cup {NoName}, signedAt : Nat, balances : {balances},
   names : SUBSET (Emails \cup {NoName}), serving : BOOLEAN, enabled : BOOLEAN]

IsHeldSignature(slot) == slot.sig.by = "PROVIDER"

\* A spend signed here is of a UTXO held for an email the wallet had.
SignedFor(q, slot) == \E e \in q.names \cap Emails : slot.who \in HoldingKeys[e]

\* The history of an open request covers what is the case now.
Watched(q) ==
  /\ q.wallet \in Wallets /\ entities[q.wallet].name \in q.names
  /\ Removed \/ q.serving
  /\ disabled \/ q.enabled

HeldSpends(q, stage) ==
  /\ stage \in {"APPROVAL", "INTERACTION", "MEMBERSHIP", "LEDGER"} =>
       \A i \in DOMAIN q.ops : ~IsHeldSignature(q.ops[i])
  /\ stage = "LEDGER" => \A i \in UnsignedSpends(q.ops) : q.ops[i].who \in HeldFor(q.name)
  /\ stage \in {"CHANNEL", "BALANCES", "PERSIST"} =>
       \A i \in DOMAIN q.ops : IsHeldSignature(q.ops[i]) => SignedFor(q, q.ops[i])

\* What a request at this stage has behind it.
Passed(q, stage) ==
  /\ q \in Request(q.balances)
  /\ stage \in Open => Watched(q)
  /\ stage \in Open \ {"APPROVAL"} => q.name \in q.names
  /\ stage \in Open \ {"APPROVAL", "INTERACTION"} => Approved(q.wallet)
  /\ stage \in {"LEDGER", "CHANNEL", "BALANCES", "PERSIST"} => q.serving
  /\ HeldSpends(q, stage)
  /\ stage = "CHANNEL" => q.channel
  /\ stage \in {"BALANCES", "PERSIST"} /\ q.channel => q.enabled \/ WithdrawOnly(q.ops)
  /\ stage \in {"PERSIST"} \cup Stored => FeeOf(q) \in 1..MaxFee

GateInv ==
  /\ EntityTypeOK /\ pc \in [Requests -> Stages]
  /\ memberships \in [Councils -> {"PENDING", "ACTIVE", "REJECTED"}] /\ disabled \in BOOLEAN
  /\ ledger \in 1..MaxLedger /\ builtAt \in [Requests -> 0..MaxLedger]
  /\ request = [r \in Requests |-> request[r]]
  /\ \A r \in Requests : Passed(request[r], pc[r])

-----------------------------------------------------------------------------
(* What becomes of the body *)

At(kind, ops) == {i \in DOMAIN ops : ops[i].kind = kind}

\* Bodies whose fee takes everything into account that they bring in (see BundleBalances).
Unmixed(ops) ==
  /\ At("DEPOSIT", ops) = {} \/ At("SPEND", ops) = {}
  /\ \A i \in At("DEPOSIT", ops) : ops[i].amount >= 0

\* What admission leaves to the client: each UTXO is named once, what is created has an
\* amount, the client signs for whatever it spends or deposits, and its nonces are not
\* those of a placeholder.
Sound(ops) ==
  /\ Unmixed(ops)
  /\ \A i, j \in At("SPEND", ops) : ops[i].who = ops[j].who => i = j
  /\ \A i, j \in At("CREATE", ops) : ops[i].who = ops[j].who => i = j
  /\ \A i \in At("CREATE", ops) : ops[i].amount > 0
  /\ \A i \in At("SPEND", ops) : ops[i].sig.by \in {"NOBODY", "OWNER", "PROVIDER"}
  /\ \A i \in At("DEPOSIT", ops) : ops[i].sig.by \in {"OWNER", "BROKEN"}
  /\ \A i \in DOMAIN ops : CarriesEntry(ops[i]) => ops[i].sig.nonce # Placeholder

AllUnmixed == \A r \in Requests : \A a \in Arrivals[r] : Unmixed(a.ops)
AllSound   == \A r \in Requests : \A a \in Arrivals[r] : Sound(a.ops)

\* What signing leaves as it was, and what it adds.
Carried(q) ==
  /\ \A i \in At("CREATE", q.ops) \cup At("SPEND", q.ops) : q.ops[i].who \in Utxos
  /\ \A i \in DOMAIN q.ops :
       IsHeldSignature(q.ops[i]) => q.ops[i].sig.exp = q.signedAt + ExpirationOffset
  /\ AllUnmixed => Unmixed(q.ops)
  /\ AllSound => Sound(q.ops)

\* What holds of the body of a request at this stage, and of the balances read for it.
Assembled(q, stage) ==
  /\ stage \in Open \cup Stored => Carried(q)
  /\ stage \in {"CHANNEL", "BALANCES", "PERSIST"} \cup Stored => UnsignedSpends(q.ops) = {}
  /\ stage \in Open \ {"PERSIST"} => q.balances = <<>>
  /\ stage \in {"PERSIST"} \cup Stored => q.balances \in [DOMAIN SpendUtxos(q.ops) -> Int]
  /\ stage = "BUILT" => EntriesReadable(q.ops)

BodyInv ==
  /\ balance \in [AllKeys -> Int]
  /\ \A r \in Requests : Assembled(request[r], pc[r])

SubmissionInv == GateInv /\ BodyInv
=============================================================================
