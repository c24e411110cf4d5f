------------------------ MODULE BundleSubmissionProofs ------------------------
(***************************************************************************)
(* Theorems about BundleSubmission, for every number of requests and       *)
(* councils and everything a wallet may post.                              *)
(***************************************************************************)
EXTENDS BundleSubmission, EntityTableProofs, NaturalOrder, SequenceTheorems

-----------------------------------------------------------------------------
(* Requests and what becomes of them *)

LEMMA NoRequestTyped == NoRequest \in Request(NoRequest.balances)
<1>1. <<>> \in Seq(Slot)
  OBVIOUS
<1>2. NoRequest \in [wallet : {NoRequest.wallet}, channel : BOOLEAN, ops : Seq(Slot),
                     name : {NoName}, signedAt : Nat, balances : {NoRequest.balances},
                     names : {{}}, serving : BOOLEAN, enabled : BOOLEAN]
  BY <1>1 DEF NoRequest
<1> QED BY <1>2 DEF Request

LEMMA NothingPassed ==
  ASSUME NEW stage \in {"IDLE"} \cup Over
  PROVE  Passed(NoRequest, stage)
<1>1. stage \notin Open /\ stage \notin Stored /\ stage \notin Open \ {"APPROVAL"}
      /\ stage \notin Open \ {"APPROVAL", "INTERACTION"}
      /\ stage \notin {"APPROVAL", "INTERACTION", "MEMBERSHIP", "LEDGER", "CHANNEL", "BALANCES", "PERSIST"}
  BY DEF Over, Open, Stored
<1> QED BY <1>1, NoRequestTyped DEF Passed, HeldSpends

\* A request is not affected by what leaves the name of its wallet, its approval
\* and the other gates as they were.
LEMMA PassedKept ==
  ASSUME NEW q, NEW stage, Passed(q, stage), UNCHANGED <<memberships, disabled>>,
         \A w \in Wallets : /\ entities'[w].name = entities[w].name
                            /\ Approved(w) => Approved(w)'
  PROVE  Passed(q, stage)'
<1>1. Removed' = Removed
  BY DEF Removed
<1>2. stage \in Open => Watched(q)'
  BY <1>1 DEF Passed, Watched
<1>3. stage \in Open \ {"APPROVAL", "INTERACTION"} => Approved(q.wallet)'
  BY DEF Passed, Watched
<1> QED BY <1>2, <1>3 DEF Passed

\* One request goes on, and the rows the gates read stay as they are.
LEMMA OneGoes ==
  ASSUME GateInv, NEW r \in Requests, NEW q, NEW stage \in Stages, Goto(r, q, stage),
         stage \notin Over => Passed(q, stage),
         UNCHANGED <<entities, memberships, disabled>>, ledger' = ledger,
         builtAt' \in [Requests -> 0..MaxLedger]
  PROVE  GateInv'
<1> DEFINE x == IF stage \in Over THEN NoRequest ELSE q
<1>1. Passed(x, stage)
  <2>1. CASE stage \in Over
    BY <2>1, NothingPassed
  <2>2. CASE stage \notin Over
    BY <2>2
  <2> QED BY <2>1, <2>2
<1>2. pc' = [pc EXCEPT ![r] = stage] /\ request' = [request EXCEPT ![r] = x]
  BY DEF Goto
<1> HIDE DEF x
<1>3. pc \in [Requests -> Stages] /\ request = [s \in Requests |-> request[s]]
  BY DEF GateInv
<1>4. /\ pc' \in [Requests -> Stages] /\ pc'[r] = stage
      /\ \A s \in Requests : s # r => pc'[s] = pc[s]
  BY <1>2, <1>3
<1>5. /\ request' = [s \in Requests |-> request'[s]] /\ request'[r] = x
      /\ \A s \in Requests : s # r => request'[s] = request[s]
  BY <1>2, <1>3
<1>6. ASSUME NEW s \in Requests PROVE Passed(request[s], pc[s])'
  <2>1. ASSUME NEW y, NEW z, Passed(y, z), y = request'[s], z = pc'[s] PROVE Passed(request[s], pc[s])'
    <3>1. \A w \in Wallets : entities'[w].name = entities[w].name /\ (Approved(w) => Approved(w)')
      BY DEF Approved
    <3>2. UNCHANGED <<memberships, disabled>>
      OBVIOUS
    <3>3. Passed(y, z)'
      BY <2>1, <3>1, <3>2, PassedKept
    <3> QED BY <3>3, <2>1
  <2>2. CASE s = r
    BY <2>1, <2>2, <1>1, <1>4, <1>5
  <2>3. CASE s # r
    <3>1. Passed(request[s], pc[s])
      BY DEF GateInv
    <3>2. request'[s] = request[s] /\ pc'[s] = pc[s]
      BY <2>3, <1>4, <1>5
    <3> QED BY <3>1, <3>2, <2>1
  <2> QED BY <2>2, <2>3
<1>7. ledger' \in 1..MaxLedger /\ EntityTypeOK'
  BY DEF GateInv, EntityTypeOK
<1>8. memberships' \in [Councils -> {"PENDING", "ACTIVE", "REJECTED"}] /\ disabled' \in BOOLEAN
  BY DEF GateInv
<1> QED BY <1>4, <1>5, <1>6, <1>7, <1>8 DEF GateInv

-----------------------------------------------------------------------------
(* The steps of the handler *)

\* What the type of a request says of one, field by field, and of its successors.
LEMMA RequestFields ==
  ASSUME NEW q, q \in Request(q.balances)
  PROVE  /\ q.wallet \in Wallets \cup {NoRequest.wallet} /\ q.channel \in BOOLEAN /\ q.ops \in Seq(Slot)
         /\ q.name \in Emails \cup {NoName} /\ q.signedAt \in Nat
         /\ q.names \subseteq Emails \cup {NoName} /\ q.serving \in BOOLEAN /\ q.enabled \in BOOLEAN
BY DEF Request

LEMMA Named ==
  ASSUME NEW q, q \in Request(q.balances), NEW name \in Emails \cup {NoName}
  PROVE  LET p == [q EXCEPT !.name = name] IN
         /\ p \in Request(p.balances) /\ p.name = name /\ p.wallet = q.wallet
         /\ p.channel = q.channel /\ p.ops = q.ops /\ p.names = q.names
         /\ p.serving = q.serving /\ p.enabled = q.enabled
BY DEF Request

LEMMA Priced ==
  ASSUME NEW q, q \in Request(q.balances), NEW balances
  PROVE  LET p == [q EXCEPT !.balances = balances] IN
         /\ p \in Request(p.balances) /\ p.name = q.name /\ p.wallet = q.wallet
         /\ p.channel = q.channel /\ p.ops = q.ops /\ p.names = q.names
         /\ p.serving = q.serving /\ p.enabled = q.enabled
BY DEF Request

LEMMA Forgotten ==
  ASSUME NEW q, q \in Request(q.balances)
  PROVE  /\ NoHistory(q) \in Request(NoHistory(q).balances)
         /\ NoHistory(q).ops = q.ops /\ NoHistory(q).balances = q.balances
BY DEF Request, NoHistory

LEMMA EntityNames ==
  ASSUME EntityTypeOK, NEW w \in Wallets
  PROVE  entities[w].name \in Emails \cup {NoName}
BY DEF EntityTypeOK, Entity, NoEntity

LEMMA BeginKeeps ==
  ASSUME GateInv, NEW r \in Requests, Begin(r)
  PROVE  GateInv'
<1>1. PICK a \in Arrivals[r] :
        Goto(r, [NoRequest EXCEPT !.wallet = a.wallet, !.channel = a.channel, !.ops = a.ops,
                                  !.names = {entities[a.wallet].name},
                                  !.serving = ~Removed, !.enabled = ~disabled], "APPROVAL")
  BY DEF Begin
<1> DEFINE serving == ~Removed
           enabled == ~disabled
           name == entities[a.wallet].name
           q == [NoRequest EXCEPT !.wallet = a.wallet, !.channel = a.channel, !.ops = a.ops,
                                  !.names = {name}, !.serving = serving, !.enabled = enabled]
<1>2. /\ a.wallet \in Wallets /\ a.channel \in BOOLEAN /\ a.ops \in Seq(Slot)
      /\ \A i \in DOMAIN a.ops : a.ops[i].sig.by # "PROVIDER"
  BY SubmissionAssumption
<1>3. name \in Emails \cup {NoName}
  BY <1>2, EntityNames DEF GateInv
<1>4. /\ serving \in BOOLEAN /\ enabled \in BOOLEAN /\ (Removed \/ serving) /\ (disabled \/ enabled)
      /\ Goto(r, q, "APPROVAL")
  BY <1>1 DEF Removed
<1> HIDE DEF serving, enabled, name
<1>5. /\ q \in Request(q.balances) /\ q.wallet = a.wallet /\ q.ops = a.ops
      /\ q.names = {name} /\ q.serving = serving /\ q.enabled = enabled
  BY <1>2, <1>3, <1>4, NoRequestTyped DEF Request
<1> HIDE DEF q
<1>6. Passed(q, "APPROVAL")
  <2>1. Watched(q)
    BY <1>2, <1>4, <1>5 DEF Watched, name
  <2>2. HeldSpends(q, "APPROVAL")
    BY <1>2, <1>5 DEF HeldSpends, IsHeldSignature
  <2> QED BY <2>1, <2>2, <1>5 DEF Passed, Stored
<1>7. UNCHANGED <<entities, memberships, disabled, ledger, builtAt>>
  BY DEF Begin, chain, rows
<1>8. "APPROVAL" \in Stages
  BY DEF Stages, Open
<1> QED BY <1>4, <1>6, <1>7, <1>8, OneGoes DEF GateInv

LEMMA ReadApprovalKeeps ==
  ASSUME GateInv, NEW r \in Requests, ReadApproval(r)
  PROVE  GateInv'
<1> DEFINE old == request[r]
           w == old.wallet
           q == [old EXCEPT !.name = entities[w].name]
           stage == IF Approved(w) THEN "MEMBERSHIP" ELSE "INTERACTION"
<1>1. /\ pc[r] = "APPROVAL" /\ Goto(r, q, stage)
      /\ UNCHANGED <<entities, memberships, disabled, ledger, builtAt>>
  BY DEF ReadApproval, chain, rows
<1>2. Passed(old, "APPROVAL")
  BY <1>1 DEF GateInv
<1>3. old \in Request(old.balances) /\ Watched(old) /\ HeldSpends(old, "APPROVAL")
  BY <1>2 DEF Passed, Open
<1>4. w \in Wallets /\ entities[w].name \in Emails \cup {NoName}
  BY <1>3, EntityNames DEF GateInv, Watched
<1>5. /\ q \in Request(q.balances) /\ q.name = entities[w].name /\ q.wallet = w
      /\ q.ops = old.ops /\ q.names = old.names /\ q.serving = old.serving /\ q.enabled = old.enabled
  BY <1>3, <1>4, Named
<1>6. stage \in {"MEMBERSHIP", "INTERACTION"} /\ (stage = "MEMBERSHIP" => Approved(w))
  OBVIOUS
<1> HIDE DEF q, stage
<1>7. Passed(q, stage)
  <2>1. Watched(q)
    BY <1>3, <1>5 DEF Watched
  <2>2. HeldSpends(q, stage)
    BY <1>3, <1>5, <1>6 DEF HeldSpends
  <2>3. q.name \in q.names
    BY <1>3, <1>5 DEF Watched
  <2> QED BY <2>1, <2>2, <2>3, <1>5, <1>6 DEF Passed, Stored
<1>8. stage \in Stages
  BY <1>6 DEF Stages, Open
<1> QED BY <1>1, <1>7, <1>8, OneGoes DEF GateInv

LEMMA RefuseUnapprovedKeeps ==
  ASSUME GateInv, NEW r \in Requests, RefuseUnapproved(r)
  PROVE  GateInv'
<1> DEFINE w == request[r].wallet
<1>1. /\ pc[r] = "INTERACTION"
      /\ RecordInteraction(w) \/ UNCHANGED entities
      /\ Goto(r, request[r], "REFUSED")
      /\ UNCHANGED <<memberships, disabled, ledger, builtAt>>
  BY DEF RefuseUnapproved, chain
<1>2. w \in Wallets
  <2>1. Passed(request[r], "INTERACTION")
    BY <1>1 DEF GateInv
  <2> QED BY <2>1 DEF Passed, Open, Watched
<1>3. EntityTypeOK /\ EntityTypeOK'
  BY <1>1, <1>2, EntityWriteTyped DEF GateInv, EntityWrite, EntityTypeOK
<1>4. ASSUME NEW v \in Wallets
      PROVE  entities'[v].name = entities[v].name /\ (Approved(v) => Approved(v)')
  BY <1>1, <1>2, <1>3 DEF RecordInteraction, EntityTypeOK, Entity, NoEntity, Exists, Approved
<1>5. pc' = [pc EXCEPT ![r] = "REFUSED"] /\ request' = [request EXCEPT ![r] = NoRequest]
  BY <1>1 DEF Goto, Over
<1>6. pc \in [Requests -> Stages] /\ request = [s \in Requests |-> request[s]]
  BY DEF GateInv
<1>7. pc' \in [Requests -> Stages] /\ request' = [s \in Requests |-> request'[s]]
  BY <1>5, <1>6 DEF Stages, Over
<1>8. ASSUME NEW s \in Requests PROVE Passed(request[s], pc[s])'
  <2>1. ASSUME NEW y, NEW z, Passed(y, z), y = request'[s], z = pc'[s] PROVE Passed(request[s], pc[s])'
    <3>1. Passed(y, z)'
      BY <2>1, <1>1, <1>4, PassedKept
    <3> QED BY <3>1, <2>1
  <2>2. CASE s = r
    BY <2>1, <2>2, <1>5, <1>6, NothingPassed DEF Over
  <2>3. CASE s # r
    <3>1. Passed(request[s], pc[s]) /\ request'[s] = request[s] /\ pc'[s] = pc[s]
      BY <2>3, <1>5, <1>6 DEF GateInv
    <3> QED BY <3>1, <2>1
  <2> QED BY <2>2, <2>3
<1> QED BY <1>1, <1>3, <1>7, <1>8 DEF GateInv

\* The stages after the gates on the body, and what a request needs to reach them.
LEMMA FeeStages ==
  ASSUME NEW q, FeeStage(q) \notin Over
  PROVE  FeeStage(q) = "PERSIST" /\ FeeOf(q) \in 1..MaxFee
BY DEF FeeStage, Over

LEMMA BalanceStages ==
  ASSUME NEW q, BalanceStage(q) \notin Over
  PROVE  \/ BalanceStage(q) = "PERSIST" /\ FeeOf(q) \in 1..MaxFee
         \/ BalanceStage(q) = "BALANCES"
<1>1. "REFUSED" \in Over
  BY DEF Over
<1> QED BY <1>1, FeeStages DEF BalanceStage

LEMMA ClassifyStages ==
  ASSUME NEW q, ClassifyStage(q) \notin Over
  PROVE  \/ ClassifyStage(q) = "CHANNEL" /\ q.channel
         \/ ClassifyStage(q) = "PERSIST" /\ ~q.channel /\ FeeOf(q) \in 1..MaxFee
<1>1. "REFUSED" \in Over
  BY DEF Over
<1>2. CASE q.channel
  BY <1>1, <1>2 DEF ClassifyStage
<1>3. CASE ~q.channel
  <2>1. ClassifyStage(q) = BalanceStage(q)
    BY <1>1, <1>3 DEF ClassifyStage
  <2>2. BalanceStage(q) # "BALANCES"
    BY <1>3, FeeStages DEF BalanceStage, FeeStage
  <2> QED BY <1>3, <2>1, <2>2, BalanceStages
<1> QED BY <1>2, <1>3

\* A request whose held spends are those of an email it had, and that has got past
\* the membership gate, may go where the checks of the body send it.
LEMMA ClassifiedPassed ==
  ASSUME NEW q, q \in Request(q.balances), Watched(q), q.name \in q.names, Approved(q.wallet),
         q.serving, \A i \in DOMAIN q.ops : IsHeldSignature(q.ops[i]) => SignedFor(q, q.ops[i]),
         ClassifyStage(q) \notin Over
  PROVE  Passed(q, ClassifyStage(q)) /\ ClassifyStage(q) \in Stages
<1> DEFINE stage == ClassifyStage(q)
<1>1. \/ stage = "CHANNEL" /\ q.channel
      \/ stage = "PERSIST" /\ ~q.channel /\ FeeOf(q) \in 1..MaxFee
  BY ClassifyStages
<1> HIDE DEF stage
<1>2. HeldSpends(q, stage)
  BY <1>1 DEF HeldSpends
<1>3. Passed(q, stage)
  BY <1>1, <1>2 DEF Passed, Stored
<1>4. stage \in Stages
  BY <1>1 DEF Stages, Open
<1> QED BY <1>3, <1>4 DEF stage

LEMMA ReadMembershipsKeeps ==
  ASSUME GateInv, NEW r \in Requests, ReadMemberships(r)
  PROVE  GateInv'
<1> DEFINE q == request[r]
           stage == IF Removed \/ ~WellFormed(q) THEN "REFUSED"
                    ELSE IF UnsignedSpends(q.ops) # {} THEN "LEDGER"
                    ELSE ClassifyStage(q)
<1>1. /\ pc[r] = "MEMBERSHIP" /\ Goto(r, q, stage)
      /\ UNCHANGED <<entities, memberships, disabled, ledger, builtAt>>
  BY DEF ReadMemberships, chain, rows
<1>2. Passed(q, "MEMBERSHIP")
  BY <1>1 DEF GateInv
<1>3. /\ q \in Request(q.balances) /\ Watched(q) /\ q.name \in q.names /\ Approved(q.wallet)
      /\ \A i \in DOMAIN q.ops : ~IsHeldSignature(q.ops[i])
  BY <1>2 DEF Passed, Open, HeldSpends
<1>4. CASE Removed \/ ~WellFormed(q)
  <2>1. stage = "REFUSED" /\ stage \in Over /\ stage \in Stages
    BY <1>4 DEF Over, Stages
  <2> QED BY <2>1, <1>1, OneGoes DEF GateInv
<1>5. CASE ~Removed /\ WellFormed(q)
  <2>1. q.serving
    BY <1>3, <1>5 DEF Watched
  <2>2. CASE UnsignedSpends(q.ops) # {}
    <3>1. stage = "LEDGER" /\ stage \in Stages
      BY <2>2, <1>5 DEF Stages, Open
    <3>2. \A i \in UnsignedSpends(q.ops) : q.ops[i].who \in HeldFor(q.name)
      BY <2>2, <1>5 DEF WellFormed
    <3>3. HeldSpends(q, "LEDGER")
      BY <3>2, <1>3 DEF HeldSpends
    <3>4. Passed(q, "LEDGER")
      BY <2>1, <3>3, <1>3 DEF Passed, Stored
    <3> QED BY <3>1, <3>4, <1>1, OneGoes DEF GateInv
  <2>3. CASE UnsignedSpends(q.ops) = {}
    <3>1. stage = ClassifyStage(q)
      BY <2>3, <1>5
    <3>2. stage \notin Over => Passed(q, stage) /\ stage \in Stages
      BY <2>1, <3>1, <1>3, ClassifiedPassed
    <3>3. stage \in Over => stage \in Stages
      BY DEF Stages
    <3> HIDE DEF stage, q
    <3> QED BY <3>2, <3>3, <1>1, OneGoes DEF GateInv, q
  <2> QED BY <2>2, <2>3
<1> QED BY <1>4, <1>5

LEMMA SignedSlots ==
  ASSUME NEW ops \in Seq(Slot), NEW exp \in Nat
  PROVE  /\ SignSpends(ops, exp) \in Seq(Slot) /\ DOMAIN SignSpends(ops, exp) = DOMAIN ops
         /\ \A i \in DOMAIN ops : LET slot == SignSpends(ops, exp)[i] IN
              /\ slot.who = ops[i].who
              /\ IsHeldSignature(slot) => IsHeldSignature(ops[i]) \/ i \in UnsignedSpends(ops)
<1>1. Len(ops) \in Nat /\ DOMAIN ops = 1..Len(ops) /\ \A i \in 1..Len(ops) : ops[i] \in Slot
  BY LenProperties, ElementOfSeq
<1>2. ASSUME NEW slot \in Slot
      PROVE  SignSpend(slot, exp) \in Slot /\ SignSpend(slot, exp).who = slot.who
  BY DEF SignSpend, Slot, Signers
<1>3. ASSUME NEW i \in 1..Len(ops)
      PROVE  /\ SignSpends(ops, exp)[i] \in Slot /\ SignSpends(ops, exp)[i].who = ops[i].who
             /\ i \notin UnsignedSpends(ops) => SignSpends(ops, exp)[i] = ops[i]
  <2>1. CASE IsUnsignedSpend(ops[i])
    <3>1. SignSpends(ops, exp)[i] = SignSpend(ops[i], exp) /\ i \in UnsignedSpends(ops)
      BY <2>1, <1>1 DEF SignSpends, UnsignedSpends
    <3> QED BY <3>1, <1>1, <1>2
  <2>2. CASE ~IsUnsignedSpend(ops[i])
    <3>1. SignSpends(ops, exp)[i] = ops[i]
      BY <2>2, <1>1 DEF SignSpends
    <3> QED BY <3>1, <1>1
  <2> QED BY <2>1, <2>2
<1>4. SignSpends(ops, exp) = [i \in 1..Len(ops) |-> SignSpends(ops, exp)[i]]
  BY <1>1 DEF SignSpends
<1>5. SignSpends(ops, exp) \in Seq(Slot) /\ DOMAIN SignSpends(ops, exp) = DOMAIN ops
  BY <1>1, <1>3, <1>4, SeqDef
<1>6. \A i \in DOMAIN ops :
        /\ SignSpends(ops, exp)[i].who = ops[i].who
        /\ IsHeldSignature(SignSpends(ops, exp)[i]) => IsHeldSignature(ops[i]) \/ i \in UnsignedSpends(ops)
  BY <1>1, <1>3
<1> QED BY <1>5, <1>6

LEMMA HeldForNamed ==
  ASSUME NEW q, q \in Request(q.balances), q.name \in q.names, NEW who \in HeldFor(q.name)
  PROVE  \E e \in q.names \cap Emails : who \in HoldingKeys[e]
<1>1. q.name # NoName /\ who \in HoldingKeys[q.name]
  BY DEF HeldFor
<1>2. q.name \in Emails
  BY <1>1, RequestFields
<1> QED BY <1>1, <1>2

LEMMA SignHeldSpendsKeeps ==
  ASSUME GateInv, NEW r \in Requests, SignHeldSpends(r)
  PROVE  GateInv'
<1> DEFINE q == request[r]
           ops == SignSpends(q.ops, ledger + ExpirationOffset)
           p == [q EXCEPT !.ops = ops, !.signedAt = ledger]
<1>1. /\ pc[r] = "LEDGER" /\ (Goto(r, p, ClassifyStage(p)) \/ Goto(r, q, "REFUSED"))
      /\ UNCHANGED <<entities, memberships, disabled, ledger, builtAt>>
  BY DEF SignHeldSpends, chain, rows
<1>2. Passed(q, "LEDGER")
  BY <1>1 DEF GateInv
<1>3. /\ q \in Request(q.balances) /\ Watched(q) /\ q.name \in q.names /\ Approved(q.wallet)
      /\ q.serving
      /\ \A i \in DOMAIN q.ops : ~IsHeldSignature(q.ops[i])
      /\ \A i \in UnsignedSpends(q.ops) : q.ops[i].who \in HeldFor(q.name)
  BY <1>2 DEF Passed, Open, HeldSpends
<1>4. q.ops \in Seq(Slot) /\ ledger \in Nat /\ ledger + ExpirationOffset \in Nat
  BY <1>3, RequestFields, SubmissionAssumption, TransactionAssumption DEF GateInv
<1>5. /\ ops \in Seq(Slot) /\ DOMAIN ops = DOMAIN q.ops
      /\ \A i \in DOMAIN ops : /\ ops[i].who = q.ops[i].who
                               /\ IsHeldSignature(ops[i]) => i \in UnsignedSpends(q.ops)
  BY <1>3, <1>4, SignedSlots
<1> HIDE DEF ops
<1>6. /\ p \in Request(p.balances) /\ p.name = q.name /\ p.wallet = q.wallet /\ p.ops = ops
      /\ p.names = q.names /\ p.serving = q.serving /\ p.enabled = q.enabled
  BY <1>3, <1>4, <1>5 DEF Request
<1>7. ASSUME NEW i \in DOMAIN ops, IsHeldSignature(ops[i]) PROVE SignedFor(p, ops[i])
  <2>1. q.ops[i].who \in HeldFor(q.name) /\ ops[i].who = q.ops[i].who
    BY <1>3, <1>5, <1>7
  <2> QED BY <2>1, <1>3, <1>6, HeldForNamed DEF SignedFor
<1> HIDE DEF p
<1>8. Watched(p)
  BY <1>3, <1>6 DEF Watched
<1>9. ClassifyStage(p) \notin Over => Passed(p, ClassifyStage(p)) /\ ClassifyStage(p) \in Stages
  BY <1>3, <1>6, <1>7, <1>8, ClassifiedPassed
<1>10. "REFUSED" \in Over /\ Over \subseteq Stages
  BY DEF Stages, Over
<1>11. CASE Goto(r, p, ClassifyStage(p))
  BY <1>1, <1>9, <1>10, <1>11, OneGoes DEF GateInv
<1>12. CASE Goto(r, q, "REFUSED")
  BY <1>1, <1>10, <1>12, OneGoes DEF GateInv
<1> QED BY <1>1, <1>11, <1>12

LEMMA ReadChannelKeeps ==
  ASSUME GateInv, NEW r \in Requests, ReadChannel(r)
  PROVE  GateInv'
<1> DEFINE q == request[r]
           stage == IF disabled /\ ~WithdrawOnly(q.ops) THEN "REFUSED" ELSE BalanceStage(q)
<1>1. /\ pc[r] = "CHANNEL" /\ Goto(r, q, stage)
      /\ UNCHANGED <<entities, memberships, disabled, ledger, builtAt>>
  BY DEF ReadChannel, chain, rows
<1>2. Passed(q, "CHANNEL")
  BY <1>1 DEF GateInv
<1>3. /\ q \in Request(q.balances) /\ Watched(q) /\ q.name \in q.names /\ Approved(q.wallet)
      /\ q.serving /\ q.channel
      /\ \A i \in DOMAIN q.ops : IsHeldSignature(q.ops[i]) => SignedFor(q, q.ops[i])
  BY <1>2 DEF Passed, Open, HeldSpends
<1>4. "REFUSED" \in Over /\ Over \subseteq Stages
  BY DEF Stages, Over
<1>5. ASSUME stage \notin Over PROVE Passed(q, stage) /\ stage \in Stages
  <2>1. stage = BalanceStage(q) /\ (q.enabled \/ WithdrawOnly(q.ops))
    BY <1>3, <1>4, <1>5 DEF Watched
  <2>2. \/ stage = "PERSIST" /\ FeeOf(q) \in 1..MaxFee
        \/ stage = "BALANCES"
    BY <2>1, <1>5, BalanceStages
  <2> HIDE DEF stage, q
  <2>3. HeldSpends(q, stage)
    BY <2>2, <1>3 DEF HeldSpends
  <2> QED BY <2>1, <2>2, <2>3, <1>3 DEF Passed, Stored, Stages, Open
<1> HIDE DEF stage
<1>6. stage \in Stages
  BY <1>4, <1>5
<1> QED BY <1>1, <1>5, <1>6, OneGoes DEF GateInv

LEMMA ReadBalancesKeeps ==
  ASSUME GateInv, NEW r \in Requests, ReadBalances(r)
  PROVE  GateInv'
<1> DEFINE q == request[r]
           balances == [i \in DOMAIN SpendUtxos(q.ops) |-> balance[SpendUtxos(q.ops)[i]]]
           p == [q EXCEPT !.balances = balances]
<1>1. /\ pc[r] = "BALANCES" /\ Goto(r, p, FeeStage(p))
      /\ UNCHANGED <<entities, memberships, disabled, ledger, builtAt>>
  BY DEF ReadBalances, chain, rows
<1>2. Passed(q, "BALANCES")
  BY <1>1 DEF GateInv
<1>3. /\ q \in Request(q.balances) /\ Watched(q) /\ q.name \in q.names /\ Approved(q.wallet)
      /\ q.serving /\ (q.channel => q.enabled \/ WithdrawOnly(q.ops))
      /\ \A i \in DOMAIN q.ops : IsHeldSignature(q.ops[i]) => SignedFor(q, q.ops[i])
  BY <1>2 DEF Passed, Open, HeldSpends
<1> HIDE DEF balances
<1>4. /\ p \in Request(p.balances) /\ p.name = q.name /\ p.wallet = q.wallet /\ p.channel = q.channel
      /\ p.ops = q.ops /\ p.names = q.names /\ p.serving = q.serving /\ p.enabled = q.enabled
  BY <1>3, Priced, ZenonT(60)
<1> HIDE DEF p
<1>5. ASSUME FeeStage(p) \notin Over PROVE Passed(p, FeeStage(p))
  <2>1. FeeStage(p) = "PERSIST" /\ FeeOf(p) \in 1..MaxFee
    BY <1>5, FeeStages
  <2>2. HeldSpends(p, "PERSIST")
    BY <1>3, <1>4 DEF HeldSpends, SignedFor
  <2>3. Watched(p)
    BY <1>3, <1>4 DEF Watched
  <2> QED BY <2>1, <2>2, <2>3, <1>3, <1>4 DEF Passed, Stored
<1>6. FeeStage(p) \in Stages
  BY DEF FeeStage, Stages, Open, Over
<1> QED BY <1>1, <1>5, <1>6, OneGoes DEF GateInv

LEMMA StoredPassed ==
  ASSUME NEW q, q \in Request(q.balances), NEW stage \in Stored, FeeOf(q) \in 1..MaxFee
  PROVE  Passed(q, stage) /\ stage \in Stages
<1>1. stage \notin Open /\ stage \in Stages /\ stage \notin Open \ {"APPROVAL"}
      /\ stage \notin Open \ {"APPROVAL", "INTERACTION"}
      /\ stage \notin {"APPROVAL", "INTERACTION", "MEMBERSHIP", "LEDGER", "CHANNEL", "BALANCES", "PERSIST"}
  BY DEF Open, Stored, Stages
<1> QED BY <1>1 DEF Passed, HeldSpends

LEMMA PersistKeeps ==
  ASSUME GateInv, NEW r \in Requests, Persist(r)
  PROVE  GateInv'
<1> DEFINE q == request[r]
           p == NoHistory(q)
<1>1. /\ pc[r] = "PERSIST" /\ Goto(r, p, "STORED")
      /\ UNCHANGED <<entities, memberships, disabled, ledger, builtAt>>
  BY DEF Persist, chain, rows
<1>2. q \in Request(q.balances) /\ FeeOf(q) \in 1..MaxFee
  BY <1>1 DEF GateInv, Passed
<1>3. p \in Request(p.balances) /\ FeeOf(p) = FeeOf(q)
  BY <1>2, Forgotten DEF FeeOf
<1>4. Passed(p, "STORED") /\ "STORED" \in Stages
  BY <1>2, <1>3, StoredPassed DEF Stored
<1> QED BY <1>1, <1>4, OneGoes DEF GateInv

LEMMA AbandonKeeps ==
  ASSUME GateInv, NEW r \in Requests, Abandon(r)
  PROVE  GateInv'
<1>1. /\ Goto(r, request[r], "REFUSED") /\ "REFUSED" \in Over /\ "REFUSED" \in Stages
      /\ UNCHANGED <<entities, memberships, disabled, ledger, builtAt>>
  BY DEF Abandon, chain, rows, Over, Stages
<1> QED BY <1>1, OneGoes DEF GateInv

-----------------------------------------------------------------------------
(* The executor, the contract and what else writes the rows *)

LEMMA BuildKeeps ==
  ASSUME GateInv, NEW r \in Requests, Build(r)
  PROVE  GateInv'
<1> DEFINE q == request[r]
<1>1. /\ pc[r] = "STORED" /\ UNCHANGED <<entities, memberships, disabled, ledger>>
      /\ \/ Goto(r, q, "BUILT") /\ builtAt' = [builtAt EXCEPT ![r] = ledger]
         \/ Goto(r, q, "FAILED") /\ UNCHANGED builtAt
  BY DEF Build, rows
<1>2. /\ builtAt \in [Requests -> 0..MaxLedger] /\ ledger \in 1..MaxLedger /\ Passed(q, "STORED")
  BY <1>1 DEF GateInv
<1>3. Passed(q, "BUILT") /\ "BUILT" \in Stages
  BY <1>2, StoredPassed DEF Passed, Stored
<1>4. CASE Goto(r, q, "BUILT") /\ builtAt' = [builtAt EXCEPT ![r] = ledger]
  <2>1. builtAt' \in [Requests -> 0..MaxLedger]
    <3>1. ledger \in 0..MaxLedger
      BY <1>2
    <3> QED BY <3>1, <1>2, <1>4
  <2> QED BY <2>1, <1>1, <1>3, <1>4, OneGoes
<1>5. CASE Goto(r, q, "FAILED") /\ UNCHANGED builtAt
  <2>1. "FAILED" \in Over /\ "FAILED" \in Stages
    BY DEF Over, Stages
  <2> QED BY <2>1, <1>1, <1>2, <1>5, OneGoes
<1> QED BY <1>1, <1>4, <1>5

LEMMA LandKeeps ==
  ASSUME GateInv, NEW r \in Requests, Land(r)
  PROVE  GateInv'
<1>1. /\ Goto(r, request[r], "LANDED") /\ "LANDED" \in Over /\ "LANDED" \in Stages
      /\ UNCHANGED <<entities, memberships, disabled, ledger, builtAt>>
  BY DEF Land, rows, Over, Stages
<1> QED BY <1>1, OneGoes DEF GateInv

LEMMA CloseLedgerKeeps == GateInv /\ CloseLedger => GateInv'
<1> SUFFICES ASSUME GateInv, CloseLedger PROVE GateInv'
  OBVIOUS
<1>1. /\ ledger < MaxLedger /\ ledger' = ledger + 1
      /\ UNCHANGED <<pc, request, builtAt, entities, memberships, disabled>>
  BY DEF CloseLedger, rows
<1>2. ledger' \in 1..MaxLedger
  BY <1>1, SubmissionAssumption DEF GateInv
<1>3. ASSUME NEW r \in Requests PROVE Passed(request[r], pc[r])'
  <2>1. ASSUME NEW y, NEW z, Passed(y, z), y = request'[r], z = pc'[r] PROVE Passed(request[r], pc[r])'
    <3>1. \A w \in Wallets : entities'[w].name = entities[w].name /\ (Approved(w) => Approved(w)')
      BY <1>1 DEF Approved
    <3>2. Passed(y, z)'
      BY <2>1, <3>1, <1>1, PassedKept
    <3> QED BY <3>2, <2>1
  <2>2. Passed(request[r], pc[r]) /\ request'[r] = request[r] /\ pc'[r] = pc[r]
    BY <1>1 DEF GateInv
  <2> QED BY <2>1, <2>2
<1> QED BY <1>1, <1>2, <1>3 DEF GateInv, EntityTypeOK

\* A request that notices what is the case keeps what it had behind it.
LEMMA Noticing ==
  ASSUME NEW q, NEW stage \in Open, Passed(q, stage), NEW p \in Request(q.balances),
         p.wallet = q.wallet, p.name = q.name, p.ops = q.ops, p.channel = q.channel,
         p.balances = q.balances, q.names \subseteq p.names,
         q.serving => p.serving, q.enabled => p.enabled,
         Watched(p)', \A w \in Wallets : Approved(w) => Approved(w)'
  PROVE  Passed(p, stage)'
<1>1. q \in Request(q.balances) /\ q.wallet \in Wallets
  BY DEF Passed, Watched
<1>2. \A i \in DOMAIN q.ops : SignedFor(q, q.ops[i]) => SignedFor(p, q.ops[i])
  BY DEF SignedFor
<1>3. HeldSpends(p, stage)
  BY <1>2 DEF Passed, HeldSpends
<1>4. stage \in Open \ {"APPROVAL"} => p.name \in p.names
  BY DEF Passed
<1>5. stage \in Open \ {"APPROVAL", "INTERACTION"} => Approved(p.wallet)'
  BY <1>1 DEF Passed
<1>6. stage \in {"LEDGER", "CHANNEL", "BALANCES", "PERSIST"} => p.serving
  BY DEF Passed
<1>7. stage \in {"BALANCES", "PERSIST"} /\ p.channel => p.enabled \/ WithdrawOnly(p.ops)
  BY DEF Passed
<1>8. /\ stage \in {"PERSIST"} \cup Stored => FeeOf(p) \in 1..MaxFee
      /\ stage = "CHANNEL" => p.channel
  BY DEF Passed, FeeOf
<1> QED BY <1>3, <1>4, <1>5, <1>6, <1>7, <1>8 DEF Passed

LEMMA NoticedKeeps ==
  ASSUME GateInv, Noticed, UNCHANGED <<pc, ledger, builtAt>>, EntityTypeOK',
         memberships' \in [Councils -> {"PENDING", "ACTIVE", "REJECTED"}], disabled' \in BOOLEAN,
         \A w \in Wallets : Approved(w) => Approved(w)'
  PROVE  GateInv'
<1>1. request' = [r \in Requests |-> request'[r]]
  BY DEF Noticed
<1>2. ASSUME NEW r \in Requests PROVE Passed(request[r], pc[r])'
  <2> DEFINE q == request[r]
             stage == pc[r]
  <2>1. Passed(q, stage) /\ stage \in Stages /\ pc'[r] = stage
    BY DEF GateInv
  <2>2. CASE stage \in Open
    <3> DEFINE name == entities'[q.wallet].name
               serving == ~Removed'
               enabled == ~disabled'
               p == [q EXCEPT !.names = q.names \cup {name}, !.serving = q.serving \/ serving,
                              !.enabled = q.enabled \/ enabled]
    <3>1. request'[r] = p
      BY <2>2 DEF Noticed
    <3>2. q.wallet \in Wallets
      BY <2>1, <2>2 DEF Passed, Watched
    <3>3. name \in Emails \cup {NoName}
      BY <3>2 DEF EntityTypeOK, Entity, NoEntity
    <3>4. serving \in BOOLEAN /\ enabled \in BOOLEAN /\ (Removed' \/ serving) /\ (disabled' \/ enabled)
      BY DEF Removed
    <3>5. entities'[q.wallet].name = name
      OBVIOUS
    <3> HIDE DEF name, serving, enabled
    <3>6. ASSUME NEW x, NEW y, NEW z, Passed(x, z), z \in Open, x = q, y = p, z = stage,
                 NEW n \in Emails \cup {NoName}, NEW s \in BOOLEAN, NEW e \in BOOLEAN,
                 n = name, s = serving, e = enabled
          PROVE  Passed(request[r], pc[r])'
      <4>1. y = [x EXCEPT !.names = x.names \cup {n}, !.serving = x.serving \/ s,
                          !.enabled = x.enabled \/ e]
        BY <3>6
      <4>2. entities'[x.wallet].name = n /\ (Removed' \/ s) /\ (disabled' \/ e)
        BY <3>4, <3>5, <3>6
      <4>3. x \in Request(x.balances) /\ x.wallet \in Wallets
        BY <3>6 DEF Passed, Watched
      <4>4. /\ y \in Request(x.balances) /\ y.wallet = x.wallet /\ y.name = x.name /\ y.ops = x.ops
            /\ y.channel = x.channel /\ y.balances = x.balances /\ y.names = x.names \cup {n}
            /\ y.serving = (x.serving \/ s) /\ y.enabled = (x.enabled \/ e)
        <5>1. (x.serving \/ s) \in BOOLEAN /\ (x.enabled \/ e) \in BOOLEAN
              /\ x.names \cup {n} \in SUBSET (Emails \cup {NoName})
          BY <4>3, <3>6, RequestFields
        <5> QED BY <5>1, <4>1, <4>3 DEF Request
      <4>5. Watched(y)'
        BY <4>2, <4>3, <4>4 DEF Watched
      <4> HIDE DEF p, q, stage
      <4>6. Passed(y, z)'
        BY <4>4, <4>5, <3>6, Noticing
      <4> QED BY <4>6, <3>1, <3>6, <2>1
    <3> HIDE DEF p, q, stage
    <3> QED BY <3>3, <3>4, <3>6, <2>1, <2>2
  <2>3. CASE stage \notin Open
    <3>1. request'[r] = q
      BY <2>3 DEF Noticed
    <3>2. ASSUME NEW x, NEW z, Passed(x, z), z \notin Open, x = q, z = stage
          PROVE  Passed(request[r], pc[r])'
      <4>1. z \notin Open \ {"APPROVAL"} /\ z \notin Open \ {"APPROVAL", "INTERACTION"}
        BY <3>2
      <4>2. Passed(x, z)'
        BY <3>2, <4>1 DEF Passed
      <4> QED BY <4>2, <3>1, <3>2, <2>1
    <3> QED BY <3>2, <2>1, <2>3
  <2> QED BY <2>2, <2>3
<1>3. pc' \in [Requests -> Stages] /\ ledger' \in 1..MaxLedger /\ builtAt' \in [Requests -> 0..MaxLedger]
  BY DEF GateInv
<1> QED BY <1>1, <1>2, <1>3 DEF GateInv

LEMMA RegisterKeeps ==
  ASSUME GateInv, NEW w \in Wallets, NEW name \in Emails \cup {NoName}, Register(w, name)
  PROVE  GateInv'
<1>1. EntityWrite /\ Noticed /\ UNCHANGED <<pc, ledger, builtAt, memberships, disabled>>
  BY DEF Register, EntityWrite, chain
<1>2. EntityTypeOK /\ EntityTypeOK'
  BY <1>1, EntityWriteTyped DEF GateInv
<1>3. \A v \in Wallets : Approved(v) => Approved(v)'
  BY <1>1, <1>2, EntityWriteKeeps
<1>4. memberships' \in [Councils -> {"PENDING", "ACTIVE", "REJECTED"}] /\ disabled' \in BOOLEAN
  BY <1>1 DEF GateInv
<1> QED BY <1>1, <1>2, <1>3, <1>4, NoticedKeeps

LEMMA SetMembershipKeeps ==
  ASSUME GateInv, NEW c \in Councils, NEW status \in {"ACTIVE", "REJECTED"}, SetMembership(c, status)
  PROVE  GateInv'
<1>1. /\ memberships' = [memberships EXCEPT ![c] = status] /\ Noticed
      /\ UNCHANGED <<pc, ledger, builtAt, disabled, entities>>
  BY DEF SetMembership, chain
<1>2. memberships' \in [Councils -> {"PENDING", "ACTIVE", "REJECTED"}] /\ disabled' \in BOOLEAN
  BY <1>1 DEF GateInv
<1>3. EntityTypeOK' /\ \A v \in Wallets : Approved(v) => Approved(v)'
  BY <1>1 DEF GateInv, EntityTypeOK, Approved
<1> QED BY <1>1, <1>2, <1>3, NoticedKeeps

LEMMA SetChannelKeeps == GateInv /\ SetChannel => GateInv'
<1> SUFFICES ASSUME GateInv, SetChannel PROVE GateInv'
  OBVIOUS
<1>1. /\ disabled' = ~disabled /\ Noticed
      /\ UNCHANGED <<pc, ledger, builtAt, memberships, entities>>
  BY DEF SetChannel, chain
<1>2. memberships' \in [Councils -> {"PENDING", "ACTIVE", "REJECTED"}] /\ disabled' \in BOOLEAN
  BY <1>1 DEF GateInv
<1>3. EntityTypeOK' /\ \A v \in Wallets : Approved(v) => Approved(v)'
  BY <1>1 DEF GateInv, EntityTypeOK, Approved
<1> QED BY <1>1, <1>2, <1>3, NoticedKeeps

-----------------------------------------------------------------------------
(* Sequences: what is kept of one, and what it adds up to *)

LEMMA InOrderOfNumbers ==
  ASSUME NEW S \in SUBSET Nat, IsFiniteSet(S)
  PROVE  /\ InOrder(S, <) \in [1..Cardinality(S) -> S]
         /\ \A i, j \in 1..Cardinality(S) : i < j => InOrder(S, <)[i] < InOrder(S, <)[j]
         /\ \A x \in S : \E i \in 1..Cardinality(S) : InOrder(S, <)[i] = x
<1> DEFINE R == {p \in S \X S : p[1] < p[2]}
<1>1. \A x, y \in S : <<x, y>> \in R <=> x < y
  OBVIOUS
<1>2. IsOrder(R, S)
  <2>1. \A x, y \in S : x # y => x < y \/ y < x
    OBVIOUS
  <2>2. \A x, y, z \in S : x < y /\ y < z => x < z
    OBVIOUS
  <2>3. \A x \in S : ~(x < x)
    OBVIOUS
  <2> HIDE DEF R
  <2> QED BY <1>1, <2>1, <2>2, <2>3 DEF IsOrder
<1> HIDE DEF R
<1>3. ASSUME NEW f \in [1..Cardinality(S) -> S]
      PROVE  (\A i, j \in 1..Cardinality(S) : i < j => f[i] < f[j]) <=> Enumerates(f, S, R)
  BY <1>1 DEF Enumerates
<1>4. \E f \in [1..Cardinality(S) -> S] : \A i, j \in 1..Cardinality(S) : i < j => f[i] < f[j]
  <2>1. PICK f : Enumerates(f, S, R)
    BY <1>2, OrderedEnumeration
  <2> QED BY <2>1, <1>3 DEF Enumerates
<1>5. /\ InOrder(S, <) \in [1..Cardinality(S) -> S]
      /\ \A i, j \in 1..Cardinality(S) : i < j => InOrder(S, <)[i] < InOrder(S, <)[j]
  BY <1>4 DEF InOrder
<1>6. ASSUME NEW f \in [1..Cardinality(S) -> S], \A i, j \in 1..Cardinality(S) : i < j => f[i] < f[j]
      PROVE  \A x \in S : \E i \in 1..Cardinality(S) : f[i] = x
  <2>1. Enumerates(f, S, R)
    BY <1>3, <1>6
  <2>2. IsFiniteSet(S) /\ IsOrder(R, S)
    BY <1>2
  <2>3. Covers(f, S)
    BY <2>1, <2>2, EnumerationComplete
  <2> QED BY <2>3 DEF Covers
<1> QED BY ONLY <1>5, <1>6, Zenon

\* order lists these places of s from the first to the last.
KeptBy(order, s, places) ==
  /\ order \in [1..Cardinality(places) -> places]
  /\ Kept(s, places) = [k \in 1..Cardinality(places) |-> s[order[k]]]
  /\ \A i, j \in 1..Cardinality(places) : i < j => order[i] < order[j]
  /\ Covers(order, places)

\* What is kept of a sequence comes from the places in order, all of them.
LEMMA KeptPlaces ==
  ASSUME NEW n \in Nat, NEW s, NEW places \in SUBSET (1..n)
  PROVE  Cardinality(places) \in Nat /\ \E order : KeptBy(order, s, places)
<1>1. IsFiniteSet(1..n)
  BY FS_Interval
<1>2. IsFiniteSet(places) /\ Cardinality(places) \in Nat
  BY <1>1, FS_Subset, FS_CardinalityType
<1>3. places \in SUBSET Nat
  OBVIOUS
<1> QED BY <1>2, <1>3, InOrderOfNumbers, Zenon DEF Kept, KeptBy, Covers

LEMMA KeptSequence ==
  ASSUME NEW D, NEW s \in Seq(D), NEW places \in SUBSET DOMAIN s
  PROVE  /\ Kept(s, places) \in Seq(D)
         /\ \A k \in DOMAIN Kept(s, places) : \E i \in places : Kept(s, places)[k] = s[i]
         /\ \A i \in places : \E k \in DOMAIN Kept(s, places) : Kept(s, places)[k] = s[i]
<1>1. Len(s) \in Nat /\ DOMAIN s = 1..Len(s) /\ \A i \in 1..Len(s) : s[i] \in D
  BY LenProperties, ElementOfSeq
<1>2. places \in SUBSET (1..Len(s))
  BY <1>1
<1>3. PICK order : KeptBy(order, s, places)
  BY <1>1, <1>2, KeptPlaces
<1>4. Cardinality(places) \in Nat
  BY <1>1, <1>2, KeptPlaces
<1>5. \A k \in 1..Cardinality(places) :
        s[order[k]] \in D /\ Kept(s, places)[k] = s[order[k]] /\ order[k] \in places
  BY <1>1, <1>3 DEF KeptBy
<1>6. Kept(s, places) \in Seq(D) /\ DOMAIN Kept(s, places) = 1..Cardinality(places)
  BY <1>3, <1>4, <1>5, IsASeq DEF KeptBy
<1>7. \A i \in places : \E k \in 1..Cardinality(places) : order[k] = i
  BY <1>3 DEF KeptBy, Covers
<1> QED BY <1>5, <1>6, <1>7

LEMMA TotalSums == \A ns : Total(ns) = SumsOf(ns, DOMAIN ns)[DOMAIN ns]
BY DEF Total, FoldSeq, FoldFunction, FoldFunctionOnSet, MapThenFoldSet, SumsOf, IsSum, Added, Pick

\* The sum of a sequence, from its last element.
LEMMA TotalOfNothing ==
  ASSUME NEW ns, DOMAIN ns = {}
  PROVE  Total(ns) = 0
<1>1. SumsOf(ns, {})[{}] = Added(SumsOf(ns, {}), ns, {})
  BY SumsOfAll, FS_EmptySet
<1> QED BY <1>1, TotalSums DEF Added

LEMMA TotalTyped ==
  ASSUME NEW n \in Nat, NEW V \in {Int, Nat}, NEW ns \in [1..n -> V]
  PROVE  Total(ns) \in V
<1>1. IsFiniteSet(1..n) /\ DOMAIN ns = 1..n /\ \A i \in 1..n : ns[i] \in V
  BY FS_Interval
<1>2. SumsOf(ns, 1..n)[1..n] \in V
  BY <1>1, SumsTyped
<1> QED BY <1>1, <1>2, TotalSums

LEMMA TotalAppended ==
  ASSUME NEW n \in Nat, NEW ns \in [1..n -> Int], NEW ms \in [1..n + 1 -> Int],
         \A i \in 1..n : ms[i] = ns[i]
  PROVE  Total(ms) = Total(ns) + ms[n + 1]
<1>1. /\ IsFiniteSet(1..n + 1) /\ DOMAIN ns = 1..n /\ DOMAIN ms = 1..n + 1
      /\ \A i \in 1..n + 1 : ms[i] \in Int
  BY FS_Interval
<1>2. n + 1 \in 1..n + 1 /\ (1..n + 1) \ {n + 1} = 1..n /\ 1..n \in SUBSET (1..n + 1)
  OBVIOUS
<1>3. SumsOf(ms, 1..n + 1)[1..n + 1] = ms[n + 1] + SumsOf(ms, 1..n + 1)[1..n]
  <2>1. ASSUME NEW D, D = 1..n + 1 PROVE SumsOf(ms, D)[D] = ms[n + 1] + SumsOf(ms, D)[D \ {n + 1}]
    <3>1. IsFiniteSet(D) /\ n + 1 \in D
      BY <1>1, <1>2, <2>1
    <3>2. \A i \in D : ms[i] \in Int
      BY <1>1, <2>1
    <3>3. D \in SUBSET D
      OBVIOUS
    <3> QED BY <3>1, <3>2, <3>3, SumsAnyOrder
  <2> QED BY <1>2, <2>1
<1>4. SumsOf(ns, 1..n)[1..n] = SumsOf(ms, 1..n + 1)[1..n]
  BY <1>1, <1>2, SumsAgree
<1>5. Total(ms) = ms[n + 1] + Total(ns)
  BY <1>1, <1>3, <1>4, TotalSums
<1>6. Total(ns) \in Int /\ ms[n + 1] \in Int
  BY <1>1, <1>2, TotalTyped
<1> QED BY <1>5, <1>6

-----------------------------------------------------------------------------
(* The lists of a body *)

\* Places that tell their slots apart by "who" give a list that does.
LEMMA KeptApart ==
  ASSUME NEW D, NEW s \in Seq(D), NEW places \in SUBSET DOMAIN s,
         \A i, j \in places : s[i].who = s[j].who => i = j
  PROVE  \A k, l \in DOMAIN Kept(s, places) : Kept(s, places)[k].who = Kept(s, places)[l].who => k = l
<1>1. Len(s) \in Nat /\ DOMAIN s = 1..Len(s)
  BY LenProperties
<1>2. places \in SUBSET (1..Len(s))
  BY <1>1
<1>3. PICK order : KeptBy(order, s, places)
  BY <1>1, <1>2, KeptPlaces
<1>4. Cardinality(places) \in Nat
  BY <1>1, <1>2, KeptPlaces
<1>5. DOMAIN Kept(s, places) = 1..Cardinality(places)
  BY <1>3 DEF KeptBy
<1>6. ASSUME NEW k \in 1..Cardinality(places), NEW l \in 1..Cardinality(places),
             Kept(s, places)[k].who = Kept(s, places)[l].who
      PROVE  k = l
  <2>1. Kept(s, places)[k] = s[order[k]] /\ Kept(s, places)[l] = s[order[l]]
    BY <1>3 DEF KeptBy
  <2>2. order[k] \in places /\ order[l] \in places
    BY <1>3 DEF KeptBy
  <2>3. order[k] = order[l]
    BY <1>6, <2>1, <2>2
  <2>4. order[k] \in Nat
    BY <2>2, <1>2
  <2>5. ~(k < l) /\ ~(l < k)
    BY <1>3, <2>3, <2>4 DEF KeptBy
  <2> QED BY <1>4, <2>5
<1> QED BY <1>5, <1>6

LEMMA KeptNothing ==
  ASSUME NEW D, NEW s \in Seq(D), NEW places \in SUBSET DOMAIN s, places = {}
  PROVE  Kept(s, places) = <<>>
<1>1. \A k \in DOMAIN Kept(s, places) : FALSE
  BY KeptSequence
<1>2. Kept(s, places) \in Seq(D)
  BY KeptSequence
<1>3. Len(Kept(s, places)) \in Nat /\ DOMAIN Kept(s, places) = 1..Len(Kept(s, places))
  BY <1>2, LenProperties
<1>4. Len(Kept(s, places)) = 0
  <2>1. PICK n \in Nat : n = Len(Kept(s, places)) /\ DOMAIN Kept(s, places) = 1..n
    BY <1>3
  <2>2. 1 \notin 1..n
    BY <1>1, <2>1
  <2>3. n = 0
    BY <2>2
  <2> QED BY <2>1, <2>3
<1> QED BY <1>2, <1>4, EmptySeq

LEMMA ListOfKind ==
  ASSUME NEW slots \in Seq(Slot), NEW kind
  PROVE  /\ OfKind(kind, slots) \in Seq(Slot)
         /\ \A k \in DOMAIN OfKind(kind, slots) : \E i \in At(kind, slots) : OfKind(kind, slots)[k] = slots[i]
         /\ \A i \in At(kind, slots) : \E k \in DOMAIN OfKind(kind, slots) : OfKind(kind, slots)[k] = slots[i]
         /\ At(kind, slots) \in SUBSET DOMAIN slots
         /\ OfKind(kind, slots) = Kept(slots, At(kind, slots))
<1>1. At(kind, slots) \in SUBSET DOMAIN slots
  BY DEF At
<1>2. OfKind(kind, slots) = Kept(slots, At(kind, slots))
  BY DEF OfKind, At
<1> QED BY <1>1, <1>2, KeptSequence

LEMMA SlotAmounts ==
  ASSUME NEW slots \in Seq(Slot), NEW i \in DOMAIN slots
  PROVE  slots[i] \in Slot /\ slots[i].amount \in Int /\ slots[i].who \in Nat /\ slots[i].kind \in Kinds
<1>1. slots[i] \in Slot
  BY LenProperties, ElementOfSeq
<1> QED BY <1>1 DEF Slot

LEMMA AmountsTyped ==
  ASSUME NEW slots \in Seq(Slot), NEW kind
  PROVE  LET picked == OfKind(kind, slots) IN
         /\ Len(picked) \in Nat /\ DOMAIN picked = 1..Len(picked)
         /\ [i \in DOMAIN picked |-> picked[i].amount] \in [1..Len(picked) -> Int]
<1>1. OfKind(kind, slots) \in Seq(Slot)
  BY ListOfKind
<1>2. \A k \in DOMAIN OfKind(kind, slots) : OfKind(kind, slots)[k].amount \in Int
  BY <1>1, SlotAmounts
<1> QED BY <1>1, <1>2, LenProperties

LEMMA TotalsTyped ==
  ASSUME NEW slots \in Seq(Slot), NEW kind
  PROVE  /\ TotalOf(kind, slots) \in Int
         /\ (\A i \in At(kind, slots) : slots[i].amount >= 0) => TotalOf(kind, slots) \in Nat
         /\ At(kind, slots) = {} => TotalOf(kind, slots) = 0
<1> DEFINE picked == OfKind(kind, slots)
           amounts == [i \in DOMAIN picked |-> picked[i].amount]
<1>1. Len(picked) \in Nat /\ DOMAIN picked = 1..Len(picked) /\ amounts \in [1..Len(picked) -> Int]
  BY AmountsTyped
<1>2. TotalOf(kind, slots) = Total(amounts)
  BY DEF TotalOf
<1>3. \A k \in DOMAIN picked : \E i \in At(kind, slots) : picked[k] = slots[i]
  BY ListOfKind
<1>4. DOMAIN amounts = DOMAIN picked /\ \A k \in DOMAIN picked : amounts[k] = picked[k].amount
  OBVIOUS
<1> HIDE DEF picked, amounts
<1>5. Total(amounts) \in Int
  BY <1>1, TotalTyped
<1>6. ASSUME \A i \in At(kind, slots) : slots[i].amount >= 0 PROVE Total(amounts) \in Nat
  <2>1. ASSUME NEW k \in 1..Len(picked) PROVE amounts[k] \in Nat
    <3>1. PICK i \in At(kind, slots) : picked[k] = slots[i]
      BY <1>1, <1>3
    <3>2. amounts[k] = slots[i].amount
      BY <1>1, <1>4, <3>1
    <3>3. slots[i].amount >= 0
      BY <1>6
    <3> QED BY <1>1, <3>2, <3>3
  <2>2. amounts \in [1..Len(picked) -> Nat]
    BY <1>1, <2>1
  <2> QED BY <1>1, <2>2, TotalTyped
<1>7. ASSUME At(kind, slots) = {} PROVE Total(amounts) = 0
  <2>1. DOMAIN amounts = {}
    BY <1>3, <1>4, <1>7
  <2> QED BY <2>1, TotalOfNothing
<1> QED BY <1>2, <1>5, <1>6, <1>7

LEMMA SpendsListed ==
  ASSUME NEW slots \in Seq(Slot)
  PROVE  /\ DOMAIN SpendUtxos(slots) = DOMAIN OfKind("SPEND", slots)
         /\ DOMAIN SpendUtxos(slots) = 1..Len(OfKind("SPEND", slots))
         /\ Len(OfKind("SPEND", slots)) \in Nat
         /\ \A k \in DOMAIN SpendUtxos(slots) :
              SpendUtxos(slots)[k] = OfKind("SPEND", slots)[k].who /\ SpendUtxos(slots)[k] \in Nat
<1>1. OfKind("SPEND", slots) \in Seq(Slot)
  BY ListOfKind
<1>2. \A k \in DOMAIN OfKind("SPEND", slots) : OfKind("SPEND", slots)[k].who \in Nat
  BY <1>1, SlotAmounts
<1> QED BY <1>1, <1>2, LenProperties DEF SpendUtxos

-----------------------------------------------------------------------------
(* The fee balances the bundle *)

LEMMA PayloadTotal ==
  ASSUME NEW slots \in Seq(Slot), NEW kind
  PROVE  SumOf(Payload(OfKind(kind, slots))) = TotalOf(kind, slots)
<1> DEFINE picked == OfKind(kind, slots)
<1>1. \A i \in DOMAIN picked : Payload(picked)[i].amount = picked[i].amount
  BY DEF Payload
<1>2. DOMAIN Payload(picked) = DOMAIN picked
  BY DEF Payload
<1>3. [i \in DOMAIN Payload(picked) |-> Payload(picked)[i].amount] = [i \in DOMAIN picked |-> picked[i].amount]
  BY <1>1, <1>2
<1> QED BY <1>3 DEF SumOf, TotalOf

\* What is paid is what was picked of the body, and last of all the fee.
PaidWithFee(paid, picked, n, key, fee) ==
  /\ n \in Nat /\ DOMAIN paid = 1..n + 1 /\ DOMAIN picked = 1..n
  /\ paid[n + 1].who = key /\ paid[n + 1].amount = fee
  /\ \A i \in 1..n : paid[i].who = picked[i].who /\ paid[i].amount = picked[i].amount

LEMMA PayloadWithFee ==
  ASSUME NEW slots \in Seq(Slot), NEW kind, NEW key, NEW fee
  PROVE  PaidWithFee(Append(Payload(OfKind(kind, slots)), FeeCreate(key, fee)),
                     OfKind(kind, slots), Len(OfKind(kind, slots)), key, fee)
<1>0. PICK picked : picked = OfKind(kind, slots)
  OBVIOUS
<1>1. PICK n \in Nat : n = Len(picked) /\ DOMAIN picked = 1..n
  BY <1>0, AmountsTyped
<1> DEFINE paid == Append(Payload(picked), FeeCreate(key, fee))
<1>2. PICK payload : payload = Payload(picked)
  OBVIOUS
<1>3. payload = [i \in 1..n |-> [who |-> picked[i].who, amount |-> picked[i].amount]]
  BY <1>1, <1>2 DEF Payload
<1>4. payload \in Seq({payload[i] : i \in 1..n})
  BY <1>3, IsASeq
<1>5. Len(payload) = n
  BY <1>3, <1>4, LenProperties
<1>6. /\ DOMAIN paid = 1..n + 1 /\ paid[n + 1] = FeeCreate(key, fee)
      /\ \A i \in 1..n : paid[i] = payload[i]
  BY <1>2, <1>4, <1>5, AppendProperties, LenProperties
<1> HIDE DEF paid
<1>7. PaidWithFee(paid, picked, n, key, fee)
  BY <1>1, <1>3, <1>6 DEF FeeCreate, PaidWithFee
<1> QED BY <1>0, <1>1, <1>7 DEF paid

LEMMA PayloadTotalWithFee ==
  ASSUME NEW slots \in Seq(Slot), NEW kind, NEW key, NEW fee \in Int
  PROVE  SumOf(Append(Payload(OfKind(kind, slots)), FeeCreate(key, fee))) = TotalOf(kind, slots) + fee
<1>1. PICK picked : picked = OfKind(kind, slots)
  OBVIOUS
<1>2. /\ Len(picked) \in Nat /\ DOMAIN picked = 1..Len(picked)
      /\ [i \in DOMAIN picked |-> picked[i].amount] \in [1..Len(picked) -> Int]
  BY <1>1, AmountsTyped
<1>4. PICK n \in Nat : n = Len(picked)
  BY <1>2
<1>5. PICK paid : paid = Append(Payload(picked), FeeCreate(key, fee))
  OBVIOUS
<1>6. DOMAIN paid = 1..n + 1 /\ paid[n + 1].amount = fee /\ \A i \in 1..n : paid[i].amount = picked[i].amount
  <2>1. PaidWithFee(paid, picked, n, key, fee)
    BY <1>1, <1>4, <1>5, PayloadWithFee
  <2> QED BY <2>1 DEF PaidWithFee
<1> DEFINE ns == [i \in DOMAIN picked |-> picked[i].amount]
           ms == [i \in DOMAIN paid |-> paid[i].amount]
<1>7. ns \in [1..n -> Int] /\ ms \in [1..n + 1 -> Int] /\ ms[n + 1] = fee /\ \A i \in 1..n : ms[i] = ns[i]
  <2>1. ns \in [1..n -> Int] /\ \A i \in 1..n : ns[i] = picked[i].amount
    BY <1>2, <1>4
  <2>2. DOMAIN ms = 1..n + 1 /\ ms[n + 1] = fee /\ (\A i \in 1..n : ms[i] = picked[i].amount) /\ ms = [i \in 1..n + 1 |-> ms[i]]
    BY <1>6
  <2> HIDE DEF ns, ms
  <2>3. \A i \in 1..n + 1 : ms[i] \in Int
    <3>1. \A i \in 1..n + 1 : i = n + 1 \/ i \in 1..n
      OBVIOUS
    <3> QED BY <2>1, <2>2, <3>1
  <2> QED BY <2>1, <2>2, <2>3
<1>8. SumOf(paid) = Total(ms) /\ TotalOf(kind, slots) = Total(ns)
  BY <1>1 DEF SumOf, TotalOf
<1> HIDE DEF ns, ms
<1>9. Total(ms) = Total(ns) + ms[n + 1]
  BY <1>7, TotalAppended
<1> QED BY <1>1, <1>5, <1>7, <1>8, <1>9

\* A bundle that does not mix deposits and spends balances with the fee of
\* admission, while the balances are those it was derived from.
LEMMA BalancedWithFee ==
  ASSUME NEW slots \in Seq(Slot), Unmixed(slots),
         NEW balances \in [DOMAIN SpendUtxos(slots) -> Int], NEW bal,
         \A i \in DOMAIN SpendUtxos(slots) : bal[SpendUtxos(slots)[i]] = balances[i],
         NEW key
  PROVE  Balanced(ChannelOperation(slots, FeeCreate(key, Fee(slots, balances))), bal)
<1>1. PICK n \in Nat : DOMAIN SpendUtxos(slots) = 1..n
  BY SpendsListed
<1>2. Total(balances) \in Int
  BY <1>1, TotalTyped
<1>3. BalancesOf(Keys(Payload(OfKind("SPEND", slots))), bal) = Total(balances)
  <2>1. Keys(Payload(OfKind("SPEND", slots))) = SpendUtxos(slots)
    BY DEF Keys, Payload, SpendUtxos
  <2>2. [i \in DOMAIN SpendUtxos(slots) |-> bal[SpendUtxos(slots)[i]]] = balances
    OBVIOUS
  <2> QED BY <2>1, <2>2 DEF BalancesOf
<1>4. Fee(slots, balances) \in Int
  BY <1>2, TotalsTyped DEF Fee, Outflows
<1> DEFINE op == ChannelOperation(slots, FeeCreate(key, Fee(slots, balances)))
<1>5. /\ SumOf(op.deposit) = TotalOf("DEPOSIT", slots)
      /\ SumOf(op.create) = TotalOf("CREATE", slots) + Fee(slots, balances)
      /\ SumOf(op.withdraw) = TotalOf("WITHDRAW", slots)
      /\ BalancesOf(Keys(op.spend), bal) = Total(balances)
  BY <1>3, <1>4, PayloadTotal, PayloadTotalWithFee DEF ChannelOperation
<1>6. TotalOf("DEPOSIT", slots) \in Nat
  BY TotalsTyped DEF Unmixed
<1>7. TotalOf("DEPOSIT", slots) = 0 \/ Total(balances) = 0
  <2>1. CASE At("DEPOSIT", slots) = {}
    BY <2>1, TotalsTyped
  <2>2. CASE At("SPEND", slots) = {}
    <3>1. DOMAIN SpendUtxos(slots) = {}
      BY <2>2, ListOfKind, SpendsListed
    <3> QED BY <3>1, TotalOfNothing
  <2> QED BY <2>1, <2>2 DEF Unmixed
<1>8. /\ TotalOf("CREATE", slots) \in Int /\ TotalOf("WITHDRAW", slots) \in Int
      /\ Fee(slots, balances) = IF TotalOf("DEPOSIT", slots) <= 0
           THEN Total(balances) - (TotalOf("CREATE", slots) + TotalOf("WITHDRAW", slots))
           ELSE TotalOf("DEPOSIT", slots) - (TotalOf("CREATE", slots) + TotalOf("WITHDRAW", slots))
  BY TotalsTyped DEF Fee, Outflows
<1> HIDE DEF op
<1>9. TotalOf("DEPOSIT", slots) + Total(balances) = TotalOf("CREATE", slots) + Fee(slots, balances) + TotalOf("WITHDRAW", slots)
  BY ONLY <1>2, <1>6, <1>7, <1>8
<1>10. Balanced(op, bal)
  BY <1>5, <1>9 DEF Balanced
<1> QED BY <1>10 DEF op

-----------------------------------------------------------------------------
(* The entries of the transaction *)

\* The place of the first entry of this account, 0 if there is none.
First(signed, a) ==
  LET places == {i \in 1..Len(signed) : signed[i].who = a} IN IF places # {} THEN Min(places) ELSE 0

LEMMA FirstEntry ==
  ASSUME NEW signed \in Seq(Slot), NEW a
  PROVE  /\ First(signed, a) # 0 => First(signed, a) \in DOMAIN signed /\ signed[First(signed, a)].who = a
         /\ (\E i \in DOMAIN signed : signed[i].who = a) => First(signed, a) # 0
<1> DEFINE places == {i \in 1..Len(signed) : signed[i].who = a}
<1>1. DOMAIN signed = 1..Len(signed) /\ Len(signed) \in Nat /\ places \in SUBSET Nat
  BY LenProperties
<1>2. ASSUME places # {} PROVE Min(places) \in places
  <2>1. \E n \in places : \A m \in places : n <= m
    BY <1>1, <1>2, LeastNatural
  <2> HIDE DEF places
  <2> QED BY <2>1 DEF Min
<1>3. CASE places = {}
  BY <1>1, <1>3 DEF First
<1>4. CASE places # {}
  <2>1. First(signed, a) = Min(places)
    BY <1>4 DEF First
  <2> QED BY <1>1, <1>2, <1>4, <2>1
<1> QED BY <1>3, <1>4

\* The entry of the client that takes the place of this one.
Replaced(signed, e) ==
  IF e.type = "CONTRACT" THEN e
  ELSE LET s == signed[First(signed, e.account)] IN AccountEntry(s.who, s.sig.nonce, s.sig.exp)

Spliced(auth, signed) ==
  Kept(auth, {i \in DOMAIN auth : auth[i].type = "CONTRACT" \/ First(signed, auth[i].account) # 0})

LEMMA SpliceInPlaces ==
  ASSUME NEW auth, NEW signed
  PROVE  Splice(auth, signed) =
           [k \in DOMAIN Spliced(auth, signed) |-> Replaced(signed, Spliced(auth, signed)[k])]
BY DEF Splice, Spliced, Replaced, First, SelectInSeq

LEMMA AuthorizingAccountsListed ==
  ASSUME NEW slots \in Seq(Slot)
  PROVE  LET accounts == AuthorizingAccounts(slots) IN
         /\ Cardinality(accounts) \in Nat
         /\ SetToSeq(accounts) \in [1..Cardinality(accounts) -> accounts]
         /\ \A a \in accounts : \E i \in 1..Cardinality(accounts) : SetToSeq(accounts)[i] = a
<1> DEFINE places == {j \in DOMAIN slots : slots[j].kind = "DEPOSIT"}
<1>1. PICK accounts : accounts = AuthorizingAccounts(slots)
  OBVIOUS
<1>2. accounts = {slots[i].who : i \in places}
  BY <1>1 DEF AuthorizingAccounts
<1>3. IsFiniteSet(DOMAIN slots)
  BY LenProperties, FS_Interval
<1>4. IsFiniteSet(places)
  BY <1>3, FS_Subset
<1>5. IsFiniteSet(accounts)
  <2> DEFINE f == [i \in places |-> slots[i].who]
  <2>1. f \in Surjection(places, accounts)
    BY <1>2 DEF Surjection
  <2> HIDE DEF places, f
  <2> QED BY <1>4, <2>1, FS_Surjection
<1>6. accounts \in SUBSET Nat
  BY <1>2, SlotAmounts
<1>7. Cardinality(accounts) \in Nat
  BY <1>5, FS_CardinalityType
<1>8. \E f \in [1..Cardinality(accounts) -> accounts] : IsInjective(f)
  <2>1. PICK f : f \in [1..Cardinality(accounts) -> accounts] /\ \A i, j \in 1..Cardinality(accounts) : i < j => f[i] < f[j]
    BY <1>5, <1>6, InOrderOfNumbers, Zenon
  <2>2. \A i, j \in 1..Cardinality(accounts) : f[i] = f[j] => ~(i < j) /\ ~(j < i)
    <3>1. \A i \in 1..Cardinality(accounts) : f[i] \in Nat
      BY <1>6, <2>1
    <3>2. \A x \in Nat : ~(x < x)
      OBVIOUS
    <3> QED BY <2>1, <3>1, <3>2
  <2>3. \A i, j \in 1..Cardinality(accounts) : f[i] = f[j] => i = j
    BY <1>7, <2>2
  <2> QED BY <2>1, <2>3 DEF IsInjective
<1>9. SetToSeq(accounts) \in [1..Cardinality(accounts) -> accounts] /\ IsInjective(SetToSeq(accounts))
  BY <1>8 DEF SetToSeq
<1>10. \A a \in accounts : \E i \in 1..Cardinality(accounts) : SetToSeq(accounts)[i] = a
  <2>1. PICK f : f = SetToSeq(accounts)
    OBVIOUS
  <2>2. f \in Injection(1..Cardinality(accounts), accounts)
    BY <1>9, <2>1 DEF Injection, IsInjective
  <2>3. Cardinality(1..Cardinality(accounts)) = Cardinality(accounts)
    BY <1>7, FS_Interval
  <2>4. f \in Surjection(1..Cardinality(accounts), accounts)
    BY <1>5, <2>2, <2>3, FS_Injection
  <2> QED BY <2>1, <2>4 DEF Surjection
<1> QED BY <1>1, <1>7, <1>9, <1>10

Placeholders == {ContractEntry} \cup {AccountEntry(a, Placeholder, 0) : a \in Nat}

LEMMA SimulatedEntries ==
  ASSUME NEW slots \in Seq(Slot)
  PROVE  /\ Simulated(slots) \in Seq(Placeholders)
         /\ \A a \in AuthorizingAccounts(slots) : \E i \in DOMAIN Simulated(slots) :
              Simulated(slots)[i] = AccountEntry(a, Placeholder, 0)
<1>0. PICK accounts : accounts = AuthorizingAccounts(slots)
  OBVIOUS
<1>1. PICK n \in Nat : accounts = AuthorizingAccounts(slots) /\ n = Cardinality(accounts)
  BY <1>0, AuthorizingAccountsListed
<1>2. accounts \in SUBSET Nat
  BY <1>1, SlotAmounts DEF AuthorizingAccounts
<1>3. PICK listed \in [1..n -> accounts] :
        listed = SetToSeq(accounts) /\ \A a \in accounts : \E i \in 1..n : listed[i] = a
  BY <1>1, AuthorizingAccountsListed
<1> DEFINE asked == [i \in 1..n |-> AccountEntry(listed[i], Placeholder, 0)]
<1>4. Simulated(slots) = <<ContractEntry>> \o asked
  BY <1>1, <1>3 DEF Simulated
<1>5. asked \in Seq(Placeholders) /\ DOMAIN asked = 1..n /\ \A i \in 1..n : asked[i] = AccountEntry(listed[i], Placeholder, 0)
  <2>1. \A i \in 1..n : asked[i] \in Placeholders
    BY <1>2, <1>3 DEF Placeholders
  <2> QED BY <2>1, IsASeq
<1> HIDE DEF asked
<1>6. Len(asked) = n
  BY <1>5, LenProperties
<1>7. <<ContractEntry>> \in Seq(Placeholders) /\ Len(<<ContractEntry>>) = 1
  BY DEF Placeholders
<1>8. Simulated(slots) \in Seq(Placeholders) /\ Len(Simulated(slots)) = 1 + n
      /\ \A i \in 1..n : Simulated(slots)[1 + i] = asked[i]
  <2>1. /\ Simulated(slots) \in Seq(Placeholders) /\ Len(Simulated(slots)) = 1 + n
        /\ \A i \in 1..1 + n : Simulated(slots)[i] = IF i <= 1 THEN <<ContractEntry>>[i] ELSE asked[i - 1]
    BY <1>4, <1>5, <1>6, <1>7, ConcatProperties
  <2>2. \A i \in 1..n : 1 + i \in 1..1 + n /\ ~(1 + i <= 1) /\ (1 + i) - 1 = i
    OBVIOUS
  <2> QED BY <2>1, <2>2
<1>9. ASSUME NEW a \in accounts
      PROVE  \E i \in DOMAIN Simulated(slots) : Simulated(slots)[i] = AccountEntry(a, Placeholder, 0)
  <2>1. PICK i \in 1..n : listed[i] = a
    BY <1>3
  <2>2. 1 + i \in DOMAIN Simulated(slots)
    BY <1>8, LenProperties
  <2> QED BY <1>5, <1>8, <2>1, <2>2
<1> QED BY <1>1, <1>8, <1>9

\* The entry of this account is one of the client's.
HasEntry(auth, signed, a) ==
  \E k \in DOMAIN auth : \E i \in DOMAIN signed :
    signed[i].who = a /\ auth[k] = AccountEntry(a, signed[i].sig.nonce, signed[i].sig.exp)

\* The contract's entry stays, every other one is the client's.
LEMMA SpliceEntries ==
  ASSUME NEW slots \in Seq(Slot), NEW signed \in Seq(Slot)
  PROVE  LET auth == Splice(Simulated(slots), signed) IN
         /\ \A k \in DOMAIN auth : \/ auth[k] = ContractEntry
                                   \/ \E a, nonce, exp : auth[k] = AccountEntry(a, nonce, exp)
         /\ \A a \in AuthorizingAccounts(slots) : (\E i \in DOMAIN signed : signed[i].who = a) =>
              HasEntry(auth, signed, a)
<1>1. PICK sim \in Seq(Placeholders) :
        /\ sim = Simulated(slots)
        /\ \A a \in AuthorizingAccounts(slots) : \E i \in DOMAIN sim : sim[i] = AccountEntry(a, Placeholder, 0)
  BY SimulatedEntries
<1> DEFINE places == {i \in DOMAIN sim : sim[i].type = "CONTRACT" \/ First(signed, sim[i].account) # 0}
<1>2. places \in SUBSET DOMAIN sim
  OBVIOUS
<1>3. PICK kept : kept = Spliced(sim, signed)
  OBVIOUS
<1>4. kept = Kept(sim, places)
  BY <1>3 DEF Spliced
<1>5. /\ \A k \in DOMAIN kept : \E i \in places : kept[k] = sim[i]
      /\ \A i \in places : \E k \in DOMAIN kept : kept[k] = sim[i]
  <2> HIDE DEF places
  <2> QED BY <1>2, <1>4, KeptSequence
<1>6. PICK auth : auth = Splice(Simulated(slots), signed)
  OBVIOUS
<1>7. auth = [k \in DOMAIN kept |-> Replaced(signed, kept[k])]
  BY <1>1, <1>3, <1>6, SpliceInPlaces
<1>8. \A i \in DOMAIN sim : sim[i] \in Placeholders
  BY <1>1, LenProperties, ElementOfSeq
<1>9. ASSUME NEW k \in DOMAIN auth
      PROVE  auth[k] = ContractEntry \/ \E a, nonce, exp : auth[k] = AccountEntry(a, nonce, exp)
  <2>1. kept[k] \in Placeholders /\ auth[k] = Replaced(signed, kept[k])
    BY <1>5, <1>7, <1>8
  <2>2. CASE kept[k] = ContractEntry
    BY <2>1, <2>2 DEF Replaced, ContractEntry
  <2>3. CASE \E a \in Nat : kept[k] = AccountEntry(a, Placeholder, 0)
    <3>1. kept[k].type # "CONTRACT"
      BY <2>3 DEF AccountEntry
    <3>2. PICK s : s = signed[First(signed, kept[k].account)]
      OBVIOUS
    <3>3. auth[k] = AccountEntry(s.who, s.sig.nonce, s.sig.exp)
      BY <2>1, <3>1, <3>2 DEF Replaced
    <3> QED BY <3>3
  <2> QED BY <2>1, <2>2, <2>3 DEF Placeholders
<1>10. ASSUME NEW a \in AuthorizingAccounts(slots), \E i \in DOMAIN signed : signed[i].who = a
       PROVE  HasEntry(auth, signed, a)
  <2>1. PICK j \in DOMAIN sim : sim[j] = AccountEntry(a, Placeholder, 0)
    BY <1>1
  <2>2. sim[j].account = a /\ sim[j].type # "CONTRACT"
    BY <2>1 DEF AccountEntry
  <2>3. PICK i : i = First(signed, a) /\ i # 0 /\ i \in DOMAIN signed /\ signed[i].who = a
    BY <1>10, FirstEntry
  <2>4. j \in places
    BY <2>2, <2>3
  <2>5. PICK k \in DOMAIN kept : kept[k] = sim[j]
    BY <1>5, <2>4
  <2>6. auth[k] = AccountEntry(a, signed[i].sig.nonce, signed[i].sig.exp) /\ k \in DOMAIN auth
    BY <1>7, <2>2, <2>3, <2>5 DEF Replaced
  <2> QED BY <2>3, <2>6 DEF HasEntry
<1> QED BY <1>6, <1>9, <1>10

-----------------------------------------------------------------------------
(* The signatures of the provider's entry *)

\* order takes the spends by their keys, all of them.
SortsBy(order, spends, n) ==
  /\ order \in [1..n -> 1..n]
  /\ ByUtxo(spends) = [k \in 1..n |-> spends[order[k]]]
  /\ \A i, j \in 1..n : i < j =>
       \/ spends[order[i]].utxo < spends[order[j]].utxo
       \/ spends[order[i]].utxo = spends[order[j]].utxo /\ order[i] < order[j]
  /\ \A x \in 1..n : \E i \in 1..n : order[i] = x

LEMMA SortedSpends ==
  ASSUME NEW n \in Nat, NEW spends, DOMAIN spends = 1..n, \A i \in 1..n : spends[i].utxo \in Nat
  PROVE  \E order : SortsBy(order, spends, n)
<1> DEFINE Before(i, j) == \/ spends[i].utxo < spends[j].utxo
                           \/ spends[i].utxo = spends[j].utxo /\ i < j
           InTurn(f) == \A i, j \in 1..n : i < j => Before(f[i], f[j])
           R == {p \in (1..n) \X (1..n) : Before(p[1], p[2])}
<1>1. IsFiniteSet(1..n) /\ Cardinality(1..n) = n
  BY FS_Interval
<1>2. \A x, y \in 1..n : <<x, y>> \in R <=> Before(x, y)
  OBVIOUS
<1>3. IsOrder(R, 1..n)
  <2>1. \A x \in 1..n : ~Before(x, x)
    OBVIOUS
  <2>2. \A x, y \in 1..n : x # y => Before(x, y) \/ Before(y, x)
    OBVIOUS
  <2>3. \A x, y, z \in 1..n : Before(x, y) /\ Before(y, z) => Before(x, z)
    OBVIOUS
  <2> HIDE DEF R, Before
  <2> QED BY <1>2, <2>1, <2>2, <2>3 DEF IsOrder
<1> HIDE DEF R
<1>4. ASSUME NEW f \in [1..n -> 1..n] PROVE InTurn(f) <=> Enumerates(f, 1..n, R)
  <2> HIDE DEF Before
  <2> QED BY <1>1, <1>2 DEF Enumerates
<1>5. \E f \in [1..n -> 1..n] : InTurn(f)
  <2>1. PICK f : Enumerates(f, 1..n, R)
    BY <1>1, <1>3, OrderedEnumeration
  <2>2. f \in [1..n -> 1..n]
    BY <1>1, <2>1 DEF Enumerates
  <2> HIDE DEF InTurn
  <2> QED BY <1>4, <2>1, <2>2
<1> DEFINE m == Cardinality(DOMAIN spends)
           Sorts(f) == \A i, j \in 1..m : i < j => Before(f[i], f[j])
           order == CHOOSE f \in [1..m -> DOMAIN spends] : Sorts(f)
<1>6. order \in [1..n -> 1..n] /\ InTurn(order)
  <2>1. m = n
    BY <1>1
  <2>2. \A f : Sorts(f) <=> InTurn(f)
    <3> HIDE DEF Before, m
    <3> QED BY <2>1
  <2> HIDE DEF InTurn, Sorts, m
  <2>3. \E f \in [1..m -> DOMAIN spends] : Sorts(f)
    BY <1>5, <2>1, <2>2
  <2>4. order \in [1..m -> DOMAIN spends] /\ Sorts(order)
    BY <2>3
  <2> QED BY <2>1, <2>2, <2>4
<1>7. ByUtxo(spends) = [k \in 1..n |-> spends[order[k]]]
  <2>1. ByUtxo(spends) = [k \in DOMAIN spends |-> spends[order[k]]]
    BY Zenon DEF ByUtxo, InOrder
  <2> HIDE DEF order
  <2> QED BY <2>1
<1> HIDE DEF order
<1>8. \A x \in 1..n : \E i \in 1..n : order[i] = x
  <2>1. Enumerates(order, 1..n, R)
    <3> HIDE DEF InTurn
    <3> QED BY <1>4, <1>6
  <2>2. Covers(order, 1..n)
    BY <1>1, <1>3, <2>1, EnumerationComplete
  <2> QED BY <1>1, <2>2 DEF Covers
<1> QED BY <1>6, <1>7, <1>8 DEF SortsBy

\* A body that names each UTXO it spends once gives signatures in the order of a map,
\* one for every spend that is signed.
LEMMA SpendSignatures ==
  ASSUME NEW slots \in Seq(Slot),
         \A i, j \in At("SPEND", slots) : slots[i].who = slots[j].who => i = j
  PROVE  LET sorted == ByUtxo(UserSpendSignatures(slots)) IN
         /\ \E n \in Nat : DOMAIN sorted = 1..n
         /\ \A i, j \in DOMAIN sorted : i < j => sorted[i].utxo < sorted[j].utxo
         /\ \A k \in DOMAIN sorted : \E i \in DOMAIN slots :
              CarriesSpendSignature(slots[i]) /\ sorted[k].utxo = slots[i].who /\ sorted[k].exp = slots[i].sig.exp
         /\ \A i \in DOMAIN slots : CarriesSpendSignature(slots[i]) =>
              \E k \in DOMAIN sorted : sorted[k].utxo = slots[i].who
<1> DEFINE places == {i \in DOMAIN slots : CarriesSpendSignature(slots[i])}
<1>1. PICK signed : signed = Kept(slots, places)
  OBVIOUS
<1>2. places \in SUBSET DOMAIN slots /\ \A i \in places : i \in At("SPEND", slots)
  BY DEF CarriesSpendSignature, At
<1>3. /\ signed \in Seq(Slot)
      /\ \A k \in DOMAIN signed : \E i \in places : signed[k] = slots[i]
      /\ \A i \in places : \E k \in DOMAIN signed : signed[k] = slots[i]
      /\ \A k, l \in DOMAIN signed : signed[k].who = signed[l].who => k = l
  <2>1. \A i, j \in places : slots[i].who = slots[j].who => i = j
    BY <1>2
  <2> HIDE DEF places
  <2>2. \A k, l \in DOMAIN signed : signed[k].who = signed[l].who => k = l
    BY <1>1, <1>2, <2>1, KeptApart
  <2>3. /\ signed \in Seq(Slot)
        /\ \A k \in DOMAIN signed : \E i \in places : signed[k] = slots[i]
        /\ \A i \in places : \E k \in DOMAIN signed : signed[k] = slots[i]
    BY <1>1, <1>2, KeptSequence
  <2> QED BY <2>2, <2>3
<1>4. PICK n \in Nat : DOMAIN signed = 1..n
  BY <1>3, LenProperties
<1>5. PICK spends : spends = UserSpendSignatures(slots)
  OBVIOUS
<1>6. spends = [k \in 1..n |-> [utxo |-> signed[k].who, exp |-> signed[k].sig.exp]]
  BY <1>1, <1>4, <1>5 DEF UserSpendSignatures
<1>7. DOMAIN spends = 1..n /\ \A k \in 1..n : spends[k].utxo = signed[k].who /\ spends[k].exp = signed[k].sig.exp
  <2>1. DOMAIN spends = 1..n
    BY <1>6
  <2>2. ASSUME NEW k \in 1..n
        PROVE  spends[k].utxo = signed[k].who /\ spends[k].exp = signed[k].sig.exp
    <3>1. spends[k] = [utxo |-> signed[k].who, exp |-> signed[k].sig.exp]
      BY <1>6, <2>2
    <3> QED BY <3>1
  <2> QED BY <2>1, <2>2
<1>8. \A k \in 1..n : spends[k].utxo \in Nat
  BY <1>3, <1>4, <1>7, SlotAmounts
<1>9. PICK order : SortsBy(order, spends, n)
  BY <1>7, <1>8, SortedSpends
<1>10. PICK sorted : sorted = ByUtxo(spends)
  OBVIOUS
<1>11. DOMAIN sorted = 1..n /\ \A k \in 1..n : sorted[k] = spends[order[k]] /\ order[k] \in 1..n
  BY <1>9, <1>10 DEF SortsBy
<1>12. ASSUME NEW i \in 1..n, NEW j \in 1..n, i < j PROVE sorted[i].utxo < sorted[j].utxo
  <2>1. order[i] \in 1..n /\ order[j] \in 1..n
    BY <1>11
  <2>2. spends[order[i]].utxo = spends[order[j]].utxo => ~(order[i] < order[j])
    <3>1. \A k, l \in 1..n : spends[k].utxo = spends[l].utxo => k = l
      <4>1. \A k, l \in 1..n : signed[k].who = signed[l].who => k = l
        BY <1>3, <1>4
      <4> QED BY <4>1, <1>7
    <3> QED BY <2>1, <3>1
  <2>3. spends[order[i]].utxo < spends[order[j]].utxo
    BY <1>9, <1>12, <2>2 DEF SortsBy
  <2> QED BY <1>11, <2>3
<1>13. ASSUME NEW k \in 1..n
       PROVE  \E i \in DOMAIN slots :
                CarriesSpendSignature(slots[i]) /\ sorted[k].utxo = slots[i].who /\ sorted[k].exp = slots[i].sig.exp
  <2>1. PICK i \in places : signed[order[k]] = slots[i]
    BY <1>3, <1>4, <1>11
  <2>2. order[k] \in 1..n /\ sorted[k] = spends[order[k]]
    BY <1>11
  <2>3. spends[order[k]].utxo = slots[i].who /\ spends[order[k]].exp = slots[i].sig.exp
    BY <1>7, <2>1, <2>2
  <2> QED BY <2>2, <2>3
<1>14. ASSUME NEW i \in DOMAIN slots, CarriesSpendSignature(slots[i])
       PROVE  \E k \in 1..n : sorted[k].utxo = slots[i].who
  <2>1. PICK l \in 1..n : signed[l] = slots[i]
    BY <1>3, <1>4, <1>14
  <2>2. PICK k \in 1..n : order[k] = l
    BY <1>9 DEF SortsBy
  <2>3. sorted[k].utxo = slots[i].who
    BY <1>7, <1>11, <2>1, <2>2
  <2> QED BY <2>3
<1> QED BY <1>5, <1>10, <1>11, <1>12, <1>13, <1>14

-----------------------------------------------------------------------------
(* What the contract asks of a bundle as it is built *)

\* What is left of the admission of a sound body once it is in the queue.
Ready(slots) ==
  /\ slots \in Seq(Slot) /\ Sound(slots)
  /\ UnsignedSpends(slots) = {} /\ EntriesReadable(slots)

\* No signature of the body has expired.
Current(slots, now) ==
  \A i \in DOMAIN slots : slots[i].sig.by \in {"OWNER", "PROVIDER"} => now <= slots[i].sig.exp

LEMMA UtxosAreFit ==
  ASSUME NEW slots, Ready(slots), NEW bal, NEW key, NEW fee \in Int, fee > 0,
         \A i \in DOMAIN SpendUtxos(slots) : bal[SpendUtxos(slots)[i]] > 0,
         bal[key] = -1,
         \A i \in At("CREATE", slots) : slots[i].who # key /\ bal[slots[i].who] = -1
  PROVE  UtxosFit(ChannelOperation(slots, FeeCreate(key, fee)), bal)
<1> DEFINE op == ChannelOperation(slots, FeeCreate(key, fee))
<1>1. slots \in Seq(Slot)
  BY DEF Ready
<1>2. PICK spends, creates : spends = OfKind("SPEND", slots) /\ creates = OfKind("CREATE", slots)
  OBVIOUS
<1>3. /\ op.spend = [k \in DOMAIN spends |-> [who |-> spends[k].who, amount |-> spends[k].amount]]
      /\ op.create = Append(Payload(creates), FeeCreate(key, fee))
  BY <1>2 DEF ChannelOperation, Payload
<1>4. DOMAIN op.spend = DOMAIN spends /\ \A k \in DOMAIN spends : op.spend[k].who = spends[k].who
  BY <1>3
<1>5. PICK n \in Nat : n = Len(creates)
  BY <1>1, <1>2, ListOfKind, LenProperties
<1>6. /\ DOMAIN op.create = 1..n + 1 /\ op.create[n + 1].who = key /\ DOMAIN creates = 1..n
      /\ \A k \in 1..n : op.create[k].who = creates[k].who
      /\ op.create[n + 1].amount = fee
      /\ \A k \in 1..n : op.create[k].amount = creates[k].amount
  <2>1. PICK made : made = Append(Payload(creates), FeeCreate(key, fee))
    OBVIOUS
  <2>2. /\ DOMAIN made = 1..n + 1 /\ made[n + 1].who = key /\ DOMAIN creates = 1..n
        /\ \A k \in 1..n : made[k].who = creates[k].who
        /\ made[n + 1].amount = fee
        /\ \A k \in 1..n : made[k].amount = creates[k].amount
    <3>1. PaidWithFee(made, creates, n, key, fee)
      BY <1>1, <1>2, <1>5, <2>1, PayloadWithFee
    <3> QED BY <3>1 DEF PaidWithFee
  <2> QED BY <1>3, <2>1, <2>2
<1> HIDE DEF op
<1>7. ASSUME NEW k \in DOMAIN spends, NEW l \in DOMAIN spends, spends[k].who = spends[l].who
      PROVE  k = l
  <2>1. \A i, j \in At("SPEND", slots) : slots[i].who = slots[j].who => i = j
    BY DEF Ready, Sound
  <2>2. spends = Kept(slots, At("SPEND", slots)) /\ At("SPEND", slots) \in SUBSET DOMAIN slots
    BY <1>1, <1>2, ListOfKind
  <2>3. \A x, y \in DOMAIN spends : spends[x].who = spends[y].who => x = y
    BY <1>1, <2>1, <2>2, KeptApart
  <2> QED BY <1>7, <2>3
<1>8. ASSUME NEW k \in 1..n, NEW l \in 1..n, creates[k].who = creates[l].who
      PROVE  k = l
  <2>1. \A i, j \in At("CREATE", slots) : slots[i].who = slots[j].who => i = j
    BY DEF Ready, Sound
  <2>2. creates = Kept(slots, At("CREATE", slots)) /\ At("CREATE", slots) \in SUBSET DOMAIN slots
    BY <1>1, <1>2, ListOfKind
  <2>3. \A x, y \in DOMAIN creates : creates[x].who = creates[y].who => x = y
    BY <1>1, <2>1, <2>2, KeptApart
  <2> QED BY <1>6, <1>8, <2>3
<1>9. ASSUME NEW k \in 1..n PROVE creates[k].who # key /\ bal[creates[k].who] = -1 /\ creates[k].amount > 0
  <2>1. \A j \in DOMAIN creates : \E i \in At("CREATE", slots) : creates[j] = slots[i]
    BY ONLY <1>1, <1>2, ListOfKind
  <2>2. k \in DOMAIN creates
    BY ONLY <1>6, k \in 1..n
  <2>3. PICK i \in At("CREATE", slots) : creates[k] = slots[i]
    BY ONLY <2>1, <2>2
  <2>4. slots[i].amount > 0
    BY DEF Ready, Sound
  <2> QED BY <2>3, <2>4
<1>10. IsInjective(Keys(op.spend))
  BY <1>4, <1>7 DEF IsInjective, Keys
<1>11. \A i \in 1..n + 1 : i = n + 1 \/ i \in 1..n
  OBVIOUS
<1>12. IsInjective(Keys(op.create))
  <2>1. \A k, l \in 1..n + 1 : op.create[k].who = op.create[l].who => k = l
    BY <1>6, <1>8, <1>9, <1>11
  <2> QED BY <1>6, <2>1 DEF IsInjective, Keys
<1>13. \A i \in DOMAIN op.spend : bal[op.spend[i].who] > 0
  BY <1>1, <1>2, <1>4, SpendsListed
<1>14. \A i \in DOMAIN op.create : bal[op.create[i].who] = -1 /\ op.create[i].amount > 0
  BY <1>6, <1>9, <1>11
<1>15. UtxosFit(op, bal)
  BY <1>10, <1>12, <1>13, <1>14 DEF UtxosFit
<1> QED BY <1>15 DEF op

\* What signing makes of an entry of the simulation.
Signed(auth, made, sorted, exp) ==
  /\ DOMAIN made = DOMAIN auth
  /\ \A i \in DOMAIN auth :
       /\ auth[i] = ContractEntry =>
            /\ made[i].type = "CONTRACT"
            /\ made[i].signatures = Append([k \in DOMAIN sorted |-> P256(sorted[k])], ProviderSig(exp))
       /\ \A a, nonce, until : auth[i] = AccountEntry(a, nonce, until) => made[i] = auth[i]

\* The entries of a transaction, and what the provider signs its own with.
LEMMA AuthEntries ==
  ASSUME NEW slots, Ready(slots), NEW at \in Nat, NEW fee, NEW key
  PROVE  Signed(Splice(Simulated(slots), UserSignedEntries(slots)), Assemble(slots, fee, key, at).auth,
                ByUtxo(UserSpendSignatures(slots)), at + ExpirationOffset)
<1> DEFINE tx == Assemble(slots, fee, key, at)
<1>1. PICK auth, sorted : /\ auth = Splice(Simulated(slots), UserSignedEntries(slots))
                          /\ sorted = ByUtxo(UserSpendSignatures(slots))
  OBVIOUS
<1>2. PICK set : set = SetExpiration(auth, at + ExpirationOffset)
  OBVIOUS
<1>3. /\ DOMAIN set = DOMAIN auth
      /\ \A i \in DOMAIN auth :
           set[i] = IF auth[i].type = "CONTRACT" THEN [auth[i] EXCEPT !.exp = at + ExpirationOffset] ELSE auth[i]
  BY <1>2 DEF SetExpiration
<1>4. tx.auth = SignAuth(set, UserSpendSignatures(slots))
  BY <1>1, <1>2 DEF Assemble
<1> HIDE DEF tx
<1>5. /\ DOMAIN tx.auth = DOMAIN auth
      /\ \A i \in DOMAIN auth :
           tx.auth[i] = IF set[i].type = "CONTRACT"
                          THEN [set[i] EXCEPT !.signatures =
                                  Append([k \in DOMAIN sorted |-> P256(sorted[k])], ProviderSig(set[i].exp))]
                          ELSE set[i]
  BY <1>1, <1>3, <1>4 DEF SignAuth
<1>6. ASSUME NEW i \in DOMAIN auth, auth[i] = ContractEntry
      PROVE  /\ tx.auth[i].type = "CONTRACT"
             /\ tx.auth[i].signatures =
                  Append([k \in DOMAIN sorted |-> P256(sorted[k])], ProviderSig(at + ExpirationOffset))
  <2>1. /\ auth[i].type = "CONTRACT"
        /\ set[i] = [type |-> "CONTRACT", account |-> 0, nonce |-> Placeholder,
                     exp |-> at + ExpirationOffset, signatures |-> <<>>]
    BY <1>3, <1>6 DEF ContractEntry
  <2>2. set[i].type = "CONTRACT" /\ set[i].exp = at + ExpirationOffset
    BY <2>1
  <2>3. tx.auth[i] = [set[i] EXCEPT !.signatures =
                        Append([k \in DOMAIN sorted |-> P256(sorted[k])], ProviderSig(at + ExpirationOffset))]
    BY <1>5, <2>2
  <2> QED BY <2>1, <2>3
<1>7. ASSUME NEW i \in DOMAIN auth, NEW a, NEW nonce, NEW exp, auth[i] = AccountEntry(a, nonce, exp)
      PROVE  tx.auth[i] = auth[i]
  <2>1. auth[i].type = "ACCOUNT"
    BY <1>7 DEF AccountEntry
  <2>2. set[i] = auth[i]
    BY <1>3, <2>1
  <2> QED BY <1>5, <2>1, <2>2
<1>8. Signed(auth, tx.auth, sorted, at + ExpirationOffset)
  BY <1>5, <1>6, <1>7 DEF Signed
<1> QED BY <1>1, <1>8 DEF tx

LEMMA SignaturesAreFit ==
  ASSUME NEW slots, Ready(slots), NEW at \in Nat, NEW fee, NEW key, NEW now \in Nat,
         now <= at + ExpirationOffset, Current(slots, now)
  PROVE  SignaturesFit(Assemble(slots, fee, key, at), now)
<1>1. PICK tx : tx = Assemble(slots, fee, key, at)
  OBVIOUS
<1>2. PICK auth : auth = Splice(Simulated(slots), UserSignedEntries(slots))
  OBVIOUS
<1>3. PICK sorted : sorted = ByUtxo(UserSpendSignatures(slots))
  OBVIOUS
<1>4. PICK sigs : sigs = Append([k \in DOMAIN sorted |-> P256(sorted[k])], ProviderSig(at + ExpirationOffset))
  OBVIOUS
<1>5. slots \in Seq(Slot) /\ ExpirationOffset \in Nat
  BY TransactionAssumption DEF Ready
<1>6. UserSignedEntries(slots) \in Seq(Slot)
  <2> DEFINE places == {i \in DOMAIN slots : CarriesEntry(slots[i])}
  <2>1. places \in SUBSET DOMAIN slots
    OBVIOUS
  <2>2. UserSignedEntries(slots) = Kept(slots, places)
    BY DEF UserSignedEntries
  <2> HIDE DEF places
  <2> QED BY <1>5, <2>1, <2>2, KeptSequence
<1>7. ASSUME NEW i \in DOMAIN tx.auth, tx.auth[i].type = "CONTRACT" PROVE tx.auth[i].signatures = sigs
  <2>1. /\ i \in DOMAIN auth
        /\ auth[i] = ContractEntry => tx.auth[i].signatures = sigs
        /\ \A a, nonce, exp : auth[i] = AccountEntry(a, nonce, exp) => tx.auth[i] = auth[i]
    <3>1. Signed(auth, tx.auth, sorted, at + ExpirationOffset)
      BY <1>1, <1>2, <1>3, AuthEntries
    <3> QED BY <1>4, <1>7, <3>1 DEF Signed
  <2>2. auth[i] = ContractEntry \/ \E a, nonce, exp : auth[i] = AccountEntry(a, nonce, exp)
    BY <1>2, <1>5, <1>6, <2>1, SpliceEntries
  <2>3. \A a, nonce, exp : AccountEntry(a, nonce, exp).type = "ACCOUNT"
    BY DEF AccountEntry
  <2> QED BY <1>7, <2>1, <2>2, <2>3
<1>8. /\ \E n \in Nat : DOMAIN sorted = 1..n
      /\ \A i, j \in DOMAIN sorted : i < j => sorted[i].utxo < sorted[j].utxo
      /\ \A k \in DOMAIN sorted : \E i \in DOMAIN slots :
           CarriesSpendSignature(slots[i]) /\ sorted[k].utxo = slots[i].who /\ sorted[k].exp = slots[i].sig.exp
      /\ \A i \in DOMAIN slots : CarriesSpendSignature(slots[i]) =>
           \E k \in DOMAIN sorted : sorted[k].utxo = slots[i].who
  <2>1. \A i, j \in At("SPEND", slots) : slots[i].who = slots[j].who => i = j
    BY DEF Ready, Sound
  <2> QED BY <1>3, <1>5, <2>1, SpendSignatures
<1>9. PICK n \in Nat : DOMAIN sorted = 1..n
  BY <1>8
<1>10. /\ DOMAIN sigs = 1..n + 1
       /\ sigs[n + 1].signer = "Provider" /\ sigs[n + 1].exp = at + ExpirationOffset
       /\ \A k \in 1..n : sigs[k].signer = "P256" /\ sigs[k].key = sorted[k].utxo /\ sigs[k].exp = sorted[k].exp
  <2>1. PICK clients : clients = [k \in 1..n |-> P256(sorted[k])]
    OBVIOUS
  <2>2. clients \in Seq({clients[k] : k \in 1..n})
    BY <2>1, IsASeq
  <2>3. Len(clients) = n
    BY <2>1, <2>2, LenProperties
  <2>4. sigs = Append(clients, ProviderSig(at + ExpirationOffset))
    BY <1>4, <1>9, <2>1
  <2>5. /\ DOMAIN sigs = 1..n + 1 /\ sigs[n + 1] = ProviderSig(at + ExpirationOffset)
        /\ \A k \in 1..n : sigs[k] = clients[k]
    BY <2>2, <2>3, <2>4, AppendProperties, LenProperties
  <2> QED BY <2>1, <2>5 DEF ProviderSig, P256
<1>11. \A i \in 1..n + 1 : i = n + 1 \/ i \in 1..n
  OBVIOUS
<1>12. IsOrderedMap(sigs)
  <2>1. ASSUME NEW i \in 1..n + 1, NEW j \in 1..n + 1, i < j
        PROVE  \/ sigs[i].signer = "P256" /\ sigs[j].signer = "Provider"
               \/ sigs[i].signer = sigs[j].signer /\ sigs[i].key < sigs[j].key
    <3>1. i \in 1..n
      BY <2>1
    <3>2. CASE j = n + 1
      BY <1>10, <3>1, <3>2
    <3>3. CASE j \in 1..n
      <4>1. sorted[i].utxo < sorted[j].utxo
        BY <1>8, <1>9, <2>1, <3>1, <3>3
      <4> QED BY <1>10, <3>1, <3>3, <4>1
    <3> QED BY <1>11, <3>2, <3>3
  <2> QED BY <1>10, <2>1 DEF IsOrderedMap
<1>13. ASSUME NEW k \in DOMAIN sigs PROVE sigs[k].exp >= now
  <2>1. CASE k = n + 1
    BY <1>5, <1>10, <2>1
  <2>2. CASE k \in 1..n
    <3>1. PICK i \in DOMAIN slots : CarriesSpendSignature(slots[i]) /\ sorted[k].exp = slots[i].sig.exp
      BY <1>8, <1>9, <2>2
    <3>2. now <= slots[i].sig.exp
      BY <3>1 DEF Current, CarriesSpendSignature
    <3>3. slots[i].sig.exp \in Nat
      BY <1>5, <3>1, SlotAmounts DEF Slot
    <3>4. sigs[k].exp = slots[i].sig.exp
      BY <1>10, <2>2, <3>1
    <3> QED BY <3>2, <3>3, <3>4
  <2> QED BY <1>10, <1>11, <2>1, <2>2
<1>14. ASSUME NEW s \in ToSet(Keys(tx.op.spend))
       PROVE  \E k \in DOMAIN sigs : sigs[k].signer = "P256" /\ sigs[k].key = s
  <2>1. tx.op.spend = Payload(OfKind("SPEND", slots))
    BY <1>1 DEF Assemble, ChannelOperation
  <2>2. PICK l \in DOMAIN OfKind("SPEND", slots) : s = OfKind("SPEND", slots)[l].who
    BY <2>1 DEF ToSet, Keys, Payload
  <2>3. PICK i \in At("SPEND", slots) : OfKind("SPEND", slots)[l] = slots[i]
    BY <1>5, <2>2, ListOfKind
  <2>4. i \in DOMAIN slots /\ slots[i].kind = "SPEND" /\ slots[i].who = s
    BY <2>2, <2>3 DEF At
  <2>5. slots[i].sig.by \in {"OWNER", "PROVIDER"}
    <3>1. slots[i].sig.by \in {"NOBODY", "OWNER", "PROVIDER"}
      BY <2>3 DEF Ready, Sound
    <3>2. slots[i].sig.by # "NOBODY"
      BY <2>4 DEF Ready, UnsignedSpends, IsUnsignedSpend
    <3> QED BY <3>1, <3>2
  <2>6. PICK k \in DOMAIN sorted : sorted[k].utxo = s
    BY <1>8, <2>4, <2>5 DEF CarriesSpendSignature
  <2>7. k \in 1..n + 1 /\ k \in 1..n
    BY <1>9, <2>6
  <2> QED BY <1>10, <2>6, <2>7
<1>15. \E k \in DOMAIN sigs : sigs[k].signer = "Provider"
  BY <1>10
<1>16. SignaturesFit(tx, now)
  BY <1>7, <1>12, <1>13, <1>14, <1>15 DEF SignaturesFit
<1> QED BY <1>1, <1>16

LEMMA AccountsAreFit ==
  ASSUME NEW slots, Ready(slots), NEW at \in Nat, NEW fee, NEW key, NEW now \in Nat, Current(slots, now)
  PROVE  AccountsFit(Assemble(slots, fee, key, at), slots, now)
<1>1. PICK tx : tx = Assemble(slots, fee, key, at)
  OBVIOUS
<1>2. PICK signed : signed = UserSignedEntries(slots)
  OBVIOUS
<1>3. PICK auth : auth = Splice(Simulated(slots), signed)
  OBVIOUS
<1>4. slots \in Seq(Slot)
  BY DEF Ready
<1>5. /\ signed \in Seq(Slot)
      /\ \A k \in DOMAIN signed : \E i \in DOMAIN slots : CarriesEntry(slots[i]) /\ signed[k] = slots[i]
      /\ \A i \in DOMAIN slots : CarriesEntry(slots[i]) => \E k \in DOMAIN signed : signed[k] = slots[i]
  <2> DEFINE places == {i \in DOMAIN slots : CarriesEntry(slots[i])}
  <2>1. places \in SUBSET DOMAIN slots /\ \A i \in DOMAIN slots : i \in places <=> CarriesEntry(slots[i])
    OBVIOUS
  <2>2. signed = Kept(slots, places)
    BY <1>2 DEF UserSignedEntries
  <2> HIDE DEF places
  <2>3. /\ signed \in Seq(Slot)
        /\ \A k \in DOMAIN signed : \E i \in places : signed[k] = slots[i]
        /\ \A i \in places : \E k \in DOMAIN signed : signed[k] = slots[i]
    BY <1>4, <2>1, <2>2, KeptSequence
  <2> QED BY <2>1, <2>3
<1>6. tx.footprint = Footprint(Simulated(slots), signed)
  BY <1>1, <1>2 DEF Assemble
<1>7. ASSUME NEW a \in AuthorizingAccounts(slots)
      PROVE  \E i \in DOMAIN tx.auth :
               /\ tx.auth[i].type = "ACCOUNT" /\ tx.auth[i].account = a
               /\ tx.auth[i].nonce # Placeholder
               /\ <<a, tx.auth[i].nonce>> \in tx.footprint
               /\ tx.auth[i].exp >= now
  <2>1. PICK j \in DOMAIN slots : slots[j].kind = "DEPOSIT" /\ slots[j].who = a
    BY <1>7 DEF AuthorizingAccounts
  <2>2. CarriesEntry(slots[j])
    <3>1. slots[j].sig.by \in {"OWNER", "BROKEN"}
      BY <2>1 DEF Ready, Sound, At
    <3>2. slots[j].sig.by # "BROKEN"
      BY <2>1 DEF Ready, EntriesReadable
    <3> QED BY <2>1, <3>1, <3>2 DEF CarriesEntry
  <2>3. \E i \in DOMAIN signed : signed[i].who = a
    BY <1>5, <2>1, <2>2
  <2>4. PICK k \in DOMAIN auth, i \in DOMAIN signed :
          signed[i].who = a /\ auth[k] = AccountEntry(a, signed[i].sig.nonce, signed[i].sig.exp)
    <3>1. HasEntry(auth, signed, a)
      BY <1>3, <1>4, <1>5, <2>3, SpliceEntries
    <3> QED BY <3>1 DEF HasEntry
  <2>5. PICK s : s = signed[i]
    OBVIOUS
  <2>6. PICK l \in DOMAIN slots : CarriesEntry(slots[l]) /\ s = slots[l]
    BY <1>5, <2>5
  <2>7. s.sig.nonce # Placeholder
    BY <2>6 DEF Ready, Sound
  <2>8. now <= s.sig.exp /\ s.sig.exp \in Nat
    <3>1. slots[l].sig.exp \in Nat
      BY <1>4, SlotAmounts DEF Slot
    <3> QED BY <2>6, <3>1 DEF Current, CarriesEntry
  <2>9. k \in DOMAIN tx.auth /\ tx.auth[k] = auth[k]
    <3>1. Signed(auth, tx.auth, ByUtxo(UserSpendSignatures(slots)), at + ExpirationOffset)
      BY <1>1, <1>2, <1>3, AuthEntries
    <3> QED BY <2>4, <3>1 DEF Signed
  <2>10. <<a, s.sig.nonce>> \in tx.footprint
    BY <1>6, <2>4, <2>5 DEF Footprint
  <2>11. /\ tx.auth[k].type = "ACCOUNT" /\ tx.auth[k].account = a
         /\ tx.auth[k].nonce = s.sig.nonce /\ tx.auth[k].exp = s.sig.exp
    BY <2>4, <2>5, <2>9 DEF AccountEntry
  <2> QED BY <2>7, <2>8, <2>9, <2>10, <2>11
<1>8. AccountsFit(tx, slots, now)
  BY <1>7 DEF AccountsFit
<1> QED BY <1>1, <1>8

-----------------------------------------------------------------------------
(* What becomes of the body *)

\* One request goes on.
LEMMA OneBodyGoes ==
  ASSUME GateInv, BodyInv, NEW r \in Requests, NEW q, NEW stage, Goto(r, q, stage),
         stage \notin Over => Assembled(q, stage),
         balance' \in [AllKeys -> Int]
  PROVE  BodyInv'
<1> DEFINE x == IF stage \in Over THEN NoRequest ELSE q
<1>1. Assembled(x, stage)
  <2>1. CASE stage \in Over
    <3>1. /\ stage \notin Open \cup Stored /\ stage \notin Open \ {"PERSIST"} /\ stage # "BUILT"
          /\ stage \notin {"CHANNEL", "BALANCES", "PERSIST"} \cup Stored /\ stage \notin {"PERSIST"} \cup Stored
      BY <2>1 DEF Over, Open, Stored
    <3> QED BY <3>1 DEF Assembled
  <2>2. CASE stage \notin Over
    BY <2>2
  <2> QED BY <2>1, <2>2
<1>2. pc' = [pc EXCEPT ![r] = stage] /\ request' = [request EXCEPT ![r] = x]
  BY DEF Goto
<1> HIDE DEF x
<1>3. pc \in [Requests -> Stages] /\ request = [s \in Requests |-> request[s]]
  BY DEF GateInv
<1>4. ASSUME NEW s \in Requests PROVE Assembled(request'[s], pc'[s])
  <2>1. CASE s = r
    BY <1>1, <1>2, <1>3, <2>1
  <2>2. CASE s # r
    BY <1>2, <1>3, <2>2 DEF BodyInv
  <2> QED BY <2>1, <2>2
<1> QED BY <1>4 DEF BodyInv

\* A body is carried by whatever has the same operations and time of signature.
LEMMA BodyCarried ==
  ASSUME NEW q, NEW p, p.ops = q.ops, p.signedAt = q.signedAt, Carried(q)
  PROVE  Carried(p)
BY DEF Carried

LEMMA BodyKept ==
  ASSUME NEW q, NEW p, p.ops = q.ops, p.signedAt = q.signedAt, p.balances = q.balances,
         NEW stage, Assembled(q, stage)
  PROVE  Assembled(p, stage)
BY BodyCarried DEF Assembled

\* Nothing is asked of balances where nothing is spent.
LEMMA NothingSpent ==
  ASSUME NEW q, q.balances = <<>>, SpendUtxos(q.ops) = <<>>
  PROVE  q.balances \in [DOMAIN SpendUtxos(q.ops) -> Int]
<1>1. DOMAIN <<>> = {}
  OBVIOUS
<1>2. <<>> \in [{} -> Int]
  OBVIOUS
<1> QED BY <1>1, <1>2

LEMMA PricedWithoutBalances ==
  ASSUME NEW q, BalanceStage(q) = "PERSIST"
  PROVE  SpendUtxos(q.ops) = <<>>
BY DEF BalanceStage

\* A body that is carried, signed and without balances may go where the checks send it.
LEMMA BalancedAssembled ==
  ASSUME NEW q, Carried(q), UnsignedSpends(q.ops) = {}, q.balances = <<>>,
         NEW stage, stage \in {"CHANNEL", "BALANCES"} \/ (stage = "PERSIST" /\ stage = BalanceStage(q))
  PROVE  Assembled(q, stage)
<1>1. stage = "PERSIST" => q.balances \in [DOMAIN SpendUtxos(q.ops) -> Int]
  BY PricedWithoutBalances, NothingSpent
<1>2. stage \notin Stored /\ stage # "BUILT"
  BY DEF Stored
<1> QED BY <1>1, <1>2 DEF Assembled

LEMMA ClassifiedAssembled ==
  ASSUME NEW q, Carried(q), UnsignedSpends(q.ops) = {}, q.balances = <<>>, ClassifyStage(q) \notin Over
  PROVE  Assembled(q, ClassifyStage(q))
<1>1. "REFUSED" \in Over
  BY DEF Over
<1>2. ClassifyStage(q) = "CHANNEL" \/ (ClassifyStage(q) = "PERSIST" /\ ClassifyStage(q) = BalanceStage(q))
  BY <1>1, ClassifyStages DEF ClassifyStage
<1> QED BY <1>2, BalancedAssembled

LEMMA BeginAssembles ==
  ASSUME GateInv, BodyInv, NEW r \in Requests, Begin(r)
  PROVE  BodyInv'
<1>1. PICK a \in Arrivals[r] :
        Goto(r, [NoRequest EXCEPT !.wallet = a.wallet, !.channel = a.channel, !.ops = a.ops,
                                  !.names = {entities[a.wallet].name},
                                  !.serving = ~Removed, !.enabled = ~disabled], "APPROVAL")
  BY DEF Begin
<1>2. ASSUME NEW q, q = [NoRequest EXCEPT !.wallet = a.wallet, !.channel = a.channel, !.ops = a.ops,
                                          !.names = {entities[a.wallet].name},
                                          !.serving = ~Removed, !.enabled = ~disabled]
      PROVE  q.ops = a.ops /\ q.balances = <<>>
  BY <1>2 DEF NoRequest
<1>3. PICK q : Goto(r, q, "APPROVAL") /\ q.ops = a.ops /\ q.balances = <<>>
  BY <1>1, <1>2
<1>4. Carried(q)
  <2>1. \A i \in DOMAIN a.ops : /\ a.ops[i].sig.by # "PROVIDER"
                                /\ a.ops[i].kind \in {"CREATE", "SPEND"} => a.ops[i].who \in Utxos
    BY SubmissionAssumption
  <2>2. (AllUnmixed => Unmixed(a.ops)) /\ (AllSound => Sound(a.ops))
    BY DEF AllUnmixed, AllSound
  <2> QED BY <1>3, <2>1, <2>2 DEF Carried, At, IsHeldSignature
<1>5. Assembled(q, "APPROVAL")
  BY <1>3, <1>4 DEF Assembled, Stored
<1>6. balance' \in [AllKeys -> Int]
  BY DEF Begin, chain, BodyInv
<1> QED BY <1>3, <1>5, <1>6, OneBodyGoes

LEMMA ReadApprovalAssembles ==
  ASSUME GateInv, BodyInv, NEW r \in Requests, ReadApproval(r)
  PROVE  BodyInv'
<1>1. PICK old, name : old = request[r] /\ name = entities[old.wallet].name
  OBVIOUS
<1>2. PICK q, stage : /\ q = [old EXCEPT !.name = name] /\ Goto(r, q, stage)
                      /\ stage \in {"MEMBERSHIP", "INTERACTION"}
  BY <1>1 DEF ReadApproval
<1>3. Assembled(old, "APPROVAL") /\ old \in Request(old.balances)
  BY <1>1 DEF BodyInv, GateInv, Passed, ReadApproval
<1>4. q.ops = old.ops /\ q.signedAt = old.signedAt /\ q.balances = old.balances
  BY <1>2, <1>3 DEF Request
<1>5. Assembled(q, "APPROVAL")
  BY <1>3, <1>4, BodyKept
<1>6. Assembled(q, stage)
  BY <1>2, <1>5 DEF Assembled, Open, Stored
<1>7. balance' \in [AllKeys -> Int]
  BY DEF ReadApproval, chain, BodyInv
<1> QED BY <1>2, <1>6, <1>7, OneBodyGoes

LEMMA GivenUpAssembles ==
  ASSUME GateInv, BodyInv, NEW r \in Requests, RefuseUnapproved(r) \/ Abandon(r)
  PROVE  BodyInv'
<1>1. Goto(r, request[r], "REFUSED") /\ balance' \in [AllKeys -> Int]
  BY DEF RefuseUnapproved, Abandon, chain, BodyInv
<1>2. "REFUSED" \in Over
  BY DEF Over
<1> QED BY <1>1, <1>2, OneBodyGoes

LEMMA ReadMembershipsAssembles ==
  ASSUME GateInv, BodyInv, NEW r \in Requests, ReadMemberships(r)
  PROVE  BodyInv'
<1>1. PICK q : q = request[r]
  OBVIOUS
<1>2. PICK stage : /\ Goto(r, q, stage)
                   /\ \/ stage = "REFUSED"
                      \/ stage = "LEDGER"
                      \/ UnsignedSpends(q.ops) = {} /\ stage = ClassifyStage(q)
  BY <1>1 DEF ReadMemberships
<1>3. Assembled(q, "MEMBERSHIP")
  BY <1>1 DEF BodyInv, ReadMemberships
<1>4. Carried(q) /\ q.balances = <<>>
  BY <1>3 DEF Assembled, Open
<1>5. "REFUSED" \in Over
  BY DEF Over
<1>6. Assembled(q, "LEDGER")
  BY <1>4 DEF Assembled, Stored
<1>7. stage \notin Over => Assembled(q, stage)
  BY <1>2, <1>4, <1>5, <1>6, ClassifiedAssembled
<1>8. balance' \in [AllKeys -> Int]
  BY DEF ReadMemberships, chain, BodyInv
<1> QED BY <1>2, <1>7, <1>8, OneBodyGoes

\* What the holding keys sign, and what they leave as it was.
LEMMA SignedInPlace ==
  ASSUME NEW ops \in Seq(Slot), NEW exp \in Nat
  PROVE  LET made == SignSpends(ops, exp) IN
         /\ DOMAIN made = DOMAIN ops
         /\ \A i \in DOMAIN ops :
              /\ made[i].kind = ops[i].kind /\ made[i].who = ops[i].who /\ made[i].amount = ops[i].amount
              /\ \/ made[i] = ops[i] /\ ~IsUnsignedSpend(ops[i])
                 \/ made[i].kind = "SPEND" /\ made[i].sig.by = "PROVIDER" /\ made[i].sig.exp = exp
<1>1. ASSUME NEW i \in DOMAIN ops
      PROVE  LET slot == SignSpends(ops, exp)[i] IN
             /\ slot.kind = ops[i].kind /\ slot.who = ops[i].who /\ slot.amount = ops[i].amount
             /\ \/ slot = ops[i] /\ ~IsUnsignedSpend(ops[i])
                \/ slot.kind = "SPEND" /\ slot.sig.by = "PROVIDER" /\ slot.sig.exp = exp
  <2>1. ops[i] \in Slot
    BY SlotAmounts
  <2>2. CASE IsUnsignedSpend(ops[i])
    <3>1. SignSpends(ops, exp)[i] = SignSpend(ops[i], exp)
      BY <2>2 DEF SignSpends
    <3> QED BY <2>1, <2>2, <3>1 DEF SignSpend, Slot, IsUnsignedSpend
  <2>3. CASE ~IsUnsignedSpend(ops[i])
    <3>1. SignSpends(ops, exp)[i] = ops[i]
      BY <2>3 DEF SignSpends
    <3> QED BY <2>3, <3>1
  <2> QED BY <2>2, <2>3
<1>2. DOMAIN SignSpends(ops, exp) = DOMAIN ops
  BY DEF SignSpends
<1> QED BY <1>1, <1>2

LEMMA SignedCarried ==
  ASSUME NEW q, NEW p, q.ops \in Seq(Slot), NEW now \in Nat, Carried(q),
         \A i \in DOMAIN q.ops : ~IsHeldSignature(q.ops[i]),
         p.ops = SignSpends(q.ops, now + ExpirationOffset), p.signedAt = now
  PROVE  Carried(p) /\ UnsignedSpends(p.ops) = {}
<1>1. PICK ops, made, exp : ops = q.ops /\ made = p.ops /\ exp = now + ExpirationOffset
  OBVIOUS
<1>2. exp \in Nat /\ ops \in Seq(Slot) /\ made = SignSpends(ops, exp)
  BY <1>1, TransactionAssumption
<1>3. /\ DOMAIN made = DOMAIN ops
      /\ \A i \in DOMAIN ops :
           /\ made[i].kind = ops[i].kind /\ made[i].who = ops[i].who /\ made[i].amount = ops[i].amount
           /\ \/ made[i] = ops[i] /\ ~IsUnsignedSpend(ops[i])
              \/ made[i].kind = "SPEND" /\ made[i].sig.by = "PROVIDER" /\ made[i].sig.exp = exp
  BY <1>2, SignedInPlace
<1>4. \A kind : At(kind, made) = At(kind, ops)
  BY <1>3 DEF At
<1>5. \A kind : \A i \in At(kind, ops) : i \in DOMAIN ops /\ ops[i].kind = kind
  BY DEF At
<1>6. UnsignedSpends(made) = {}
  BY <1>3 DEF UnsignedSpends, IsUnsignedSpend
<1>7. \A i \in At("CREATE", made) \cup At("SPEND", made) : made[i].who \in Utxos
  BY <1>1, <1>3, <1>4, <1>5 DEF Carried
<1>8. \A i \in DOMAIN made : IsHeldSignature(made[i]) => made[i].sig.exp = exp
  BY <1>1, <1>3 DEF IsHeldSignature
<1>9. ASSUME Unmixed(ops) PROVE Unmixed(made)
  BY <1>3, <1>4, <1>5, <1>9 DEF Unmixed
<1>10. ASSUME Sound(ops) PROVE Sound(made)
  <2>1. Unmixed(made)
    BY <1>9, <1>10 DEF Sound
  <2>2. \A i, j \in At("SPEND", made) : made[i].who = made[j].who => i = j
    BY <1>3, <1>4, <1>5, <1>10 DEF Sound
  <2>3. \A i, j \in At("CREATE", made) : made[i].who = made[j].who => i = j
    BY <1>3, <1>4, <1>5, <1>10 DEF Sound
  <2>4. \A i \in At("SPEND", made) : made[i].sig.by \in {"NOBODY", "OWNER", "PROVIDER"}
    BY <1>3, <1>4, <1>5, <1>10 DEF Sound
  <2>5. \A i \in At("DEPOSIT", made) : made[i].sig.by \in {"OWNER", "BROKEN"}
    BY <1>3, <1>4, <1>5, <1>10 DEF Sound
  <2>6. \A i \in DOMAIN made : CarriesEntry(made[i]) => made[i].sig.nonce # Placeholder
    BY <1>3, <1>10 DEF Sound, CarriesEntry
  <2>7. \A i \in At("CREATE", made) : made[i].amount > 0
    BY <1>3, <1>4, <1>5, <1>10 DEF Sound
  <2> QED BY <2>1, <2>2, <2>3, <2>4, <2>5, <2>6, <2>7 DEF Sound
<1>11. Carried(p)
  <2>1. (AllUnmixed => Unmixed(made)) /\ (AllSound => Sound(made))
    BY <1>1, <1>9, <1>10 DEF Carried
  <2> QED BY <1>1, <1>7, <1>8, <2>1 DEF Carried
<1> QED BY <1>1, <1>6, <1>11

LEMMA SignHeldSpendsAssembles ==
  ASSUME GateInv, BodyInv, NEW r \in Requests, SignHeldSpends(r)
  PROVE  BodyInv'
<1>1. PICK q : q = request[r]
  OBVIOUS
<1>2. PICK p : p = [q EXCEPT !.ops = SignSpends(q.ops, ledger + ExpirationOffset), !.signedAt = ledger]
  OBVIOUS
<1>3. pc[r] = "LEDGER" /\ (Goto(r, p, ClassifyStage(p)) \/ Goto(r, q, "REFUSED"))
  BY <1>1, <1>2 DEF SignHeldSpends
<1>4. Assembled(q, "LEDGER") /\ Passed(q, "LEDGER") /\ ledger \in 1..MaxLedger
  BY <1>1, <1>3 DEF BodyInv, GateInv
<1>5. /\ Carried(q) /\ q.balances = <<>> /\ q \in Request(q.balances) /\ ledger \in Nat
      /\ \A i \in DOMAIN q.ops : ~IsHeldSignature(q.ops[i])
  BY <1>4 DEF Assembled, Passed, HeldSpends, Open
<1>6. q.ops \in Seq(Slot)
  BY <1>5, RequestFields
<1>7. p.ops = SignSpends(q.ops, ledger + ExpirationOffset) /\ p.signedAt = ledger /\ p.balances = <<>>
  BY <1>2, <1>5 DEF Request
<1>8. Carried(p) /\ UnsignedSpends(p.ops) = {}
  BY <1>5, <1>6, <1>7, SignedCarried
<1>9. ClassifyStage(p) \notin Over => Assembled(p, ClassifyStage(p))
  BY <1>7, <1>8, ClassifiedAssembled
<1>10. "REFUSED" \in Over
  BY DEF Over
<1>11. balance' \in [AllKeys -> Int]
  BY DEF SignHeldSpends, chain, BodyInv
<1>12. CASE Goto(r, p, ClassifyStage(p))
  BY <1>9, <1>11, <1>12, OneBodyGoes
<1>13. CASE Goto(r, q, "REFUSED")
  BY <1>10, <1>11, <1>13, OneBodyGoes
<1> QED BY <1>3, <1>12, <1>13

LEMMA ReadChannelAssembles ==
  ASSUME GateInv, BodyInv, NEW r \in Requests, ReadChannel(r)
  PROVE  BodyInv'
<1>1. PICK q : q = request[r]
  OBVIOUS
<1>2. PICK stage : Goto(r, q, stage) /\ (stage = "REFUSED" \/ stage = BalanceStage(q))
  BY <1>1 DEF ReadChannel
<1>3. Assembled(q, "CHANNEL")
  BY <1>1 DEF BodyInv, ReadChannel
<1>4. Carried(q) /\ q.balances = <<>> /\ UnsignedSpends(q.ops) = {}
  BY <1>3 DEF Assembled, Open
<1>5. "REFUSED" \in Over
  BY DEF Over
<1>6. ASSUME stage \notin Over PROVE Assembled(q, stage)
  <2>1. stage = BalanceStage(q) /\ stage \in {"PERSIST", "BALANCES"}
    BY <1>2, <1>5, <1>6, BalanceStages
  <2> QED BY <1>4, <2>1, BalancedAssembled
<1>7. balance' \in [AllKeys -> Int]
  BY DEF ReadChannel, chain, BodyInv
<1> QED BY <1>2, <1>6, <1>7, OneBodyGoes

LEMMA ReadBalancesAssembles ==
  ASSUME GateInv, BodyInv, NEW r \in Requests, ReadBalances(r)
  PROVE  BodyInv'
<1>1. PICK q, utxos : q = request[r] /\ utxos = SpendUtxos(q.ops)
  OBVIOUS
<1>2. PICK balances : balances = [i \in DOMAIN utxos |-> balance[utxos[i]]]
  OBVIOUS
<1>3. PICK p : p = [q EXCEPT !.balances = balances] /\ Goto(r, p, FeeStage(p))
  BY <1>1, <1>2 DEF ReadBalances
<1>4. Assembled(q, "BALANCES") /\ q \in Request(q.balances)
  BY <1>1 DEF BodyInv, GateInv, Passed, ReadBalances
<1>5. Carried(q) /\ UnsignedSpends(q.ops) = {} /\ q.ops \in Seq(Slot)
  BY <1>4, RequestFields DEF Assembled, Open
<1>6. p.ops = q.ops /\ p.signedAt = q.signedAt /\ p.balances = balances
  BY <1>3, <1>4 DEF Request
<1>7. ASSUME NEW i \in DOMAIN utxos PROVE balance[utxos[i]] \in Int
  <2>1. i \in DOMAIN OfKind("SPEND", q.ops) /\ utxos[i] = OfKind("SPEND", q.ops)[i].who
    BY <1>1, <1>5, SpendsListed
  <2>2. PICK j \in At("SPEND", q.ops) : OfKind("SPEND", q.ops)[i] = q.ops[j]
    BY <1>5, <2>1, ListOfKind
  <2>3. utxos[i] \in AllKeys
    BY <1>5, <2>1, <2>2 DEF Carried, AllKeys
  <2> QED BY <2>3 DEF BodyInv
<1>8. balances \in [DOMAIN utxos -> Int]
  BY <1>2, <1>7
<1>9. ASSUME FeeStage(p) \notin Over PROVE Assembled(p, FeeStage(p))
  <2>1. FeeStage(p) = "PERSIST"
    BY <1>9, FeeStages
  <2>2. Carried(p)
    BY <1>5, <1>6, BodyCarried
  <2> QED BY <1>1, <1>5, <1>6, <1>8, <2>1, <2>2 DEF Assembled, Stored
<1>10. balance' \in [AllKeys -> Int]
  BY DEF ReadBalances, chain, BodyInv
<1> QED BY <1>3, <1>9, <1>10, OneBodyGoes

LEMMA PersistAssembles ==
  ASSUME GateInv, BodyInv, NEW r \in Requests, Persist(r)
  PROVE  BodyInv'
<1>1. PICK q : q = request[r]
  OBVIOUS
<1>2. Goto(r, NoHistory(q), "STORED") /\ Assembled(q, "PERSIST") /\ q \in Request(q.balances)
  BY <1>1 DEF Persist, BodyInv, GateInv, Passed
<1>3. /\ NoHistory(q).ops = q.ops /\ NoHistory(q).signedAt = q.signedAt
      /\ NoHistory(q).balances = q.balances
  BY <1>2 DEF NoHistory, Request
<1>4. Assembled(q, "STORED")
  BY <1>2 DEF Assembled, Open, Stored
<1>5. Assembled(NoHistory(q), "STORED")
  BY <1>3, <1>4, BodyKept
<1>6. balance' \in [AllKeys -> Int]
  BY DEF Persist, chain, BodyInv
<1> QED BY <1>2, <1>5, <1>6, OneBodyGoes

LEMMA BuildAssembles ==
  ASSUME GateInv, BodyInv, NEW r \in Requests, Build(r)
  PROVE  BodyInv'
<1>1. PICK q : q = request[r]
  OBVIOUS
<1>2. /\ Assembled(q, "STORED")
      /\ \/ Goto(r, q, "BUILT") /\ EntriesReadable(q.ops)
         \/ Goto(r, q, "FAILED")
  BY <1>1 DEF Build, BodyInv
<1>3. "FAILED" \in Over /\ balance' \in [AllKeys -> Int]
  BY DEF Over, Build, BodyInv
<1>4. CASE Goto(r, q, "BUILT") /\ EntriesReadable(q.ops)
  <2>1. Assembled(q, "BUILT")
    BY <1>2, <1>4 DEF Assembled, Open, Stored
  <2> QED BY <1>3, <1>4, <2>1, OneBodyGoes
<1>5. CASE Goto(r, q, "FAILED")
  BY <1>3, <1>5, OneBodyGoes
<1> QED BY <1>2, <1>4, <1>5

\* Landing leaves every UTXO with a balance.
LEMMA LandAssembles ==
  ASSUME GateInv, BodyInv, NEW r \in Requests, Land(r)
  PROVE  BodyInv'
<1>1. PICK op : op = TransactionOf(r).op
  OBVIOUS
<1> DEFINE made == {op.create[i] : i \in DOMAIN op.create}
<1>2. balance' = [k \in AllKeys |->
        IF k \in ToSet(Keys(op.spend)) THEN 0
        ELSE IF \E c \in made : c.who = k THEN (CHOOSE c \in made : c.who = k).amount
        ELSE balance[k]]
  BY <1>1 DEF Land
<1>3. Goto(r, request[r], "LANDED") /\ pc[r] = "BUILT" /\ "LANDED" \in Over
  BY DEF Land, Over
<1>4. request[r].ops \in Seq(Slot) /\ FeeOf(request[r]) \in Int
  BY <1>3, RequestFields, SubmissionAssumption DEF GateInv, Passed, Stored
<1>5. ASSUME NEW c \in made PROVE c.amount \in Int
  <2>1. PICK creates, n, fee : /\ creates = OfKind("CREATE", request[r].ops) /\ n = Len(creates)
                               /\ fee = FeeOf(request[r])
    OBVIOUS
  <2>2. op.create = Append(Payload(creates), FeeCreate(OpexKey(r), fee))
    BY <1>1, <2>1 DEF TransactionOf, Assemble, ChannelOperation
  <2>3. PaidWithFee(op.create, creates, n, OpexKey(r), fee)
    BY <1>4, <2>1, <2>2, PayloadWithFee
  <2>4. PICK i \in DOMAIN op.create : c = op.create[i]
    BY <1>5
  <2>5. i = n + 1 \/ i \in 1..n
    BY <2>3, <2>4 DEF PaidWithFee
  <2>6. \A k \in DOMAIN creates : creates[k].amount \in Int
    BY <1>4, <2>1, ListOfKind, SlotAmounts
  <2> QED BY <1>4, <2>1, <2>3, <2>4, <2>5, <2>6 DEF PaidWithFee
<1> HIDE DEF made
<1>6. balance' \in [AllKeys -> Int]
  <2>1. ASSUME NEW k \in AllKeys PROVE balance'[k] \in Int
    <3>1. CASE \E c \in made : c.who = k
      <4>1. PICK c : c = (CHOOSE x \in made : x.who = k)
        OBVIOUS
      <4>2. c \in made
        BY <3>1, <4>1
      <4> QED BY <1>2, <1>5, <3>1, <4>1, <4>2
    <3>2. CASE ~\E c \in made : c.who = k
      BY <1>2, <3>2 DEF BodyInv
    <3> QED BY <3>1, <3>2
  <2>2. balance' = [k \in AllKeys |-> balance'[k]]
    BY <1>2
  <2> QED BY <2>1, <2>2
<1> QED BY <1>3, <1>6, OneBodyGoes

LEMMA NoticedAssembles ==
  ASSUME GateInv, BodyInv, Noticed, UNCHANGED <<pc, balance>>
  PROVE  BodyInv'
<1>1. ASSUME NEW r \in Requests PROVE Assembled(request'[r], pc'[r])
  <2>1. PICK q, stage : q = request[r] /\ stage = pc[r]
    OBVIOUS
  <2>2. Assembled(q, stage) /\ q \in Request(q.balances)
    BY <2>1 DEF BodyInv, GateInv, Passed
  <2>3. PICK p : p = request'[r]
    OBVIOUS
  <2>4. p.ops = q.ops /\ p.signedAt = q.signedAt /\ p.balances = q.balances
    <3>1. CASE stage \in Open
      <4>1. \E x, y, z : p = [q EXCEPT !.names = x, !.serving = y, !.enabled = z]
        BY <2>1, <2>3, <3>1 DEF Noticed
      <4> QED BY <2>2, <4>1 DEF Request
    <3>2. CASE stage \notin Open
      <4>1. p = q
        BY <2>1, <2>3, <3>2 DEF Noticed
      <4> QED BY <4>1
    <3> QED BY <3>1, <3>2
  <2>5. Assembled(p, stage)
    BY <2>2, <2>4, BodyKept
  <2> QED BY <2>1, <2>3, <2>5
<1> QED BY <1>1 DEF BodyInv

LEMMA BodyInvInit == Init => BodyInv
<1> SUFFICES ASSUME Init PROVE BodyInv
  OBVIOUS
<1>1. balance \in [AllKeys -> Int]
  <2>1. balance = [k \in AllKeys |-> IF k \in Utxos THEN Endowment[k] ELSE -1]
    BY DEF Init
  <2>2. \A k \in Utxos : Endowment[k] \in Int
    BY SubmissionAssumption
  <2>3. -1 \in Int
    OBVIOUS
  <2> QED BY <2>1, <2>2, <2>3
<1>2. \A r \in Requests : pc[r] = "IDLE"
  BY DEF Init
<1>3. \A r \in Requests : Assembled(request[r], pc[r])
  BY <1>2 DEF Assembled, Open, Stored
<1> QED BY <1>1, <1>3 DEF BodyInv

LEMMA BodyInvNext == GateInv /\ BodyInv /\ [Next]_vars => BodyInv'
<1> SUFFICES ASSUME GateInv, BodyInv, [Next]_vars PROVE BodyInv'
  OBVIOUS
<1>1. ASSUME NEW r \in Requests,
             \/ Begin(r) \/ ReadApproval(r) \/ RefuseUnapproved(r) \/ ReadMemberships(r)
             \/ SignHeldSpends(r) \/ ReadChannel(r) \/ ReadBalances(r) \/ Persist(r) \/ Abandon(r)
             \/ Build(r) \/ Land(r)
      PROVE  BodyInv'
  BY <1>1, BeginAssembles, ReadApprovalAssembles, GivenUpAssembles, ReadMembershipsAssembles,
     SignHeldSpendsAssembles, ReadChannelAssembles, ReadBalancesAssembles, PersistAssembles,
     BuildAssembles, LandAssembles
<1>2. CASE CloseLedger \/ UNCHANGED vars
  <2>1. UNCHANGED <<pc, request, balance>>
    BY <1>2 DEF CloseLedger, vars
  <2> QED BY <2>1 DEF BodyInv
<1>3. ASSUME NEW w \in Wallets, NEW name \in Emails \cup {NoName}, Register(w, name)
      PROVE  BodyInv'
  BY <1>3, NoticedAssembles DEF Register, chain
<1>4. ASSUME NEW c \in Councils, NEW status \in {"ACTIVE", "REJECTED"}, SetMembership(c, status)
      PROVE  BodyInv'
  BY <1>4, NoticedAssembles DEF SetMembership, chain
<1>5. CASE SetChannel
  BY <1>5, NoticedAssembles DEF SetChannel, chain
<1> QED BY <1>1, <1>2, <1>3, <1>4, <1>5 DEF Next

\* What a row in the queue has behind it.
LEMMA BuiltRow ==
  ASSUME SubmissionInv, NEW r \in Requests, pc[r] = "BUILT"
  PROVE  /\ request[r].ops \in Seq(Slot) /\ request[r].signedAt \in Nat
         /\ FeeOf(request[r]) \in 1..MaxFee
         /\ Carried(request[r]) /\ UnsignedSpends(request[r].ops) = {}
         /\ request[r].balances \in [DOMAIN SpendUtxos(request[r].ops) -> Int]
         /\ EntriesReadable(request[r].ops)
         /\ builtAt[r] \in Nat /\ ledger \in Nat
<1>1. PICK q : q = request[r]
  OBVIOUS
<1>2. Passed(q, "BUILT") /\ Assembled(q, "BUILT") /\ builtAt[r] \in Nat /\ ledger \in Nat
  BY <1>1 DEF SubmissionInv, GateInv, BodyInv
<1>3. q.ops \in Seq(Slot) /\ q.signedAt \in Nat /\ FeeOf(q) \in 1..MaxFee
  BY <1>2, RequestFields DEF Passed, Stored
<1>4. /\ Carried(q) /\ UnsignedSpends(q.ops) = {}
      /\ q.balances \in [DOMAIN SpendUtxos(q.ops) -> Int] /\ EntriesReadable(q.ops)
  BY <1>2 DEF Assembled, Stored
<1> QED BY <1>1, <1>2, <1>3, <1>4

LEMMA BuiltBalances ==
  ASSUME SubmissionInv, NEW r \in Requests, pc[r] = "BUILT", StillFunded(r), Unmixed(request[r].ops)
  PROVE  Balanced(TransactionOf(r).op, balance)
<1>1. PICK q : q = request[r]
  OBVIOUS
<1>2. q.ops \in Seq(Slot) /\ q.balances \in [DOMAIN SpendUtxos(q.ops) -> Int]
  BY <1>1, BuiltRow
<1>3. \A i \in DOMAIN SpendUtxos(q.ops) : balance[SpendUtxos(q.ops)[i]] = q.balances[i]
  BY <1>1 DEF StillFunded
<1>4. TransactionOf(r).op = ChannelOperation(q.ops, FeeCreate(OpexKey(r), Fee(q.ops, q.balances)))
  BY <1>1 DEF TransactionOf, Assemble, FeeOf
<1>5. ASSUME NEW bal, bal = balance PROVE Balanced(TransactionOf(r).op, bal)
  BY <1>1, <1>2, <1>3, <1>4, <1>5, BalancedWithFee
<1> QED BY <1>5

LEMMA BuiltAccepted ==
  ASSUME SubmissionInv, AllSound, NEW r \in Requests, pc[r] = "BUILT",
         StillFunded(r), StillNew(r), InTime(r)
  PROVE  IsAccepted(r)
<1>1. PICK q : q = request[r]
  OBVIOUS
<1>2. PICK slots, at, now : slots = q.ops /\ at = builtAt[r] /\ now = ledger
  OBVIOUS
<1>3. PICK fee, key : fee = FeeOf(q) /\ key = OpexKey(r)
  OBVIOUS
<1>4. PICK bal : bal = balance
  OBVIOUS
<1>5. PICK tx : tx = Assemble(slots, fee, key, at)
  OBVIOUS
<1>6. tx = TransactionOf(r) /\ (Accepts(tx, slots, bal, now) => IsAccepted(r))
  BY <1>1, <1>2, <1>3, <1>4, <1>5 DEF TransactionOf, IsAccepted
<1>7. Sound(slots) /\ Unmixed(slots)
  <2>1. Carried(q)
    BY <1>1, BuiltRow
  <2>2. Sound(q.ops)
    BY <2>1 DEF Carried
  <2> QED BY <1>2, <2>2 DEF Sound
<1>8. Ready(slots)
  BY <1>1, <1>2, <1>7, BuiltRow DEF Ready
<1>9. Balanced(tx.op, bal)
  BY <1>1, <1>2, <1>4, <1>6, <1>7, BuiltBalances
<1>10. UtxosFit(tx.op, bal)
  <2>1. fee \in Int /\ fee > 0
    BY <1>1, <1>3, SubmissionAssumption, BuiltRow
  <2>2. ASSUME NEW i \in DOMAIN SpendUtxos(slots) PROVE bal[SpendUtxos(slots)[i]] > 0
    BY <1>1, <1>2, <1>4 DEF StillFunded
  <2>3. bal[key] = -1 /\ \A i \in At("CREATE", slots) : bal[slots[i].who] = -1
    BY <1>1, <1>2, <1>3, <1>4 DEF StillNew, At
  <2>4. ASSUME NEW i \in At("CREATE", slots) PROVE slots[i].who # key
    <3>1. slots[i].who \in 0..99 /\ r \in Nat
      BY <1>1, <1>2, SubmissionAssumption, BuiltRow DEF Carried
    <3> QED BY <1>3, <3>1 DEF OpexKey
  <2>5. UtxosFit(ChannelOperation(slots, FeeCreate(key, fee)), bal)
    BY <1>8, <2>1, <2>2, <2>3, <2>4, UtxosAreFit
  <2> QED BY <1>5, <2>5 DEF Assemble
<1>11. at \in Nat /\ now \in Nat /\ now <= at + ExpirationOffset
  BY <1>1, <1>2, BuiltRow DEF InTime
<1>12. Current(slots, now)
  <2>1. ASSUME NEW i \in DOMAIN slots, slots[i].sig.by \in {"OWNER", "PROVIDER"}
        PROVE  now <= slots[i].sig.exp
    <3>1. /\ slots[i].sig.by = "OWNER" => now <= slots[i].sig.exp
          /\ slots[i].sig.by = "PROVIDER" => now <= q.signedAt + ExpirationOffset
      BY <1>1, <1>2 DEF InTime
    <3>2. slots[i].sig.by = "PROVIDER" => slots[i].sig.exp = q.signedAt + ExpirationOffset
      BY <1>1, <1>2, BuiltRow DEF Carried, IsHeldSignature
    <3> QED BY <2>1, <3>1, <3>2
  <2> QED BY <2>1 DEF Current
<1>13. SignaturesFit(tx, now)
  BY <1>5, <1>8, <1>11, <1>12, SignaturesAreFit
<1>14. AccountsFit(tx, slots, now)
  BY <1>5, <1>8, <1>11, <1>12, AccountsAreFit
<1>15. Accepts(tx, slots, bal, now)
  BY <1>9, <1>10, <1>13, <1>14 DEF Accepts
<1> QED BY <1>6, <1>15

-----------------------------------------------------------------------------
(* The theorems *)

LEMMA GateInvInit == Init => GateInv
<1> SUFFICES ASSUME Init PROVE GateInv
  OBVIOUS
<1>1. /\ pc = [r \in Requests |-> "IDLE"] /\ request = [r \in Requests |-> NoRequest]
      /\ memberships = [c \in Councils |-> "ACTIVE"] /\ disabled = FALSE
      /\ ledger = 1 /\ builtAt = [r \in Requests |-> 0] /\ EntityTypeOK
  BY EntityInitTyped DEF Init
<1>2. ledger \in 1..MaxLedger /\ 0 \in 0..MaxLedger
  BY <1>1, SubmissionAssumption
<1>3. builtAt \in [Requests -> 0..MaxLedger]
  BY <1>1, <1>2
<1>4. pc \in [Requests -> Stages]
  BY <1>1 DEF Stages
<1>5. \A r \in Requests : Passed(request[r], pc[r])
  BY <1>1, NothingPassed
<1>6. request = [r \in Requests |-> request[r]]
  BY <1>1
<1> QED BY <1>1, <1>2, <1>3, <1>4, <1>5, <1>6 DEF GateInv

LEMMA GateInvNext == GateInv /\ [Next]_vars => GateInv'
<1> SUFFICES ASSUME GateInv, [Next]_vars PROVE GateInv'
  OBVIOUS
<1>1. ASSUME NEW r \in Requests,
             \/ Begin(r) \/ ReadApproval(r) \/ RefuseUnapproved(r) \/ ReadMemberships(r)
             \/ SignHeldSpends(r) \/ ReadChannel(r) \/ ReadBalances(r) \/ Persist(r) \/ Abandon(r)
             \/ Build(r) \/ Land(r)
      PROVE  GateInv'
  BY <1>1, BeginKeeps, ReadApprovalKeeps, RefuseUnapprovedKeeps, ReadMembershipsKeeps,
     SignHeldSpendsKeeps, ReadChannelKeeps, ReadBalancesKeeps, PersistKeeps, AbandonKeeps,
     BuildKeeps, LandKeeps
<1>2. CASE CloseLedger
  BY <1>2, CloseLedgerKeeps
<1>3. ASSUME NEW w \in Wallets, NEW name \in Emails \cup {NoName}, Register(w, name)
      PROVE  GateInv'
  BY <1>3, RegisterKeeps
<1>4. ASSUME NEW c \in Councils, NEW status \in {"ACTIVE", "REJECTED"}, SetMembership(c, status)
      PROVE  GateInv'
  BY <1>4, SetMembershipKeeps
<1>5. CASE SetChannel
  BY <1>5, SetChannelKeeps
<1>6. CASE UNCHANGED vars
  <2>1. UNCHANGED <<pc, request, memberships, disabled, ledger, builtAt, entities>>
    BY <1>6 DEF vars
  <2>2. ASSUME NEW r \in Requests PROVE Passed(request[r], pc[r])'
    <3>1. ASSUME NEW y, NEW z, Passed(y, z), y = request'[r], z = pc'[r] PROVE Passed(request[r], pc[r])'
      <4>1. \A w \in Wallets : entities'[w].name = entities[w].name /\ (Approved(w) => Approved(w)')
        BY <2>1 DEF Approved
      <4>2. Passed(y, z)'
        BY <3>1, <4>1, <2>1, PassedKept
      <4> QED BY <4>2, <3>1
    <3>2. Passed(request[r], pc[r]) /\ request'[r] = request[r] /\ pc'[r] = pc[r]
      BY <2>1 DEF GateInv
    <3> QED BY <3>1, <3>2
  <2> QED BY <2>1, <2>2 DEF GateInv, EntityTypeOK
<1> QED BY <1>1, <1>2, <1>3, <1>4, <1>5, <1>6 DEF Next

\* What a request has behind it at every await of post_submit, and what its body is
\* like there, whatever the other requests, registrations, the watcher and the contract
\* do meanwhile.
THEOREM SubmissionInvariant == Spec => []SubmissionInv
<1>1. Init => SubmissionInv
  BY GateInvInit, BodyInvInit DEF SubmissionInv
<1>2. SubmissionInv /\ [Next]_vars => SubmissionInv'
  BY GateInvNext, BodyInvNext DEF SubmissionInv
<1> QED BY <1>1, <1>2, PTL DEF Spec

LEMMA GateInvariant == Spec => []GateInv
<1>1. SubmissionInv => GateInv
  BY DEF SubmissionInv
<1> QED BY <1>1, SubmissionInvariant, PTL

\* The tables, the balances and the requests keep their types, and a stored row has a
\* fee that is positive and fits the column (bundles.rs:278-291).
THEOREM TypeCorrect == Spec => []TypeOK
<1>1. SubmissionInv => TypeOK
  <2> SUFFICES ASSUME SubmissionInv PROVE TypeOK
    OBVIOUS
  <2>1. ASSUME NEW r \in Requests
        PROVE  request[r].ops \in Seq(Slot) /\ (pc[r] \in Stored => FeeOf(request[r]) \in 1..MaxFee)
    <3>1. Passed(request[r], pc[r])
      BY DEF SubmissionInv, GateInv
    <3> QED BY <3>1, RequestFields DEF Passed
  <2> QED BY <2>1 DEF SubmissionInv, GateInv, BodyInv, TypeOK
<1> QED BY <1>1, SubmissionInvariant, PTL

\* Only the last step of the handler stores a row, and it stores what was checked.
LEMMA StoresPersists ==
  ASSUME GateInv, Next, NEW r \in Requests, Stores(r)
  PROVE  /\ Passed(request[r], "PERSIST")
         /\ request'[r].ops = request[r].ops
<1>1. Passed(request[r], "PERSIST") /\ pc[r] = "PERSIST" /\ pc'[r] = "STORED"
  BY DEF GateInv, Stores
<1>2. pc \in [Requests -> Stages] /\ request = [s \in Requests |-> request[s]]
  BY DEF GateInv
<1>3. ASSUME NEW s \in Requests, NEW q, NEW stage, Goto(s, q, stage), stage # "STORED" \/ s # r
      PROVE  FALSE
  BY <1>1, <1>2, <1>3 DEF Goto
<1>4. ASSUME NEW s \in Requests, Persist(s) PROVE request'[r].ops = request[r].ops
  <2>1. s = r
    BY <1>3, <1>4 DEF Persist
  <2>2. request'[r] = NoHistory(request[r])
    BY <2>1, <1>2, <1>4 DEF Persist, Goto, Over
  <2>3. request[r] \in Request(request[r].balances)
    BY <1>1 DEF Passed
  <2> QED BY <2>2, <2>3, Forgotten
<1>5. ASSUME NEW s \in Requests,
             \/ Begin(s) \/ ReadApproval(s) \/ RefuseUnapproved(s) \/ Abandon(s) \/ Build(s) \/ Land(s)
      PROVE  FALSE
  <2>1. CASE Begin(s)
    BY <2>1, <1>3 DEF Begin
  <2>2. CASE ReadApproval(s)
    <3>1. "MEMBERSHIP" # "STORED" /\ "INTERACTION" # "STORED"
      OBVIOUS
    <3> QED BY <2>2, <3>1, <1>3 DEF ReadApproval
  <2>3. CASE RefuseUnapproved(s) \/ Abandon(s) \/ Build(s) \/ Land(s)
    BY <2>3, <1>3 DEF RefuseUnapproved, Abandon, Build, Land
  <2> QED BY <1>5, <2>1, <2>2, <2>3
<1>6. ASSUME NEW s \in Requests,
             ReadMemberships(s) \/ SignHeldSpends(s) \/ ReadChannel(s) \/ ReadBalances(s)
      PROVE  FALSE
  <2>1. s # r
    BY <1>1, <1>6 DEF ReadMemberships, SignHeldSpends, ReadChannel, ReadBalances
  <2>2. \E q, stage : Goto(s, q, stage)
    BY <1>6 DEF ReadMemberships, SignHeldSpends, ReadChannel, ReadBalances
  <2> QED BY <2>1, <2>2, <1>3
<1>7. ASSUME UNCHANGED pc PROVE FALSE
  BY <1>1, <1>7
<1>8. CASE CloseLedger \/ SetChannel
  BY <1>7, <1>8 DEF CloseLedger, SetChannel
<1>9. ASSUME NEW w \in Wallets, NEW name \in Emails \cup {NoName}, Register(w, name) PROVE FALSE
  BY <1>7, <1>9 DEF Register
<1>10. ASSUME NEW c \in Councils, NEW status \in {"ACTIVE", "REJECTED"}, SetMembership(c, status)
       PROVE  FALSE
  BY <1>7, <1>10 DEF SetMembership
<1>11. request'[r].ops = request[r].ops
  BY <1>4, <1>5, <1>6, <1>8, <1>9, <1>10 DEF Next
<1> QED BY <1>1, <1>11

\* post_submit stores a spend signed with a holding key only for a wallet whose
\* email, at some moment of the request, was the one the funds are held for.
THEOREM HeldFundsStay == Spec => HeldFundsStayWithEmail
<1> DEFINE Honoured == \A r \in Requests : Stores(r) =>
      \A i \in DOMAIN request'[r].ops :
        request'[r].ops[i].sig.by = "PROVIDER" =>
          \E e \in request[r].names \cap Emails : request'[r].ops[i].who \in HoldingKeys[e]
<1>1. ASSUME GateInv, [Next]_vars PROVE [Honoured]_vars
  <2>1. CASE Next
    <3> SUFFICES ASSUME NEW r \in Requests, Stores(r), NEW i \in DOMAIN request'[r].ops,
                        request'[r].ops[i].sig.by = "PROVIDER"
                 PROVE  \E e \in request[r].names \cap Emails : request'[r].ops[i].who \in HoldingKeys[e]
      OBVIOUS
    <3>1. Passed(request[r], "PERSIST") /\ request'[r].ops = request[r].ops
      BY <1>1, <2>1, StoresPersists
    <3>2. \A j \in DOMAIN request[r].ops :
            IsHeldSignature(request[r].ops[j]) => SignedFor(request[r], request[r].ops[j])
      BY <3>1 DEF Passed, HeldSpends
    <3> QED BY <3>1, <3>2 DEF IsHeldSignature, SignedFor
  <2>2. CASE UNCHANGED vars
    BY <2>2
  <2> QED BY <1>1, <2>1, <2>2
<1> QED BY <1>1, GateInvariant, PTL DEF Spec, HeldFundsStayWithEmail

\* What post_submit stores passed the three gates, each as it stood at some moment
\* between the arrival of the request and the insertion.
THEOREM GatesAreHonoured == Spec => GatesHonoured
<1> DEFINE Honoured == \A r \in Requests : Stores(r) =>
       /\ Approved(request[r].wallet)
       /\ request[r].serving
       /\ request[r].channel /\ ~request[r].enabled =>
            /\ \A i \in DOMAIN request[r].ops : request[r].ops[i].kind # "DEPOSIT"
            /\ \E i \in DOMAIN request[r].ops : request[r].ops[i].kind = "WITHDRAW"
<1>1. ASSUME GateInv, [Next]_vars PROVE [Honoured]_vars
  <2>1. CASE Next
    <3> SUFFICES ASSUME NEW r \in Requests, Stores(r)
                 PROVE  /\ Approved(request[r].wallet)
                        /\ request[r].serving
                        /\ request[r].channel /\ ~request[r].enabled =>
                             /\ \A i \in DOMAIN request[r].ops : request[r].ops[i].kind # "DEPOSIT"
                             /\ \E i \in DOMAIN request[r].ops : request[r].ops[i].kind = "WITHDRAW"
      OBVIOUS
    <3>1. Passed(request[r], "PERSIST")
      BY <1>1, <2>1, StoresPersists
    <3>2. /\ Approved(request[r].wallet) /\ request[r].serving
          /\ request[r].channel => request[r].enabled \/ WithdrawOnly(request[r].ops)
      BY <3>1 DEF Passed, Open
    <3> QED BY <3>2 DEF WithdrawOnly, HasKind
  <2>2. CASE UNCHANGED vars
    BY <2>2
  <2> QED BY <1>1, <2>1, <2>2
<1> QED BY <1>1, GateInvariant, PTL DEF Spec, GatesHonoured

\* "Inject a fresh Create for that amount ... so the bundle balances" (executor.rs:188):
\* it does, as long as the UTXOs have the balances the fee was derived from, for every
\* bundle that does not deposit and spend at once.
THEOREM BundlesBalance ==
  ASSUME AllUnmixed
  PROVE  Spec => []BundleBalances
<1>1. SubmissionInv => BundleBalances
  <2> SUFFICES ASSUME SubmissionInv, NEW r \in Requests, pc[r] = "BUILT", StillFunded(r)
               PROVE  Balanced(TransactionOf(r).op, balance)
    BY DEF BundleBalances
  <2>1. Unmixed(request[r].ops)
    BY BuiltRow DEF Carried
  <2> QED BY <2>1, BuiltBalances
<1> QED BY <1>1, SubmissionInvariant, PTL

\* Of clients that name each UTXO once and sign for what they spend and deposit, what
\* post_submit admits is what the contract accepts of the executor, while the UTXOs and
\* the signatures are good: submit_one leaves nothing out of the transaction.
THEOREM AdmittedIsExecutable ==
  ASSUME AllSound
  PROVE  Spec => []BuiltIsExecutable
<1>1. SubmissionInv => BuiltIsExecutable
  BY BuiltAccepted DEF BuiltIsExecutable
<1> QED BY <1>1, SubmissionInvariant, PTL
================================================================================
