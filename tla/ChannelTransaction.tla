-------------------------- MODULE ChannelTransaction --------------------------
(***************************************************************************)
(* The transaction the executor builds of a stored bundle, submit_one and  *)
(* its helpers in crates/core/src/pipelines/executor.rs, and the contract  *)
(* that judges it (external, as the comments there describe it).           *)
(*                                                                         *)
(* An authorization entry is of an ACCOUNT, signed by the client over the  *)
(* nonce and expiration it chose, or of the CONTRACT, signed here.  What   *)
(* simulation returns carries placeholders for both.                       *)
(***************************************************************************)
EXTENDS Mlxdr

CONSTANT ExpirationOffset   \* transaction_expiration_offset, in ledgers

ASSUME TransactionAssumption == ExpirationOffset \in Nat

Placeholder == 0

\* The contract asks the accounts that deposit: the client signs no withdrawal
\* (frontend/src/lib/moonlight-client.ts:477).
AuthorizingAccounts(slots) ==
  {slots[i].who : i \in {j \in DOMAIN slots : slots[j].kind = "DEPOSIT"}}

AccountEntry(account, nonce, exp) ==
  [type |-> "ACCOUNT", account |-> account, nonce |-> nonce, exp |-> exp, signatures |-> <<>>]

ContractEntry ==
  [type |-> "CONTRACT", account |-> 0, nonce |-> Placeholder, exp |-> 0, signatures |-> <<>>]

\* simulate_transaction: an entry for the channel-auth contract and one for
\* every account the contract asks.
Simulated(slots) ==
  <<ContractEntry>> \o
  [i \in 1..Cardinality(AuthorizingAccounts(slots)) |->
     AccountEntry(SetToSeq(AuthorizingAccounts(slots))[i], Placeholder, 0)]

-----------------------------------------------------------------------------
(* The steps of submit_one between simulation and signature *)

\* Mutant: a placeholder without a client entry is kept, and so are the others.
SpliceNothing(auth, signed) == auth

\* splice_user_signed_entries: the placeholder of an account gives way to the
\* first client entry of that account, or is dropped.
Splice(auth, signed) ==
  LET ForAccount(a) == SelectInSeq(signed, LAMBDA s : s.who = a)
      Stays(e) == e.type = "CONTRACT" \/ ForAccount(e.account) # 0
      Replacement(e) ==
        IF e.type = "CONTRACT" THEN e
        ELSE LET s == signed[ForAccount(e.account)]
             IN  AccountEntry(s.who, s.sig.nonce, s.sig.exp)
      kept == Kept(auth, {i \in DOMAIN auth : Stays(auth[i])})
  IN  [k \in DOMAIN kept |-> Replacement(kept[k])]

\* Mutant: the nonces of simulation are taken for those of the client.
FootprintOfSimulation(auth, signed) ==
  {<<auth[i].account, auth[i].nonce>> : i \in {j \in DOMAIN auth : auth[j].type = "ACCOUNT"}}

\* extend_footprint_with_user_nonces: what simulation put there, and the nonce
\* of every client entry, each once.
Footprint(auth, signed) ==
  FootprintOfSimulation(auth, signed) \cup
  {<<signed[i].who, signed[i].sig.nonce>> : i \in DOMAIN signed}

\* set_auth_signature_expiration leaves the entries of accounts alone.
SetExpiration(auth, exp) ==
  [i \in DOMAIN auth |-> IF auth[i].type = "CONTRACT" THEN [auth[i] EXCEPT !.exp = exp] ELSE auth[i]]

\* Mutant: the spends stay in slot order.
InSlotOrder(spends) == spends

\* sorted_spends: by UTXO key, equal keys stay in slot order.
ByUtxo(spends) ==
  LET Before(i, j) == \/ spends[i].utxo < spends[j].utxo
                      \/ spends[i].utxo = spends[j].utxo /\ i < j
      order == InOrder(DOMAIN spends, Before)
  IN  [k \in DOMAIN spends |-> spends[order[k]]]

P256(spend)      == [signer |-> "P256", key |-> spend.utxo, exp |-> spend.exp]
ProviderSig(exp) == [signer |-> "Provider", key |-> 0, exp |-> exp]

\* sign_soroban_auth_entries: the signatures of the spends, then the provider's.
SignAuth(auth, spends) ==
  LET sorted == ByUtxo(spends)
  IN  [i \in DOMAIN auth |->
         IF auth[i].type = "CONTRACT"
           THEN [auth[i] EXCEPT !.signatures =
                   Append([k \in DOMAIN sorted |-> P256(sorted[k])], ProviderSig(auth[i].exp))]
           ELSE auth[i]]

\* submit_one up to send_transaction, at a given latest ledger.
Assemble(slots, fee, feeKey, ledger) ==
  LET signed == UserSignedEntries(slots)
      auth   == Simulated(slots)
  IN  [op        |-> ChannelOperation(slots, FeeCreate(feeKey, fee)),
       auth      |-> SignAuth(SetExpiration(Splice(auth, signed), ledger + ExpirationOffset),
                              UserSpendSignatures(slots)),
       footprint |-> Footprint(auth, signed)]

-----------------------------------------------------------------------------
(* The contract (external).  balance is -1 for a UTXO that never existed, 0 *)
(* for a spent one.                                                         *)

Keys(ops) == [i \in DOMAIN ops |-> ops[i].who]

SumOf(ops) == Total([i \in DOMAIN ops |-> ops[i].amount])

BalancesOf(utxos, balance) == Total([i \in DOMAIN utxos |-> balance[utxos[i]]])

\* "total_deposit + spend = total_create + total_withdraw" (mlxdr.rs:497)
Balanced(op, balance) ==
  SumOf(op.deposit) + BalancesOf(Keys(op.spend), balance) = SumOf(op.create) + SumOf(op.withdraw)

\* The spent UTXOs are funded and the created ones new, each named once, and a
\* Create has a positive amount (bundles.rs:278-281).
UtxosFit(op, balance) ==
  /\ IsInjective(Keys(op.spend)) /\ IsInjective(Keys(op.create))
  /\ \A i \in DOMAIN op.spend  : balance[op.spend[i].who] > 0
  /\ \A i \in DOMAIN op.create : balance[op.create[i].who] = -1 /\ op.create[i].amount > 0

\* A map's keys are in order, none twice: P256 keys by UTXO before Provider.
IsOrderedMap(signatures) ==
  \A i, j \in DOMAIN signatures : i < j =>
    \/ signatures[i].signer = "P256" /\ signatures[j].signer = "Provider"
    \/ signatures[i].signer = signatures[j].signer /\ signatures[i].key < signatures[j].key

\* Every spend and the provider signed, in a map, and nothing has expired.
SignaturesFit(tx, ledger) ==
  \A i \in DOMAIN tx.auth : tx.auth[i].type = "CONTRACT" =>
    LET sigs == tx.auth[i].signatures IN
    /\ IsOrderedMap(sigs)
    /\ \A k \in DOMAIN sigs : sigs[k].exp >= ledger
    /\ \A s \in ToSet(Keys(tx.op.spend)) :
         \E k \in DOMAIN sigs : sigs[k].signer = "P256" /\ sigs[k].key = s
    /\ \E k \in DOMAIN sigs : sigs[k].signer = "Provider"

\* Every account that is asked has an entry of its own, whose nonce the
\* footprint names.
AccountsFit(tx, slots, ledger) ==
  \A a \in AuthorizingAccounts(slots) : \E i \in DOMAIN tx.auth :
    /\ tx.auth[i].type = "ACCOUNT" /\ tx.auth[i].account = a
    /\ tx.auth[i].nonce # Placeholder
    /\ <<a, tx.auth[i].nonce>> \in tx.footprint
    /\ tx.auth[i].exp >= ledger

Accepts(tx, slots, balance, ledger) ==
  /\ Balanced(tx.op, balance)
  /\ UtxosFit(tx.op, balance)
  /\ SignaturesFit(tx, ledger)
  /\ AccountsFit(tx, slots, ledger)
=============================================================================
