-------------------------------- MODULE Mlxdr --------------------------------
(***************************************************************************)
(* The MLXDR slots of a bundle, crates/core/src/mlxdr.rs and bundle.rs: how *)
(* each reader looks at a slot, what it passes over and what it refuses.   *)
(*                                                                         *)
(* A slot is one operation and its signature wrapper.  Encodings are left  *)
(* out but for the three ways a slot can be wrong, which different readers *)
(* meet at different places:                                               *)
(*                                                                         *)
(*   frame  "READ" | "NOISE"   base64, prefix, type byte, outer vector     *)
(*   shape  "WELL" | "ODD"     the payload has the fields of its kind      *)
(*   sig.by "NOBODY"           the wrapper is empty or absent              *)
(*          "OWNER"            signed by the client                        *)
(*          "PROVIDER"         signed by sign_spend_slot                   *)
(*          "GARBLED"          a wrapper no reader recognises              *)
(*          "BROKEN"           a wrapper holding an entry that is not XDR  *)
(***************************************************************************)
EXTENDS Integers, Sequences, SequencesExt

Kinds   == {"CREATE", "SPEND", "DEPOSIT", "WITHDRAW"}
Signers == {"NOBODY", "OWNER", "PROVIDER", "GARBLED", "BROKEN"}

\* "who" is the UTXO key of a Create or Spend, the account of the others.  The
\* payload of a Spend carries conditions and no amount.
Slot == [frame : {"READ", "NOISE"}, shape : {"WELL", "ODD"}, kind : Kinds,
         who : Nat, amount : Int, conditions : Nat,
         sig : [by : Signers, exp : Nat, nonce : Nat]]

IsReadable(slots) == \A i \in DOMAIN slots : slots[i].frame = "READ"

\* The members of a finite set, in the order of Before.
InOrder(S, Before(_, _)) ==
  CHOOSE f \in [1..Cardinality(S) -> S] :
    \A i, j \in 1..Cardinality(S) : i < j => Before(f[i], f[j])

\* What is at these places of a sequence, one after the other: SelectSeq, of which the
\* provers know nothing, by the places it keeps.
Kept(slots, places) ==
  LET order == InOrder(places, <) IN [k \in 1..Cardinality(places) |-> slots[order[k]]]

-----------------------------------------------------------------------------
(* Classification and the fee *)

\* decode succeeds
Decodes(slot) == slot.frame = "READ" /\ slot.shape = "WELL"

\* classify_bundle succeeds: every slot decodes.
Classifies(slots) == \A i \in DOMAIN slots : Decodes(slots[i])

OfKind(kind, slots) == Kept(slots, {i \in DOMAIN slots : slots[i].kind = kind})

\* The list of this kind is not empty.
HasKind(kind, slots) == \E i \in DOMAIN slots : slots[i].kind = kind

Total(ns) == FoldSeq(+, 0, ns)

TotalOf(kind, slots) ==
  LET picked == OfKind(kind, slots) IN Total([i \in DOMAIN picked |-> picked[i].amount])

\* The spent UTXOs in slot order, the order in which balances are asked for.
SpendUtxos(slots) ==
  LET spends == OfKind("SPEND", slots) IN [i \in DOMAIN spends |-> spends[i].who]

Outflows(slots) == TotalOf("CREATE", slots) + TotalOf("WITHDRAW", slots)

\* Mutant: withdrawals are not taken off.
FeeIgnoringWithdrawals(slots, balances) ==
  IF TotalOf("DEPOSIT", slots) <= 0
    THEN Total(balances) - TotalOf("CREATE", slots)
    ELSE TotalOf("DEPOSIT", slots) - TotalOf("CREATE", slots)

\* calculate_fee over Amounts::from_classified: the spends count only in a
\* bundle that deposits nothing.
Fee(slots, balances) ==
  IF TotalOf("DEPOSIT", slots) <= 0
    THEN Total(balances) - Outflows(slots)
    ELSE TotalOf("DEPOSIT", slots) - Outflows(slots)

-----------------------------------------------------------------------------
(* Held spends: found unsigned, signed in place *)

\* unsigned_spend_utxo finds a UTXO in this slot.
IsUnsignedSpend(slot) == slot.kind = "SPEND" /\ slot.sig.by = "NOBODY"

UnsignedSpends(slots) == {i \in DOMAIN slots : IsUnsignedSpend(slots[i])}

\* unsigned_spend_utxo fails on no slot.
UnsignedReadable(slots) ==
  /\ IsReadable(slots)
  /\ \A i \in UnsignedSpends(slots) : slots[i].shape = "WELL"

\* sign_spend_slot succeeds: there is a condition to sign over.
Signable(slot) == slot.kind = "SPEND" /\ slot.shape = "WELL" /\ slot.conditions >= 1

\* Mutant: the expiration is lost on the way into the wrapper.
SignSpendWithoutExp(slot, exp) == [slot EXCEPT !.sig = [by |-> "PROVIDER", exp |-> 0, nonce |-> 0]]

SignSpend(slot, exp) == [slot EXCEPT !.sig = [by |-> "PROVIDER", exp |-> exp, nonce |-> 0]]

SignSpends(slots, exp) ==
  [i \in DOMAIN slots |-> IF IsUnsignedSpend(slots[i]) THEN SignSpend(slots[i], exp) ELSE slots[i]]

-----------------------------------------------------------------------------
(* What the executor lifts out of stored slots *)

\* extract_user_signed_entries keeps this slot; a wrapper it does not recognise
\* is passed over, an entry that does not parse fails the bundle.
CarriesEntry(slot) == slot.kind \in {"DEPOSIT", "WITHDRAW"} /\ slot.sig.by = "OWNER"

EntriesReadable(slots) ==
  /\ IsReadable(slots)
  /\ \A i \in DOMAIN slots :
       slots[i].kind \in {"DEPOSIT", "WITHDRAW"} => slots[i].sig.by # "BROKEN"

UserSignedEntries(slots) == Kept(slots, {i \in DOMAIN slots : CarriesEntry(slots[i])})

\* extract_user_spend_signatures
CarriesSpendSignature(slot) == slot.kind = "SPEND" /\ slot.sig.by \in {"OWNER", "PROVIDER"}

UserSpendSignatures(slots) ==
  LET signed == Kept(slots, {i \in DOMAIN slots : CarriesSpendSignature(slots[i])})
  IN  [i \in DOMAIN signed |-> [utxo |-> signed[i].who, exp |-> signed[i].sig.exp]]

-----------------------------------------------------------------------------
(* The argument of the contract's transact *)

\* build_fee_create_op
FeeCreate(key, fee) == [who |-> key, amount |-> fee]

Payload(slots) == [i \in DOMAIN slots |-> [who |-> slots[i].who, amount |-> slots[i].amount]]

\* aggregate_to_channel_operation_with_fee_create: the payloads verbatim, in
\* slot order, one list per kind, and the extra Create last.
ChannelOperation(slots, extraCreate) ==
  [create   |-> Append(Payload(OfKind("CREATE", slots)), extraCreate),
   deposit  |-> Payload(OfKind("DEPOSIT", slots)),
   spend    |-> Payload(OfKind("SPEND", slots)),
   withdraw |-> Payload(OfKind("WITHDRAW", slots))]
=============================================================================
