--------------------------- MODULE EntityTableProofs ---------------------------
(***************************************************************************)
(* What the queries on the entities table keep, whoever issues them: the   *)
(* lemmas that the proofs about sign-in and about submission share.        *)
(***************************************************************************)
EXTENDS EntityTable, TLAPS

\* Every query that writes the table, with the arguments a handler gives it.
EntityWrite ==
  \E w \in Wallets, name \in Emails \cup {NoName} :
    RecordInteraction(w) \/ CreateEntity(w, name) \/ ApproveWithIdentity(w, name)

LEMMA EntityInitTyped == EntityInit => EntityTypeOK
BY DEF EntityInit, EntityTypeOK, Entity

LEMMA EntityWriteTyped == EntityTypeOK /\ EntityWrite => EntityTypeOK'
<1> SUFFICES ASSUME EntityTypeOK, NEW w \in Wallets, NEW name \in Emails \cup {NoName},
               RecordInteraction(w) \/ CreateEntity(w, name) \/ ApproveWithIdentity(w, name)
             PROVE  EntityTypeOK'
  BY DEF EntityWrite
<1> USE DEF EntityTypeOK, Entity, NoEntity, Exists
<1>1. CASE RecordInteraction(w)
  BY <1>1 DEF RecordInteraction
<1>2. CASE CreateEntity(w, name)
  BY <1>2 DEF CreateEntity
<1>3. CASE ApproveWithIdentity(w, name)
  BY <1>3, ZenonT(60) DEF ApproveWithIdentity
<1> QED BY <1>1, <1>2, <1>3

\* A row that exists stays, and an approved one stays approved.
LEMMA EntityWriteKeeps ==
  ASSUME EntityTypeOK, EntityWrite, NEW v \in Wallets
  PROVE  /\ Exists(v) => Exists(v)'
         /\ Approved(v) => Approved(v)'
<1>1. PICK w \in Wallets, name \in Emails \cup {NoName} :
        RecordInteraction(w) \/ CreateEntity(w, name) \/ ApproveWithIdentity(w, name)
  BY DEF EntityWrite
<1> USE DEF EntityTypeOK, Entity, NoEntity, Exists, Approved
<1>2. CASE RecordInteraction(w)
  BY <1>2 DEF RecordInteraction
<1>3. CASE CreateEntity(w, name)
  BY <1>3 DEF CreateEntity
<1>4. CASE ApproveWithIdentity(w, name)
  BY <1>4 DEF ApproveWithIdentity
<1> QED BY <1>1, <1>2, <1>3, <1>4

LEMMA ApprovedExists == ASSUME NEW w, Approved(w) PROVE Exists(w)
BY DEF Approved, Exists, NoEntity
================================================================================
