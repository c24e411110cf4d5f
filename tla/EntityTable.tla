----------------------------- MODULE EntityTable -----------------------------
(***************************************************************************)
(* The entities table and the queries on it, EntityRepo in                 *)
(* crates/persistence/src/repo.rs.  The id of an entity is the public key  *)
(* of its wallet; the name is the email it registered with.  No route      *)
(* deletes a row, blocks one or leaves one PENDING.                        *)
(***************************************************************************)
EXTENDS Naturals

CONSTANTS Wallets, Emails

NoName == "NULL"

ASSUME EntityAssumption == NoName \notin Emails

VARIABLE entities

NoEntity == [status |-> "ABSENT", name |-> NoName]
Entity   == [status : {"UNVERIFIED", "APPROVED"}, name : Emails \cup {NoName}] \cup {NoEntity}

EntityTypeOK == entities \in [Wallets -> Entity]
EntityInit   == entities = [w \in Wallets |-> NoEntity]

\* find_by_id finds a row.
Exists(w) == entities[w] # NoEntity

Approved(w) == entities[w].status = "APPROVED"

\* Mutant: the conflict clause of record_interaction writes the status.
RecordInteractionOver(w) == entities' = [entities EXCEPT ![w].status = "UNVERIFIED"]

\* record_interaction inserts a row where there is none; the update of a row in
\* conflict touches its timestamp at most.
RecordInteraction(w) ==
  entities' = IF Exists(w) THEN entities
              ELSE [entities EXCEPT ![w].status = "UNVERIFIED"]

\* create, which the primary key lets succeed only once.
CreateEntity(w, name) ==
  /\ ~Exists(w)
  /\ entities' = [entities EXCEPT ![w] = [status |-> "APPROVED", name |-> name]]

\* approve_with_identity keeps the name where none is given; without a row it
\* changes nothing.
ApproveWithIdentity(w, name) ==
  entities' = IF ~Exists(w) THEN entities
              ELSE [entities EXCEPT ![w].status = "APPROVED",
                                    ![w].name = IF name = NoName THEN @ ELSE name]
=============================================================================
