--------------------------- MODULE WalletAuthProofs ---------------------------
(***************************************************************************)
(* Theorems about WalletAuth, for every number of wallets, nonces and      *)
(* requests, every capacity of the nonce store and every lifetime.         *)
(***************************************************************************)
EXTENDS WalletAuth, EntityTableProofs, NaturalOrder, FiniteSetTheorems, TLAPS

-----------------------------------------------------------------------------
(* The nonce store *)

Stores == [Nonces -> [key : Wallets, at : -1..MaxClock]]

LEMMA NotStoredTyped == NotStored \in [key : Wallets, at : -1..MaxClock]
BY AuthAssumption DEF NotStored

\* Where something is stored, something stored is the oldest.
LEMMA OldestExists ==
  ASSUME NEW store \in Stores, Held(store) # {}
  PROVE  OldestOf(store) # {}
<1> DEFINE Ages == {store[n].at + 1 : n \in Held(store)}
<1>1. \A n \in Held(store) : n \in Nonces /\ store[n].at \in -1..MaxClock
  BY DEF Held, Stores
<1>2. Ages \in SUBSET Nat /\ Ages # {}
  BY <1>1, AuthAssumption
<1>3. PICK age \in Ages : \A other \in Ages : age <= other
  BY <1>2, LeastNatural
<1>4. PICK n \in Held(store) : age = store[n].at + 1
  BY <1>3
<1>5. \A m \in Held(store) : store[m].at >= store[n].at
  <2> TAKE m \in Held(store)
  <2>1. age <= store[m].at + 1
    BY <1>3
  <2> QED BY <2>1, <1>4, <1>1, AuthAssumption
<1> QED BY <1>5 DEF OldestOf

LEMMA CollectedStore ==
  ASSUME TypeOK
  PROVE  /\ Collected \in Stores
         /\ Held(Collected) = {n \in Nonces : Alive(n)}
         /\ Held(Collected) \subseteq Held(pending)
         /\ IsFiniteSet(Held(Collected)) /\ Cardinality(Held(Collected)) <= Cardinality(Held(pending))
         /\ Cardinality(Held(Collected)) \in Nat /\ Cardinality(Held(pending)) \in Nat
<1>1. Collected \in Stores
  BY NotStoredTyped DEF Collected, Stores, TypeOK, NonceTypeOK
<1>2. Held(Collected) = {n \in Nonces : Alive(n)}
  BY DEF Held, Collected, Alive
<1>3. Held(Collected) \subseteq Held(pending)
  BY <1>2 DEF Held, Alive
<1>4. IsFiniteSet(Held(pending))
  BY DEF TypeOK, NonceTypeOK
<1> QED BY <1>1, <1>2, <1>3, <1>4, FS_Subset, FS_CardinalityType

\* A store after issue: what was there was kept, collected or evicted.
LEMMA IssueStores ==
  ASSUME TypeOK, NonceInv, NEW key \in Wallets, Issue(key)
  PROVE  /\ pending' \in Stores
         /\ IsFiniteSet(Held(pending')) /\ Cardinality(Held(pending')) <= MaxPending
         /\ drawn' \subseteq Nonces
         /\ \A n \in Nonces : n \in drawn => n \in drawn'
         /\ \A n \in Nonces : \/ n \notin drawn /\ n \in drawn' /\ pending'[n].at = clock
                              \/ pending'[n] = NotStored
                              \/ pending'[n] = pending[n]
<1>1. PICK n \in Nonces \ drawn :
        /\ drawn' = drawn \cup {n}
        /\ \E store \in IF Evictable(Collected) = {} THEN {Collected}
                    ELSE {[Collected EXCEPT ![m] = NotStored] : m \in Evictable(Collected)} :
             pending' = [store EXCEPT ![n] = [key |-> key, at |-> clock]]
  BY DEF Issue
<1>2. PICK store :
        /\ store \in IF Evictable(Collected) = {} THEN {Collected}
                    ELSE {[Collected EXCEPT ![m] = NotStored] : m \in Evictable(Collected)}
        /\ pending' = [store EXCEPT ![n] = [key |-> key, at |-> clock]]
  BY <1>1
<1>3. /\ store \in Stores /\ IsFiniteSet(Held(store)) /\ Cardinality(Held(store)) \in Nat
      /\ Cardinality(Held(store)) + 1 <= MaxPending
      /\ \A k \in Nonces : store[k] = NotStored \/ store[k] = Collected[k]
  <2>1. CASE Evictable(Collected) = {}
    <3>1. store = Collected
      BY <2>1, <1>2
    <3>2. ~(Cardinality(Held(Collected)) >= MaxPending)
      <4> SUFFICES ASSUME Cardinality(Held(Collected)) >= MaxPending PROVE FALSE
        OBVIOUS
      <4>1. Held(Collected) # {}
        BY FS_EmptySet, AuthAssumption
      <4> QED BY <4>1, <2>1, OldestExists, CollectedStore DEF Evictable
    <3> QED BY <3>1, <3>2, CollectedStore, AuthAssumption
  <2>2. CASE Evictable(Collected) # {}
    <3>1. PICK m \in Evictable(Collected) : store = [Collected EXCEPT ![m] = NotStored]
      BY <2>2, <1>2
    <3>2. m \in Held(Collected) /\ m \in Nonces
      BY <3>1 DEF Evictable, OldestOf, Held
    <3>3. store \in Stores
      BY <3>1, <3>2, CollectedStore, NotStoredTyped DEF Stores
    <3>4. Held(store) = Held(Collected) \ {m}
      BY <3>1, <3>2, CollectedStore DEF Held, Stores
    <3>5. /\ IsFiniteSet(Held(store))
          /\ Cardinality(Held(store)) = Cardinality(Held(Collected)) - 1
      BY <3>2, <3>4, CollectedStore, FS_RemoveElement
    <3>6. Cardinality(Held(pending)) <= MaxPending /\ MaxPending \in Nat
      BY AuthAssumption DEF TypeOK, NonceTypeOK
    <3>7. Cardinality(Held(store)) \in Nat
      BY <3>5, FS_CardinalityType
    <3> QED BY <3>1, <3>3, <3>5, <3>6, <3>7, CollectedStore DEF Stores
  <2> QED BY <2>1, <2>2
<1>4. [key |-> key, at |-> clock] \in [key : Wallets, at : -1..MaxClock]
  BY AuthAssumption DEF TypeOK, NonceTypeOK
<1>5. pending' \in Stores
  BY <1>2, <1>3, <1>4 DEF Stores
<1>6. Held(pending') \subseteq Held(store) \cup {n}
  BY <1>2, <1>3 DEF Held, Stores
<1>7. /\ IsFiniteSet(Held(store) \cup {n})
      /\ Cardinality(Held(store) \cup {n}) <= Cardinality(Held(store)) + 1
  <2>1. IsFiniteSet(Held(store)) /\ Cardinality(Held(store)) \in Nat
    BY <1>3
  <2>2. /\ IsFiniteSet(Held(store) \cup {n})
        /\ Cardinality(Held(store) \cup {n}) =
             IF n \in Held(store) THEN Cardinality(Held(store)) ELSE Cardinality(Held(store)) + 1
    BY <2>1, FS_AddElement
  <2> QED BY <2>1, <2>2
<1>8. IsFiniteSet(Held(pending')) /\ Cardinality(Held(pending')) <= MaxPending
  <2>1. /\ IsFiniteSet(Held(pending'))
        /\ Cardinality(Held(pending')) <= Cardinality(Held(store) \cup {n})
        /\ Cardinality(Held(pending')) \in Nat /\ Cardinality(Held(store) \cup {n}) \in Nat
    BY <1>6, <1>7, FS_Subset, FS_CardinalityType
  <2> QED BY <2>1, <1>3, <1>7, AuthAssumption
<1>9. ASSUME NEW k \in Nonces
      PROVE  \/ k \notin drawn /\ k \in drawn' /\ pending'[k].at = clock
             \/ pending'[k] = NotStored
             \/ pending'[k] = pending[k]
  <2>1. CASE k = n
    BY <2>1, <1>1, <1>2, <1>3 DEF Stores
  <2>2. CASE k # n
    BY <2>2, <1>2, <1>3 DEF Stores, Collected
  <2> QED BY <2>1, <2>2
<1>10. drawn' \subseteq Nonces /\ \A k \in Nonces : k \in drawn => k \in drawn'
  BY <1>1 DEF TypeOK, NonceTypeOK
<1> QED BY <1>5, <1>8, <1>9, <1>10

\* A store after consume: the nonce is gone, and is counted as used at most once.
LEMMA ConsumeStores ==
  ASSUME TypeOK, NonceInv, NEW n \in Nonces, NEW key \in Wallets, Consume(n, key)
  PROVE  /\ pending' \in Stores
         /\ IsFiniteSet(Held(pending')) /\ Cardinality(Held(pending')) <= MaxPending
         /\ uses' \in [Nonces -> Seq(Wallets)] /\ UNCHANGED drawn
         /\ \A k \in Nonces : pending'[k] = NotStored \/ (k # n /\ pending'[k] = Collected[k])
         /\ \A k \in Nonces : Alive(k) /\ k # n => pending'[k] = pending[k]
         /\ \A k \in Nonces : uses'[k] # uses[k] =>
              /\ k = n /\ Alive(n) /\ uses[n] = <<>> /\ uses'[n] = <<pending[n].key>>
<1>1. pending' = [Collected EXCEPT ![n] = NotStored]
  BY DEF Consume, Remove
<1>2. pending' \in Stores
  BY <1>1, CollectedStore, NotStoredTyped DEF Stores
<1>3. Held(pending') \subseteq Held(Collected)
  BY <1>1, CollectedStore DEF Held, Stores
<1>4. IsFiniteSet(Held(pending')) /\ Cardinality(Held(pending')) <= MaxPending
  <2>1. /\ IsFiniteSet(Held(pending'))
        /\ Cardinality(Held(pending')) <= Cardinality(Held(Collected))
        /\ Cardinality(Held(pending')) \in Nat
    BY <1>3, CollectedStore, FS_Subset, FS_CardinalityType
  <2>2. Cardinality(Held(pending)) <= MaxPending /\ MaxPending \in Nat
    BY AuthAssumption DEF TypeOK, NonceTypeOK
  <2> QED BY <2>1, <2>2, CollectedStore
<1>5. \A k \in Nonces : pending'[k] = NotStored \/ (k # n /\ pending'[k] = Collected[k])
  BY <1>1, CollectedStore DEF Stores
<1>6. \A k \in Nonces : Alive(k) /\ k # n => pending'[k] = pending[k]
  BY <1>1, CollectedStore DEF Stores, Collected
<1>7. CASE IsConsumed(n, key)
  <2>1. Alive(n) /\ pending[n].key = key /\ uses[n] = <<>>
    BY <1>7 DEF IsConsumed, Alive, NonceInv
  <2>2. uses' = [uses EXCEPT ![n] = <<key>>]
    BY <1>7, <2>1 DEF Consume, TypeOK, NonceTypeOK
  <2>3. uses' \in [Nonces -> Seq(Wallets)]
    BY <2>2 DEF TypeOK, NonceTypeOK
  <2> QED BY <1>2, <1>4, <1>5, <1>6, <2>1, <2>2, <2>3 DEF Consume, TypeOK, NonceTypeOK
<1>8. CASE ~IsConsumed(n, key)
  BY <1>2, <1>4, <1>5, <1>6, <1>8 DEF Consume, TypeOK, NonceTypeOK
<1> QED BY <1>7, <1>8

-----------------------------------------------------------------------------
(* The inductive invariant *)

LEMMA AuthInvInit == Init => AuthInv
<1> SUFFICES ASSUME Init PROVE AuthInv
  OBVIOUS
<1> USE AuthAssumption DEF Init, NotStored, NoRequest, Kinds
<1>1. Held(pending) = {}
  BY DEF Held
<1>2. NonceTypeOK
  <2>1. IsFiniteSet(Held(pending)) /\ Cardinality(Held(pending)) <= MaxPending
    <3>1. IsFiniteSet(Held(pending)) /\ Cardinality(Held(pending)) = 0
      BY ONLY <1>1, FS_EmptySet
    <3> QED BY <3>1
  <2> QED BY <2>1 DEF NonceTypeOK
<1>3. TypeOK
  BY <1>2, EntityInitTyped DEF TypeOK, RegistrationStages, ConnectStages
<1>4. TokenInv /\ RegistrationInv
  BY DEF TokenInv, RegistrationInv, HasBehind
<1>5. NonceInv
  BY DEF NonceInv
<1> QED BY <1>3, <1>4, <1>5 DEF AuthInv

\* What remains of the invariant where neither nonces nor time are touched.
LEMMA NonceInvKept ==
  ASSUME NonceInv, UNCHANGED <<clock, pending, drawn, uses>>
  PROVE  NonceInv'
BY DEF NonceInv

\* A registration that does not move keeps what it has behind it.
LEMMA HasBehindKept ==
  ASSUME TypeOK, NEW r \in Registrations, HasBehind(r), registration'[r] = registration[r],
         EntityWrite \/ UNCHANGED entities,
         accounts' \in [Wallets -> Nat], \A w \in Wallets : accounts'[w] >= accounts[w],
         walletUsers \subseteq walletUsers'
  PROVE  HasBehind(r)'
<1> SUFFICES ASSUME NEW w \in Wallets, w = registration[r].wallet PROVE HasBehind(r)'
  BY DEF TypeOK, NonceTypeOK
<1>1. /\ Exists(w) => Exists(w)'
      /\ Approved(w) => Approved(w)'
  BY EntityWriteKeeps DEF TypeOK, Exists, Approved
<1> QED BY <1>1 DEF HasBehind, TypeOK, Exists, Approved

LEMMA ChallengeStep ==
  ASSUME AuthInv, NEW key \in Wallets, Issue(key),
         UNCHANGED <<clock, signIns, rowVars, registration, connect>>
  PROVE  AuthInv'
<1> USE DEF AuthInv, signIns, rowVars
<1>1. TypeOK'
  BY IssueStores DEF TypeOK, NonceTypeOK, Stores, EntityTypeOK, Issue
<1>2. NonceInv'
  <2>1. UNCHANGED <<clock, uses>> /\ clock \in Nat
    BY AuthAssumption DEF Issue, TypeOK
  <2>2. /\ \A n \in Nonces : n \in drawn => n \in drawn'
        /\ \A n \in Nonces : \/ n \notin drawn /\ n \in drawn' /\ pending'[n].at = clock
                             \/ pending'[n] = NotStored
                             \/ pending'[n] = pending[n]
    BY IssueStores
  <2> QED BY <2>1, <2>2 DEF NonceInv
<1>3. TokenInv' /\ RegistrationInv'
  BY DEF TokenInv, RegistrationInv, HasBehind, Exists, Approved
<1> QED BY <1>1, <1>2, <1>3

LEMMA ConsumeKeeps ==
  ASSUME TypeOK, NonceInv, NEW n \in Nonces, n \in drawn, NEW key \in Wallets, Consume(n, key),
         UNCHANGED clock
  PROVE  NonceTypeOK' /\ NonceInv'
<1>1. NonceTypeOK'
  BY ConsumeStores DEF NonceTypeOK, TypeOK, Stores
<1>2. ASSUME NEW k \in Nonces
      PROVE  /\ k \notin drawn' => pending'[k] = NotStored /\ uses'[k] = <<>>
             /\ pending'[k] # NotStored => pending'[k].at \in 0..clock' /\ uses'[k] = <<>>
  <2>1. /\ UNCHANGED drawn
        /\ pending'[k] = NotStored \/ (k # n /\ pending'[k] = Collected[k])
        /\ uses'[k] # uses[k] => k = n
    BY ConsumeStores
  <2>2. Collected[k] = NotStored \/ Collected[k] = pending[k]
    BY DEF Collected
  <2> QED BY <2>1, <2>2 DEF NonceInv
<1> QED BY <1>1, <1>2 DEF NonceInv

LEMMA DashboardVerifyStep ==
  ASSUME AuthInv, NEW n \in Nonces, NEW signed \in BOOLEAN, DashboardVerify(n, signed)
  PROVE  AuthInv'
<1> USE DEF AuthInv, rowVars
<1>1. n \in drawn /\ Consume(n, Operator) /\ UNCHANGED <<clock, rowVars, registration, connect, envelope>>
  BY DEF DashboardVerify
<1>2. NonceTypeOK' /\ NonceInv'
  BY <1>1, ConsumeKeeps, AuthAssumption
<1>3. \/ token' = [token EXCEPT !["OPERATOR"][Operator] = clock + SessionTtl] /\ signedInAt' = clock
      \/ UNCHANGED <<token, signedInAt>>
  BY DEF DashboardVerify, Mint
<1>4. /\ signedInAt' \in -1..MaxClock
      /\ token' \in [Kinds -> [Wallets -> -1..MaxClock + SessionTtl]]
  BY <1>3, AuthAssumption DEF TypeOK, Kinds
<1>5. TypeOK'
  BY <1>1, <1>2, <1>4 DEF TypeOK, EntityTypeOK
<1>6. TokenInv'
  BY <1>3, AuthAssumption DEF TokenInv, TypeOK, Kinds
<1>7. RegistrationInv'
  BY <1>1 DEF RegistrationInv, HasBehind, Exists, Approved
<1> QED BY <1>2, <1>5, <1>6, <1>7

LEMMA PostStep ==
  ASSUME AuthInv, NEW r \in Registrations, NEW w \in Clients, NEW n \in Nonces,
         NEW name \in Emails, Post(r, w, n, name)
  PROVE  AuthInv'
<1> USE DEF AuthInv, rowVars, signIns
<1>1. /\ n \in drawn /\ w \in Wallets /\ Consume(n, w)
      /\ UNCHANGED <<clock, signedInAt, envelope, token, entities, accounts, walletUsers, connect>>
  BY AuthAssumption DEF Post
<1>2. NonceTypeOK' /\ NonceInv'
  BY <1>1, ConsumeKeeps
<1>3. \/ registration' = [registration EXCEPT ![r] = [at |-> "FIND", wallet |-> w, name |-> name]]
      \/ UNCHANGED registration
  BY DEF Post
<1>4. TypeOK'
  BY <1>1, <1>2, <1>3 DEF TypeOK, EntityTypeOK, RegistrationStages
<1>5. ASSUME NEW s \in Registrations PROVE HasBehind(s)'
  <2>1. registration'[s] = registration[s] \/ registration'[s].at = "FIND"
    BY <1>3 DEF TypeOK
  <2>2. CASE registration'[s] = registration[s]
    BY <1>1, <2>2, HasBehindKept DEF RegistrationInv, TypeOK
  <2>3. CASE registration'[s].at = "FIND"
    BY <2>3 DEF HasBehind
  <2> QED BY <2>1, <2>2, <2>3
<1>6. TokenInv'
  BY <1>1 DEF TokenInv
<1> QED BY <1>2, <1>4, <1>5, <1>6 DEF RegistrationInv

-----------------------------------------------------------------------------
(* The statements of a registration *)

LEMMA NoRequestTyped == NoRequest \in [at : {"IDLE"}, wallet : Wallets, name : {NoName}]
BY AuthAssumption DEF NoRequest

\* A request that moves on has reached a stage it has the rows for.
LEMMA RegisterMoves ==
  ASSUME AuthInv, NEW r \in Registrations, Register(r), NEW w, w = registration[r].wallet
  PROVE  /\ w \in Wallets
         /\ EntityWrite \/ UNCHANGED entities
         /\ accounts' \in [Wallets -> Nat] /\ \A v \in Wallets : accounts'[v] >= accounts[v]
         /\ walletUsers \subseteq walletUsers' /\ walletUsers' \subseteq Wallets
         /\ registration' \in [Registrations ->
              [at : RegistrationStages, wallet : Wallets, name : Emails \cup {NoName}]]
         /\ \A s \in Registrations : s # r => registration'[s] = registration[s]
         /\ HasBehind(r)'
<1> USE DEF AuthInv, rowVars, HasBehind, Moves
<1>1. /\ w \in Wallets /\ registration[r].name \in Emails \cup {NoName}
      /\ registration[r].at \in RegistrationStages
  BY DEF TypeOK
<1>2. \A name \in Emails \cup {NoName} :
        RecordInteraction(w) \/ CreateEntity(w, name) \/ ApproveWithIdentity(w, name) => EntityWrite
  BY <1>1 DEF EntityWrite
<1>3. HasBehind(r)
  BY DEF RegistrationInv
<1>4. ASSUME NEW stage \in RegistrationStages \cup {"REFUSED"}, Moves(r, stage)
      PROVE  /\ registration' \in [Registrations ->
                  [at : RegistrationStages, wallet : Wallets, name : Emails \cup {NoName}]]
             /\ \A s \in Registrations : s # r => registration'[s] = registration[s]
             /\ stage # "REFUSED" => registration'[r].at = stage /\ registration'[r].wallet = w
             /\ stage = "REFUSED" => registration'[r].at = "IDLE"
  BY <1>4, NoRequestTyped DEF TypeOK, RegistrationStages, NoRequest
<1> HIDE DEF Moves
<1> USE DEF RegistrationStages
<1>5. CASE Find(r)
  <2>1. AfterFind(w) \in {"ACCOUNTS", "APPROVE", "CREATE"}
    BY DEF AfterFind
  <2>2. AfterFind(w) = "ACCOUNTS" => Approved(w)
    BY DEF AfterFind
  <2>3. AfterFind(w) = "APPROVE" => Exists(w)
    BY DEF AfterFind
  <2> QED BY <1>1, <1>4, <1>5, <2>1, <2>2, <2>3 DEF Find, TypeOK, Exists, Approved
<1>6. CASE Approve(r)
  <2>1. /\ ApproveWithIdentity(w, registration[r].name) /\ EntityWrite
        /\ Moves(r, "ACCOUNTS") /\ UNCHANGED <<accounts, walletUsers>> /\ Exists(w)
    BY <1>1, <1>2, <1>3, <1>6 DEF Approve
  <2>2. Approved(w)'
    BY <2>1, <1>1 DEF ApproveWithIdentity, Approved, TypeOK, EntityTypeOK, Entity, NoEntity
  <2>3. registration'[r].at = "ACCOUNTS" /\ registration'[r].wallet = w
    BY <2>1, <1>4
  <2> QED BY <1>1, <1>4, <2>1, <2>2, <2>3 DEF TypeOK, Approved
<1>7. CASE Create(r)
  <2>1. CASE Moves(r, "REFUSED") /\ UNCHANGED entities
    BY <1>1, <1>4, <1>7, <2>1 DEF Create, TypeOK
  <2>2. CASE CreateEntity(w, registration[r].name) /\ Moves(r, "ACCOUNTS")
    <3>1. Approved(w)' /\ EntityWrite
      BY <1>1, <1>2, <2>2 DEF CreateEntity, Approved, TypeOK, EntityTypeOK
    <3>2. registration'[r].at = "ACCOUNTS" /\ registration'[r].wallet = w
      BY <2>2, <1>4
    <3> QED BY <1>1, <1>4, <1>7, <2>2, <3>1, <3>2 DEF Create, TypeOK, Approved
  <2> QED BY <1>7, <2>1, <2>2 DEF Create
<1>8. CASE ListAccounts(r)
  <2>1. /\ registration[r].at = "ACCOUNTS" /\ UNCHANGED <<entities, accounts, walletUsers>>
        /\ Moves(r, IF accounts[w] = 0 THEN "NEW_ACCOUNT" ELSE "WALLET_USER")
    BY <1>8 DEF ListAccounts
  <2>2. Approved(w)' /\ accounts[w] \in Nat
    BY <1>1, <1>3, <2>1 DEF TypeOK, Approved
  <2> QED BY <1>1, <1>4, <2>1, <2>2 DEF TypeOK, Approved
<1>9. CASE NewAccount(r)
  <2>1. /\ registration[r].at = "NEW_ACCOUNT" /\ UNCHANGED <<entities, walletUsers>>
        /\ accounts' = [accounts EXCEPT ![w] = @ + 1] /\ Moves(r, "WALLET_USER")
    BY <1>9 DEF NewAccount
  <2>2. Approved(w)' /\ accounts' \in [Wallets -> Nat] /\ accounts'[w] >= 1
        /\ \A v \in Wallets : accounts'[v] >= accounts[v]
    BY <1>1, <1>3, <2>1 DEF TypeOK, Approved
  <2> QED BY <1>1, <1>4, <2>1, <2>2 DEF TypeOK, Approved
<1>10. CASE FindWalletUser(r)
  <2>1. /\ registration[r].at = "WALLET_USER" /\ UNCHANGED <<entities, accounts>>
        /\ walletUsers' = walletUsers \cup {w} /\ Moves(r, "DONE")
    BY <1>10 DEF FindWalletUser
  <2>2. Approved(w)' /\ accounts[w] >= 1
    BY <1>1, <1>3, <2>1 DEF TypeOK, Approved
  <2> QED BY <1>1, <1>4, <2>1, <2>2 DEF TypeOK, Approved
<1>11. CASE RegistrationFails(r)
  BY <1>1, <1>4, <1>11 DEF RegistrationFails, TypeOK
<1> QED BY <1>5, <1>6, <1>7, <1>8, <1>9, <1>10, <1>11 DEF Register

LEMMA RegisterStep ==
  ASSUME AuthInv, NEW r \in Registrations, Register(r)
  PROVE  AuthInv'
<1> USE DEF AuthInv, nonceVars, signIns
<1>1. /\ registration[r].wallet \in Wallets
      /\ UNCHANGED <<clock, pending, drawn, uses, signedInAt, envelope, token, connect>>
  BY DEF Register, TypeOK
<1>2. EntityTypeOK'
  BY RegisterMoves, EntityWriteTyped DEF TypeOK, EntityTypeOK
<1>3. TypeOK'
  BY <1>1, <1>2, RegisterMoves DEF TypeOK, NonceTypeOK
<1>4. NonceInv' /\ TokenInv'
  BY <1>1 DEF NonceInv, TokenInv
<1>5. ASSUME NEW s \in Registrations PROVE HasBehind(s)'
  <2>1. CASE s = r
    BY <2>1, RegisterMoves
  <2>2. CASE s # r
    BY <2>2, RegisterMoves, HasBehindKept DEF RegistrationInv
  <2> QED BY <2>1, <2>2
<1> QED BY <1>3, <1>4, <1>5 DEF RegistrationInv

-----------------------------------------------------------------------------
(* Sign-ins with an envelope, time and restarts *)

LEMMA StellarStep ==
  ASSUME AuthInv, NEW c \in Connects, NEW w \in Wallets,
         StellarVerify(c, w) \/ StellarRecord(c) \/ StellarMint(c)
  PROVE  AuthInv'
<1> USE DEF AuthInv, nonceVars, signIns, rowVars
<1>1. UNCHANGED <<clock, pending, drawn, uses, accounts, walletUsers, registration, signedInAt>>
  BY DEF StellarVerify, StellarRecord, StellarMint
<1>2. w \in Wallets /\ connect[c].wallet \in Wallets
  BY DEF TypeOK
<1>3. EntityWrite \/ UNCHANGED entities
  BY <1>2 DEF EntityWrite, StellarVerify, StellarRecord, StellarMint
<1>4. /\ envelope' \in [Wallets -> -1..MaxClock + ChallengeTtl]
      /\ connect' \in [Connects -> [at : ConnectStages, wallet : Wallets, name : {NoName}]]
      /\ token' \in [Kinds -> [Wallets -> -1..MaxClock + SessionTtl]]
      /\ \A v \in Wallets : token'["OPERATOR"][v] = token["OPERATOR"][v]
  <2>1. CASE StellarVerify(c, w)
    BY <2>1, <1>2, NoRequestTyped DEF StellarVerify, TypeOK, ConnectStages, NoRequest
  <2>2. CASE StellarRecord(c)
    BY <2>2 DEF StellarRecord, TypeOK, ConnectStages
  <2>3. CASE StellarMint(c)
    <3>1. connect' = [connect EXCEPT ![c] = NoRequest] /\ UNCHANGED envelope
      BY <2>3 DEF StellarMint
    <3>2. token' = [token EXCEPT !["ENTITY"][connect[c].wallet] = clock + SessionTtl]
      BY <2>3 DEF StellarMint, Mint
    <3>3. clock + SessionTtl \in -1..MaxClock + SessionTtl
      BY AuthAssumption DEF TypeOK
    <3> QED BY <3>1, <3>2, <3>3, <1>2, NoRequestTyped DEF TypeOK, ConnectStages, Kinds
  <2> QED BY <2>1, <2>2, <2>3
<1>5. EntityTypeOK'
  BY <1>3, EntityWriteTyped DEF TypeOK, EntityTypeOK
<1>6. TypeOK'
  BY <1>1, <1>4, <1>5 DEF TypeOK, NonceTypeOK
<1>7. NonceInv' /\ TokenInv'
  BY <1>1, <1>4 DEF NonceInv, TokenInv
<1>8. ASSUME NEW s \in Registrations PROVE HasBehind(s)'
  <2>1. /\ accounts' \in [Wallets -> Nat] /\ \A v \in Wallets : accounts'[v] >= accounts[v]
        /\ walletUsers \subseteq walletUsers' /\ registration'[s] = registration[s]
    BY <1>1 DEF TypeOK
  <2>2. TypeOK /\ HasBehind(s)
    BY DEF RegistrationInv
  <2> QED BY <2>1, <2>2, <1>3, HasBehindKept
<1> QED BY <1>6, <1>7, <1>8 DEF RegistrationInv

LEMMA TickStep == AuthInv /\ Tick => AuthInv'
<1> SUFFICES ASSUME AuthInv, Tick PROVE AuthInv'
  OBVIOUS
<1> USE DEF AuthInv, nonceVars, signIns, rowVars
<1>1. clock' = clock + 1 /\ clock' \in 0..MaxClock /\ clock \in 0..MaxClock
  BY AuthAssumption DEF Tick, TypeOK
<1>2. UNCHANGED <<pending, drawn, uses, signedInAt, envelope, token, entities, accounts,
                  walletUsers, registration, connect>>
  BY DEF Tick
<1>3. TypeOK'
  BY <1>1, <1>2 DEF TypeOK, NonceTypeOK, EntityTypeOK
<1>4. NonceInv'
  BY <1>1, <1>2 DEF NonceInv
<1>5. TokenInv' /\ RegistrationInv'
  BY <1>2 DEF TokenInv, RegistrationInv, HasBehind, Exists, Approved
<1> QED BY <1>3, <1>4, <1>5

LEMMA RestartStep == AuthInv /\ Restart => AuthInv'
<1> SUFFICES ASSUME AuthInv, Restart PROVE AuthInv'
  OBVIOUS
<1> USE DEF AuthInv, signIns, rowVars
<1>1. pending' = [n \in Nonces |-> NotStored]
  BY DEF Restart
<1>2. UNCHANGED <<clock, drawn, uses, signedInAt, envelope, token, entities, accounts, walletUsers>>
  BY DEF Restart
<1>3. Held(pending') = {}
  BY <1>1 DEF Held
<1>4. IsFiniteSet(Held(pending')) /\ Cardinality(Held(pending')) = 0
  BY ONLY <1>3, FS_EmptySet
<1>5. NonceTypeOK'
  BY <1>1, <1>2, <1>4, NotStoredTyped, AuthAssumption DEF NonceTypeOK, TypeOK
<1>6. \A r \in Registrations : registration'[r] = registration[r] \/ registration'[r] = NoRequest
  BY DEF Restart
<1>7. /\ registration' \in [Registrations ->
           [at : RegistrationStages, wallet : Wallets, name : Emails \cup {NoName}]]
      /\ connect' \in [Connects -> [at : ConnectStages, wallet : Wallets, name : {NoName}]]
  BY NoRequestTyped DEF Restart, TypeOK, RegistrationStages, ConnectStages
<1>8. TypeOK'
  BY <1>2, <1>5, <1>7 DEF TypeOK, EntityTypeOK
<1>9. NonceInv' /\ TokenInv'
  BY <1>1, <1>2 DEF NonceInv, TokenInv
<1>10. ASSUME NEW r \in Registrations PROVE HasBehind(r)'
  <2>1. CASE registration'[r] = registration[r]
    BY <2>1, <1>2, HasBehindKept DEF RegistrationInv, TypeOK
  <2>2. CASE registration'[r] = NoRequest
    BY <2>2 DEF HasBehind, NoRequest
  <2> QED BY <1>6, <2>1, <2>2
<1> QED BY <1>8, <1>9, <1>10 DEF RegistrationInv

LEMMA AuthInvNext == AuthInv /\ [Next]_vars => AuthInv'
<1> SUFFICES ASSUME AuthInv, [Next]_vars PROVE AuthInv'
  OBVIOUS
<1>1. CASE DashboardChallenge
  BY <1>1, ChallengeStep, AuthAssumption DEF DashboardChallenge
<1>2. ASSUME NEW n \in Nonces, NEW signed \in BOOLEAN, DashboardVerify(n, signed) PROVE AuthInv'
  BY <1>2, DashboardVerifyStep
<1>3. ASSUME NEW w \in Wallets, RegistrationChallenge(w) PROVE AuthInv'
  BY <1>3, ChallengeStep DEF RegistrationChallenge
<1>4. ASSUME NEW w \in Clients, StellarChallenge(w) PROVE AuthInv'
  <2>1. /\ UNCHANGED <<clock, pending, drawn, uses, signedInAt, token, entities, accounts,
                       walletUsers, registration, connect>>
        /\ envelope' = [envelope EXCEPT ![w] = clock + ChallengeTtl]
    BY <1>4 DEF StellarChallenge, nonceVars, rowVars
  <2>2. TypeOK'
    BY <2>1, AuthAssumption DEF AuthInv, TypeOK, NonceTypeOK, EntityTypeOK
  <2>3. NonceInv' /\ TokenInv' /\ RegistrationInv'
    BY <2>1 DEF AuthInv, NonceInv, TokenInv, RegistrationInv, HasBehind, Exists, Approved
  <2> QED BY <2>2, <2>3 DEF AuthInv
<1>5. ASSUME NEW r \in Registrations, NEW w \in Clients, NEW n \in Nonces, NEW name \in Emails,
             Post(r, w, n, name)
      PROVE  AuthInv'
  BY <1>5, PostStep
<1>6. ASSUME NEW r \in Registrations, Register(r) PROVE AuthInv'
  BY <1>6, RegisterStep
<1>7. ASSUME NEW c \in Connects, NEW w \in Clients, StellarVerify(c, w) PROVE AuthInv'
  BY <1>7, StellarStep, AuthAssumption
<1>8. ASSUME NEW c \in Connects, StellarRecord(c) \/ StellarMint(c) PROVE AuthInv'
  BY <1>8, StellarStep, AuthAssumption
<1>9. CASE Tick
  BY <1>9, TickStep
<1>10. CASE Restart
  BY <1>10, RestartStep
<1>11. CASE UNCHANGED vars
  BY <1>11 DEF vars, AuthInv, TypeOK, NonceTypeOK, EntityTypeOK, NonceInv, TokenInv,
    RegistrationInv, HasBehind, Exists, Approved
<1> QED BY <1>1, <1>2, <1>3, <1>4, <1>5, <1>6, <1>7, <1>8, <1>9, <1>10, <1>11 DEF Next
-----------------------------------------------------------------------------
(* Theorems *)

\* What every reachable state satisfies: the conjuncts are described in WalletAuth.
THEOREM AuthInvariant == Spec => []AuthInv
BY AuthInvInit, AuthInvNext, PTL DEF Spec

\* Every variable keeps its type, and the store of nonces its limit, whatever
\* the number of challenges that are asked for (sep43.rs:46-55).
THEOREM TypeCorrect == Spec => []TypeOK
<1>1. AuthInv => TypeOK
  BY DEF AuthInv
<1> QED BY <1>1, AuthInvariant, PTL

\* A registration that was answered left an approved entity, an account and a
\* wallet user, for every number of requests and of failures between their
\* statements (entities.rs:86-130).
THEOREM RegistrationComplete == Spec => []RegisteredIsComplete
<1>1. AuthInv => RegisteredIsComplete
  BY DEF AuthInv, RegistrationInv, HasBehind, RegisteredIsComplete
<1> QED BY <1>1, AuthInvariant, PTL

\* The operator's routes serve only the operator's wallet, and only within the
\* lifetime of a session after a sign-in at the dashboard
\* (middleware_auth.rs:1-5), for every lifetime and leeway.
THEOREM OperatorOnlySignedIn == Spec => []OperatorSignedIn
<1>1. ASSUME AuthInv, NEW w \in Wallets, Admits("OPERATOR", w)
      PROVE  w = Operator /\ signedInAt >= 0 /\ clock <= signedInAt + SessionTtl + Leeway
  <2>1. token["OPERATOR"][w] >= 0 /\ token["OPERATOR"][w] >= clock - Leeway
    BY <1>1 DEF Admits, IsValid
  <2>2. w = Operator /\ signedInAt >= 0 /\ token["OPERATOR"][w] = signedInAt + SessionTtl
    BY <1>1, <2>1 DEF AuthInv, TokenInv
  <2>3. clock \in Int /\ signedInAt \in Int
    BY <1>1, AuthAssumption DEF AuthInv, TypeOK
  <2> QED BY <2>1, <2>2, <2>3, AuthAssumption
<1>2. AuthInv => OperatorSignedIn
  BY <1>1 DEF OperatorSignedIn
<1> QED BY <1>2, AuthInvariant, PTL

\* A step that presents no nonce counts none as used.
LEMMA OnlyConsumeUses ==
  ASSUME [Next]_vars,
         ~ \E n \in Nonces, signed \in BOOLEAN : DashboardVerify(n, signed),
         ~ \E r \in Registrations, w \in Clients, n \in Nonces, name \in Emails :
             Post(r, w, n, name)
  PROVE  UNCHANGED uses
BY DEF Next, vars, nonceVars, DashboardChallenge, RegistrationChallenge, Issue, StellarChallenge,
  Register, StellarVerify, StellarRecord, StellarMint, Tick, Restart

\* Every step that presents a nonce presents it for some wallet.
LEMMA PresentsForWallet ==
  ASSUME NEW n \in Nonces,
         \/ \E signed \in BOOLEAN : DashboardVerify(n, signed)
         \/ \E r \in Registrations, w \in Clients, name \in Emails : Post(r, w, n, name)
  PROVE  \E key \in Wallets : Consume(n, key)
BY AuthAssumption DEF DashboardVerify, Post

\* A nonce is accepted once, from the wallet it was issued to and within its
\* lifetime (sep43.rs:67-76), for every number of requests that present it.
THEOREM NonceAcceptedOnce == Spec => NonceUsedOnce
<1> DEFINE Fresh(n) == uses'[n] # uses[n] =>
       /\ uses[n] = <<>>
       /\ pending[n] # NotStored /\ uses'[n] = <<pending[n].key>>
       /\ clock < pending[n].at + ChallengeTtl
<1>1. ASSUME AuthInv, NEW n \in Nonces, NEW key \in Wallets, Consume(n, key), NEW k \in Nonces
      PROVE  Fresh(k)
  <2> SUFFICES ASSUME uses'[k] # uses[k] PROVE Fresh(k)
    OBVIOUS
  <2>1. Alive(k) /\ uses[k] = <<>> /\ uses'[k] = <<pending[k].key>>
    BY <1>1, ConsumeStores DEF AuthInv
  <2>2. pending[k].at \in Int /\ clock \in Int
    BY <1>1, AuthAssumption DEF AuthInv, TypeOK, NonceTypeOK
  <2> QED BY <2>1, <2>2, AuthAssumption DEF Alive
<1>2. AuthInv /\ [Next]_vars => [\A n \in Nonces : Fresh(n)]_vars
  <2> SUFFICES ASSUME AuthInv, [Next]_vars, NEW k \in Nonces PROVE Fresh(k)
    OBVIOUS
  <2>1. CASE \E n \in Nonces, signed \in BOOLEAN : DashboardVerify(n, signed)
    BY <2>1, <1>1, PresentsForWallet
  <2>2. CASE \E r \in Registrations, w \in Clients, n \in Nonces, name \in Emails :
               Post(r, w, n, name)
    BY <2>2, <1>1, PresentsForWallet
  <2> QED BY <2>1, <2>2, OnlyConsumeUses
<1> QED BY <1>2, AuthInvariant, PTL DEF Spec, NonceUsedOnce

\* An approved entity stays approved, whatever sign-ins and registrations
\* overlap (auth_stellar.rs:101-104).
THEOREM ApprovedForever == Spec => ApprovedStays
<1>1. AuthInv /\ [Next]_vars => EntityWrite \/ UNCHANGED entities
  <2> SUFFICES ASSUME AuthInv, [Next]_vars PROVE EntityWrite \/ UNCHANGED entities
    OBVIOUS
  <2>1. ASSUME NEW r \in Registrations, Register(r) PROVE EntityWrite \/ UNCHANGED entities
    BY <2>1, RegisterMoves
  <2>2. ASSUME NEW c \in Connects, StellarRecord(c) PROVE EntityWrite \/ UNCHANGED entities
    BY <2>2 DEF StellarRecord, EntityWrite, AuthInv, TypeOK
  <2> QED BY <2>1, <2>2 DEF Next, vars, rowVars, DashboardChallenge, RegistrationChallenge,
        DashboardVerify, StellarChallenge, Post, StellarVerify, StellarMint, Tick, Restart
<1>2. AuthInv /\ [Next]_vars => [\A w \in Wallets : Approved(w) => Approved(w)']_vars
  <2> SUFFICES ASSUME AuthInv, [Next]_vars, NEW w \in Wallets, Approved(w) PROVE Approved(w)'
    OBVIOUS
  <2> QED BY <1>1, EntityWriteKeeps DEF AuthInv, TypeOK, Approved
<1> QED BY <1>2, AuthInvariant, PTL DEF Spec, ApprovedStays

\* A live nonce that a new one takes the place of is among the oldest of a full store.
LEMMA IssueEvictsOldest ==
  ASSUME TypeOK, NonceInv, NEW key \in Wallets, Issue(key),
         NEW n \in Nonces, Alive(n), pending'[n] = NotStored
  PROVE  /\ Cardinality({m \in Nonces : Alive(m)}) = MaxPending
         /\ \A m \in Nonces : Alive(m) => pending[n].at <= pending[m].at
<1>1. n \in drawn /\ Collected[n] = pending[n] /\ pending[n] # NotStored
  BY DEF NonceInv, Alive, Collected
<1>2. PICK k \in Nonces \ drawn :
        \E store \in IF Evictable(Collected) = {} THEN {Collected}
                     ELSE {[Collected EXCEPT ![m] = NotStored] : m \in Evictable(Collected)} :
          pending' = [store EXCEPT ![k] = [key |-> key, at |-> clock]]
  BY DEF Issue
<1>3. PICK store :
        /\ store \in IF Evictable(Collected) = {} THEN {Collected}
                     ELSE {[Collected EXCEPT ![m] = NotStored] : m \in Evictable(Collected)}
        /\ pending' = [store EXCEPT ![k] = [key |-> key, at |-> clock]]
  BY <1>2
<1>4. Evictable(Collected) # {}
  <2> SUFFICES ASSUME Evictable(Collected) = {} PROVE FALSE
    OBVIOUS
  <2>1. store = Collected
    BY <1>3
  <2> QED BY <2>1, <1>1, <1>2, <1>3, CollectedStore DEF Stores
<1>5. PICK m \in Evictable(Collected) : store = [Collected EXCEPT ![m] = NotStored]
  BY <1>3, <1>4
<1>6. n = m
  BY <1>1, <1>2, <1>3, <1>5, CollectedStore DEF Stores
<1>7. n \in OldestOf(Collected) /\ Cardinality(Held(Collected)) >= MaxPending
  <2>1. Evictable(Collected) = IF Cardinality(Held(Collected)) >= MaxPending
                                 THEN OldestOf(Collected) ELSE {}
    BY DEF Evictable
  <2> QED BY <2>1, <1>4, <1>5, <1>6
<1>8. Cardinality(Held(Collected)) = MaxPending
  <2>1. Cardinality(Held(pending)) <= MaxPending /\ MaxPending \in Nat
    BY AuthAssumption DEF TypeOK, NonceTypeOK
  <2> QED BY <2>1, <1>7, CollectedStore
<1>9. ASSUME NEW j \in Nonces, Alive(j) PROVE pending[n].at <= pending[j].at
  <2>1. j \in Held(Collected) /\ Collected[j] = pending[j]
    <3>1. Collected[j] = pending[j]
      BY <1>9 DEF Collected
    <3> QED BY <3>1, <1>9, CollectedStore
  <2>2. pending[j].at \in Int /\ pending[n].at \in Int
    <3>1. pending \in [Nonces -> [key : Wallets, at : -1..MaxClock]]
      BY DEF TypeOK, NonceTypeOK
    <3> QED BY ONLY <3>1, n \in Nonces, j \in Nonces, AuthAssumption
  <2>3. Collected[j].at >= Collected[n].at
    BY <1>7, <2>1 DEF OldestOf
  <2> QED BY <1>1, <2>1, <2>2, <2>3
<1> QED BY <1>8, <1>9, CollectedStore

\* A nonce that has not expired is lost only with the process, to a request that
\* presents it, or as one of the oldest of a full store (sep43.rs:46-55), for
\* every capacity of the store and every lifetime of a challenge.
THEOREM LiveNonceLost == Spec => LiveNonceKept
<1> DEFINE Excused(n) ==
       \/ pending' = [m \in Nonces |-> NotStored]
       \/ drawn' = drawn /\ \A m \in Nonces \ {n} : Alive(m) => pending'[m] = pending[m]
       \/ /\ Cardinality({m \in Nonces : Alive(m)}) = MaxPending
          /\ \A m \in Nonces : Alive(m) => pending[n].at <= pending[m].at
<1>1. ASSUME AuthInv, [Next]_vars, NEW n \in Nonces, Alive(n), pending'[n] = NotStored
      PROVE  Excused(n)
  <2>1. ASSUME NEW key \in Wallets, Issue(key) PROVE Excused(n)
    BY <1>1, <2>1, IssueEvictsOldest DEF AuthInv
  <2>2. ASSUME NEW k \in Nonces, NEW key \in Wallets, Consume(k, key) PROVE Excused(n)
    <3>1. UNCHANGED drawn /\ \A m \in Nonces : Alive(m) /\ m # k => pending'[m] = pending[m]
      BY <1>1, <2>2, ConsumeStores DEF AuthInv
    <3>2. n = k
      BY <1>1, <3>1 DEF Alive
    <3> QED BY <3>1, <3>2
  <2>3. CASE Restart
    BY <2>3 DEF Restart
  <2>4. CASE UNCHANGED pending
    BY <1>1, <2>4 DEF Alive
  <2>5. CASE DashboardChallenge \/ \E w \in Wallets : RegistrationChallenge(w)
    BY <2>1, <2>5, AuthAssumption DEF DashboardChallenge, RegistrationChallenge
  <2>6. CASE \/ \E k \in Nonces, signed \in BOOLEAN : DashboardVerify(k, signed)
             \/ \E r \in Registrations, w \in Clients, k \in Nonces, name \in Emails :
                  Post(r, w, k, name)
    BY <2>2, <2>6, PresentsForWallet
  <2> QED BY <1>1, <2>3, <2>4, <2>5, <2>6 DEF Next, vars, nonceVars, StellarChallenge, Register,
        StellarVerify, StellarRecord, StellarMint, Tick
<1>2. AuthInv /\ [Next]_vars =>
        [\A n \in Nonces : Alive(n) /\ pending'[n] = NotStored => Excused(n)]_vars
  BY <1>1
<1> QED BY <1>2, AuthInvariant, PTL DEF Spec, LiveNonceKept
===============================================================================
