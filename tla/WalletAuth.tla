------------------------------ MODULE WalletAuth ------------------------------
(***************************************************************************)
(* Sign-in and registration of wallets: the nonces of SEP-43 (core/src/    *)
(* auth/sep43.rs), which the dashboard sign-in and the registration of an  *)
(* entity share, the SEP-10 envelopes (sep10.rs), the tokens both end in   *)
(* (jwt.rs), and the extractor that admits requests by them                *)
(* (api/src/middleware_auth.rs).                                           *)
(*                                                                         *)
(* Nonces live in memory and are lost with the process; envelopes and      *)
(* tokens are held by the wallets and answer for themselves.  Of several   *)
(* envelopes or tokens of one wallet the last outlives the others, so only *)
(* that one is kept.  Time passes in units.                                *)
(***************************************************************************)
EXTENDS EntityTable, Integers, Sequences, FiniteSets

CONSTANTS
  Operator,        \* OPERATOR_PUBLIC_KEY
  Clients,         \* the wallets that register and connect; any asks for nonces
  Nonces,          \* the random nonces there are to draw
  Registrations,   \* requests to POST /provider/entities
  Connects,        \* requests to POST /stellar/auth
  MaxPending,      \* MAX_PENDING_NONCES
  ChallengeTtl, SessionTtl,
  Leeway,          \* of the token library when it compares exp
  MaxClock         \* bound of the exploration

ASSUME AuthAssumption ==
  /\ Operator \in Wallets /\ Clients \subseteq Wallets
  /\ MaxPending \in Nat \ {0}
  /\ ChallengeTtl \in Nat /\ SessionTtl \in Nat /\ Leeway \in Nat /\ MaxClock \in Nat

VARIABLES
  clock,
  pending,      \* NonceStore.inner: what is stored for a nonce, or NotStored
  drawn,        \* nonces that were issued
  uses,         \* history: the wallets a nonce was accepted from
  signedInAt,   \* history: last sign-in at the dashboard
  envelope,     \* max_time of the wallet's last SEP-10 envelope, -1 if none
  token,        \* exp of the wallet's last token of a kind, -1 if none
  accounts,     \* USER rows of accounts for an entity
  walletUsers,  \* rows of wallet_users
  registration, \* a request: where it is, and the body
  connect       \* a request: where it is, and the wallet

vars == <<clock, pending, drawn, uses, signedInAt, envelope, token, accounts, walletUsers,
          registration, connect, entities>>
nonceVars == <<pending, drawn, uses>>
rowVars   == <<entities, accounts, walletUsers>>
signIns   == <<signedInAt, envelope, token>>

Kinds     == {"OPERATOR", "ENTITY"}
NotStored == [key |-> Operator, at |-> -1]
NoRequest == [at |-> "IDLE", wallet |-> Operator, name |-> NoName]

-----------------------------------------------------------------------------
(* NonceStore *)

Held(store) == {n \in Nonces : store[n] # NotStored}

Alive(n) == pending[n] # NotStored /\ clock - pending[n].at < ChallengeTtl

\* gc
Collected == [n \in Nonces |-> IF Alive(n) THEN pending[n] ELSE NotStored]

\* Mutant: the comparison is the wrong way round.
NewestOf(store) == {n \in Held(store) : \A m \in Held(store) : store[m].at <= store[n].at}

\* Equally old entries are told apart by the order of the map, that is not at all.
OldestOf(store) == {n \in Held(store) : \A m \in Held(store) : store[m].at >= store[n].at}

\* The entry that gives way to a new one.
Evictable(store) == IF Cardinality(Held(store)) >= MaxPending THEN OldestOf(store) ELSE {}

\* issue
Issue(key) ==
  \E n \in Nonces \ drawn :
    /\ drawn' = drawn \cup {n}
    /\ \E store \in IF Evictable(Collected) = {} THEN {Collected}
                    ELSE {[Collected EXCEPT ![m] = NotStored] : m \in Evictable(Collected)} :
         pending' = [store EXCEPT ![n] = [key |-> key, at |-> clock]]
    /\ UNCHANGED uses

\* Mutant: the entry is looked up and stays.
Keep(n) == pending' = Collected

Remove(n) == pending' = [Collected EXCEPT ![n] = NotStored]

\* consume: the entry is gone even where the key is another's.
IsConsumed(n, key) == Alive(n) /\ pending[n].key = key
Consume(n, key) ==
  /\ Remove(n)
  /\ uses' = IF IsConsumed(n, key) THEN [uses EXCEPT ![n] = Append(@, key)] ELSE uses
  /\ UNCHANGED drawn

-----------------------------------------------------------------------------
(* Tokens *)

\* mint_token
Mint(kind, w) == token' = [token EXCEPT ![kind][w] = clock + SessionTtl]

IsValid(kind, w) == token[kind][w] >= 0 /\ token[kind][w] >= clock - Leeway

\* Mutant: any valid token will do.
AdmitsAnyKind(kind, w) ==
  /\ \E k \in Kinds : IsValid(k, w)
  /\ kind = "OPERATOR" => w = Operator

\* extract: a route of this kind serves the wallet.
Admits(kind, w) == IsValid(kind, w) /\ (kind = "OPERATOR" => w = Operator)

-----------------------------------------------------------------------------
(* Dashboard sign-in (auth_dashboard.rs): no await in either handler *)

DashboardChallenge ==
  /\ Issue(Operator)
  /\ UNCHANGED <<clock, signIns, rowVars, registration, connect>>

\* The nonce is consumed before the signature is looked at.
DashboardVerify(n, signed) ==
  /\ n \in drawn
  /\ Consume(n, Operator)
  /\ IF IsConsumed(n, Operator) /\ signed
       THEN Mint("OPERATOR", Operator) /\ signedInAt' = clock
       ELSE UNCHANGED <<token, signedInAt>>
  /\ UNCHANGED <<clock, envelope, rowVars, registration, connect>>

-----------------------------------------------------------------------------
(* Registration (entities.rs) *)

RegistrationChallenge(w) ==
  /\ Issue(w)
  /\ UNCHANGED <<clock, signIns, rowVars, registration, connect>>

\* A refused request leaves no trace, and its wallet may post another.
Moves(r, stage) ==
  registration' = [registration EXCEPT ![r] =
    IF stage = "REFUSED" THEN NoRequest ELSE [@ EXCEPT !.at = stage]]

\* A body with a good signature; one with a bad signature changes nothing.
Post(r, w, n, name) ==
  /\ registration[r].at = "IDLE" /\ n \in drawn
  /\ Consume(n, w)
  /\ registration' = IF IsConsumed(n, w)
       THEN [registration EXCEPT ![r] = [at |-> "FIND", wallet |-> w, name |-> name]]
       ELSE registration
  /\ UNCHANGED <<clock, signIns, rowVars, connect>>

\* Mutant: an approved entity is answered at once.
AfterFindDone(w) == IF Approved(w) THEN "DONE" ELSE IF Exists(w) THEN "APPROVE" ELSE "CREATE"

AfterFind(w) == IF Approved(w) THEN "ACCOUNTS" ELSE IF Exists(w) THEN "APPROVE" ELSE "CREATE"

Find(r) ==
  /\ registration[r].at = "FIND"
  /\ Moves(r, AfterFind(registration[r].wallet))
  /\ UNCHANGED rowVars

\* approve_with_identity; the row is read back for its id.
Approve(r) ==
  /\ registration[r].at = "APPROVE"
  /\ ApproveWithIdentity(registration[r].wallet, registration[r].name)
  /\ Moves(r, "ACCOUNTS")
  /\ UNCHANGED <<accounts, walletUsers>>

\* The insert meets the primary key when another request was first.
Create(r) ==
  /\ registration[r].at = "CREATE"
  /\ \/ /\ CreateEntity(registration[r].wallet, registration[r].name)
        /\ Moves(r, "ACCOUNTS")
     \/ /\ Exists(registration[r].wallet)
        /\ Moves(r, "REFUSED")
        /\ UNCHANGED entities
  /\ UNCHANGED <<accounts, walletUsers>>

ListAccounts(r) ==
  /\ registration[r].at = "ACCOUNTS"
  /\ Moves(r, IF accounts[registration[r].wallet] = 0 THEN "NEW_ACCOUNT" ELSE "WALLET_USER")
  /\ UNCHANGED rowVars

NewAccount(r) ==
  /\ registration[r].at = "NEW_ACCOUNT"
  /\ accounts' = [accounts EXCEPT ![registration[r].wallet] = @ + 1]
  /\ Moves(r, "WALLET_USER")
  /\ UNCHANGED <<entities, walletUsers>>

\* find_or_create
FindWalletUser(r) ==
  /\ registration[r].at = "WALLET_USER"
  /\ walletUsers' = walletUsers \cup {registration[r].wallet}
  /\ Moves(r, "DONE")
  /\ UNCHANGED <<entities, accounts>>

\* A query fails, and the request with it: what was written stays.
RegistrationFails(r) ==
  /\ registration[r].at \notin {"IDLE", "DONE"}
  /\ Moves(r, "REFUSED")
  /\ UNCHANGED rowVars

Register(r) ==
  /\ \/ Find(r) \/ Approve(r) \/ Create(r) \/ ListAccounts(r) \/ NewAccount(r)
     \/ FindWalletUser(r) \/ RegistrationFails(r)
  /\ UNCHANGED <<clock, nonceVars, signIns, connect>>

-----------------------------------------------------------------------------
(* SEP-10 (sep10.rs, auth_stellar.rs): nothing is stored of a challenge *)

\* build_challenge, with time bounds [now, now + ttl]; the wallet signs it.
StellarChallenge(w) ==
  /\ envelope' = [envelope EXCEPT ![w] = clock + ChallengeTtl]
  /\ UNCHANGED <<clock, nonceVars, signedInAt, token, rowVars, registration, connect>>

\* verify_signed_envelope; an envelope serves as often as it is posted.
StellarVerify(c, w) ==
  /\ connect[c].at = "IDLE"
  /\ envelope[w] >= clock
  /\ connect' = [connect EXCEPT ![c] = [NoRequest EXCEPT !.at = "RECORD", !.wallet = w]]
  /\ UNCHANGED <<clock, nonceVars, signIns, rowVars, registration>>

\* Best effort: the sign-in goes on where the row could not be written.
StellarRecord(c) ==
  /\ connect[c].at = "RECORD"
  /\ RecordInteraction(connect[c].wallet) \/ UNCHANGED entities
  /\ connect' = [connect EXCEPT ![c].at = "MINT"]
  /\ UNCHANGED <<clock, nonceVars, signIns, accounts, walletUsers, registration>>

StellarMint(c) ==
  /\ connect[c].at = "MINT"
  /\ Mint("ENTITY", connect[c].wallet)
  /\ connect' = [connect EXCEPT ![c] = NoRequest]
  /\ UNCHANGED <<clock, nonceVars, signedInAt, envelope, rowVars, registration>>

-----------------------------------------------------------------------------
Tick ==
  /\ clock < MaxClock
  /\ clock' = clock + 1
  /\ UNCHANGED <<nonceVars, signIns, rowVars, registration, connect>>

\* The process stops and starts again; rows, envelopes and tokens outlive it.
Restart ==
  /\ pending' = [n \in Nonces |-> NotStored]
  /\ registration' = [r \in Registrations |->
       IF registration[r].at = "DONE" THEN registration[r] ELSE NoRequest]
  /\ connect' = [c \in Connects |-> NoRequest]
  /\ UNCHANGED <<clock, drawn, uses, signIns, rowVars>>

Init ==
  /\ EntityInit
  /\ clock = 0
  /\ pending = [n \in Nonces |-> NotStored] /\ drawn = {} /\ uses = [n \in Nonces |-> <<>>]
  /\ signedInAt = -1
  /\ envelope = [w \in Wallets |-> -1]
  /\ token = [kind \in Kinds |-> [w \in Wallets |-> -1]]
  /\ accounts = [w \in Wallets |-> 0] /\ walletUsers = {}
  /\ registration = [r \in Registrations |-> NoRequest]
  /\ connect = [c \in Connects |-> NoRequest]

Next ==
  \/ DashboardChallenge
  \/ \E n \in Nonces, signed \in BOOLEAN : DashboardVerify(n, signed)
  \/ \E w \in Wallets : RegistrationChallenge(w)
  \/ \E w \in Clients : StellarChallenge(w)
  \/ \E r \in Registrations, w \in Clients, n \in Nonces, name \in Emails : Post(r, w, n, name)
  \/ \E r \in Registrations : Register(r)
  \/ \E c \in Connects :
       (\E w \in Clients : StellarVerify(c, w)) \/ StellarRecord(c) \/ StellarMint(c)
  \/ Tick
  \/ Restart

Spec == Init /\ [][Next]_vars

-----------------------------------------------------------------------------
(* Properties *)

RegistrationStages ==
  {"IDLE", "FIND", "APPROVE", "CREATE", "ACCOUNTS", "NEW_ACCOUNT", "WALLET_USER", "DONE"}
ConnectStages == {"IDLE", "RECORD", "MINT"}

\* The store holds at most MAX_PENDING_NONCES.
NonceTypeOK ==
  /\ pending \in [Nonces -> [key : Wallets, at : -1..MaxClock]]
  /\ IsFiniteSet(Held(pending)) /\ Cardinality(Held(pending)) <= MaxPending
  /\ drawn \subseteq Nonces /\ uses \in [Nonces -> Seq(Wallets)]

\* Every variable has its type.
TypeOK ==
  /\ EntityTypeOK
  /\ NonceTypeOK
  /\ clock \in 0..MaxClock
  /\ signedInAt \in -1..MaxClock
  /\ envelope \in [Wallets -> -1..MaxClock + ChallengeTtl]
  /\ token \in [Kinds -> [Wallets -> -1..MaxClock + SessionTtl]]
  /\ accounts \in [Wallets -> Nat] /\ walletUsers \subseteq Wallets
  /\ registration \in [Registrations ->
       [at : RegistrationStages, wallet : Wallets, name : Emails \cup {NoName}]]
  /\ connect \in [Connects -> [at : ConnectStages, wallet : Wallets, name : {NoName}]]

\* A nonce is accepted once, by the dashboard or by registration, from the
\* wallet it was issued to and within its lifetime (sep43.rs:67-76), across
\* restarts, evictions and requests that present it at the same time.
NonceUsedOnce ==
  [][\A n \in Nonces : uses'[n] # uses[n] =>
       /\ uses[n] = <<>>
       /\ pending[n] # NotStored /\ uses'[n] = <<pending[n].key>>
       /\ clock < pending[n].at + ChallengeTtl]_vars

\* A nonce that has not expired is lost only with the process, to a request that
\* presents it, or to a new one when the store is full, and then none older is
\* left (sep43.rs:46-55).
LiveNonceKept ==
  [][\A n \in Nonces : Alive(n) /\ pending'[n] = NotStored =>
       \/ pending' = [m \in Nonces |-> NotStored]
       \/ drawn' = drawn /\ \A m \in Nonces \ {n} : Alive(m) => pending'[m] = pending[m]
       \/ /\ Cardinality({m \in Nonces : Alive(m)}) = MaxPending
          /\ \A m \in Nonces : Alive(m) => pending[n].at <= pending[m].at]_vars

\* An approved entity stays approved, whatever sign-ins and registrations
\* overlap: record_interaction never downgrades it (auth_stellar.rs:101-104).
ApprovedStays ==
  [][\A w \in Wallets : Approved(w) => Approved(w)']_vars

\* A registration that was answered left an approved entity, an account and a
\* wallet user, although earlier ones failed between the statements
\* (entities.rs:86-130).
RegisteredIsComplete ==
  \A r \in Registrations : registration[r].at = "DONE" =>
    LET w == registration[r].wallet IN
    Approved(w) /\ accounts[w] >= 1 /\ w \in walletUsers

\* The operator's routes serve nobody without a nonce signed by the operator's
\* wallet within the lifetime of a session: neither another wallet, nor the
\* operator's own by a token of the other sign-in (middleware_auth.rs:1-5).
OperatorSignedIn ==
  \A w \in Wallets : Admits("OPERATOR", w) =>
    w = Operator /\ signedInAt >= 0 /\ clock <= signedInAt + SessionTtl + Leeway

-----------------------------------------------------------------------------
(* The inductive invariant behind the properties *)

\* What is stored was drawn no later than now, and nobody has used it.
NonceInv == \A n \in Nonces :
  /\ n \notin drawn => pending[n] = NotStored /\ uses[n] = <<>>
  /\ pending[n] # NotStored => pending[n].at \in 0..clock /\ uses[n] = <<>>

\* The operator's token is that of the last sign-in.
TokenInv == \A w \in Wallets : token["OPERATOR"][w] >= 0 =>
  w = Operator /\ signedInAt >= 0 /\ token["OPERATOR"][w] = signedInAt + SessionTtl

\* What a registration has behind it is still there, whatever the others did.
HasBehind(r) ==
  LET w == registration[r].wallet
      stage == registration[r].at
  IN  /\ stage = "APPROVE" => Exists(w)
      /\ stage \in {"ACCOUNTS", "NEW_ACCOUNT", "WALLET_USER", "DONE"} => Approved(w)
      /\ stage \in {"WALLET_USER", "DONE"} => accounts[w] >= 1
      /\ stage = "DONE" => w \in walletUsers

RegistrationInv == \A r \in Registrations : HasBehind(r)

AuthInv == TypeOK /\ NonceInv /\ TokenInv /\ RegistrationInv
=============================================================================
