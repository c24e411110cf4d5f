-------------------------- MODULE MCBundleSubmission --------------------------
(* Instances of BundleSubmission for TLC: what wallets post, and the UTXOs   *)
(* there are.  Keys 1..4 are clients', 5 and 6 are held for the two emails.  *)
EXTENDS BundleSubmission

CONSTANTS w1, e1, e2

Unsigned == [by |-> "NOBODY", exp |-> 0, nonce |-> 0]
Signed(exp, nonce) == [by |-> "OWNER", exp |-> exp, nonce |-> nonce]

Op(kind, who, amount, sig) ==
  [frame |-> "READ", shape |-> "WELL", kind |-> kind, who |-> who, amount |-> amount,
   conditions |-> IF kind = "CREATE" THEN 0 ELSE 1, sig |-> sig]

Create(key, amount)     == Op("CREATE", key, amount, Unsigned)
Spend(key, sig)         == Op("SPEND", key, 0, sig)
Deposit(account, amount)  == Op("DEPOSIT", account, amount, Signed(2, 70 + account))
Withdraw(account, amount) == Op("WITHDRAW", account, amount, Unsigned)

Posted(ops) == [wallet |-> w1, channel |-> TRUE, ops |-> ops]

MCKeys      == 1..12
MCEndowment == [k \in MCKeys |-> CASE k = 1 -> 10 [] k = 2 -> 20 [] k = 3 -> 900
                                   [] k \in {5, 6} -> 40 [] OTHER -> -1]
MCHolding   == [e \in {e1, e2} |-> IF e = e1 THEN {5, 7} ELSE {6}]

\* Deposits of two accounts; a send that names its spends against the order of
\* their keys; a withdrawal; a held spend beside one of the client's own.
Deposits   == Posted(<<Deposit(2, 20), Create(10, 30), Deposit(1, 15)>>)
Send       == Posted(<<Spend(2, Signed(2, 0)), Spend(1, Signed(1, 0)), Create(11, 25)>>)
Withdrawal == Posted(<<Spend(1, Signed(2, 0)), Withdraw(2, 4)>>)
Held       == Posted(<<Spend(5, Unsigned), Spend(1, Signed(2, 0)), Create(12, 44)>>)

\* What the gates are there to refuse, or the executor to fail.
Overspent  == Posted(<<Spend(1, Signed(2, 0)), Create(11, 10)>>)
TooLarge   == Posted(<<Spend(3, Signed(2, 0)), Create(11, 25)>>)
Odd        == Posted(<<[Create(11, 5) EXCEPT !.shape = "ODD"], Deposit(1, 20)>>)
Noise      == Posted(<<[Create(11, 5) EXCEPT !.frame = "NOISE"]>>)
Broken     == Posted(<<[Deposit(1, 20) EXCEPT !.sig.by = "BROKEN"], Create(11, 5)>>)
NoChannel  == [Deposits EXCEPT !.channel = FALSE]
Careless   == Posted(<<[Spend(5, Unsigned) EXCEPT !.conditions = 0], Create(11, 5)>>)

GateArrivals ==
  <<{Deposits, Send, Withdrawal, Held, Overspent, TooLarge, Odd, Noise, Broken, NoChannel, Careless},
    {Held}>>

\* A deposit and a spend in one bundle.
Mixed == Posted(<<Deposit(1, 20), Spend(1, Signed(2, 0)), Create(10, 15)>>)
MixedArrivals == <<{Mixed}, {Deposits, Send}>>

\* The bodies meet the hypotheses of the theorems about them, except the mixed one.
ASSUME BodiesAreSound ==
  /\ \A r \in Requests : \A a \in GateArrivals[r] : Sound(a.ops)
  /\ ~Unmixed(Mixed.ops)
=============================================================================
