-------------------------- MODULE MCCouncilWatcher --------------------------
(***************************************************************************)
(* Instances of CouncilWatcher for TLC.                                    *)
(***************************************************************************)
EXTENDS CouncilWatcher, TLC

CONSTANTS c1, c2

OneCouncil  == {c1}
TwoCouncils == {c1, c2}

QueryFault    == {"rpc", "db", "council", "downtime", "outage", "oldHistory"}
AskedFault    == {"rpc", "downtime", "outage", "sync", "others", "rejoin"}
Downtime      == {"downtime"}
=============================================================================
