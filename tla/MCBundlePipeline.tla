-------------------------- MODULE MCBundlePipeline --------------------------
(***************************************************************************)
(* Instances of BundlePipeline for TLC: the sets of faults the runs allow. *)
(***************************************************************************)
EXTENDS BundlePipeline

DbFault      == {"db", "crash", "earlyLedger"}
NetworkFault == {"rpc", "lostReply", "dropped", "summary"}
NoFault      == {}
Early        == {"earlyLedger"}
=============================================================================
