----------------------------- MODULE MCEventFeed ------------------------------
(* A ring of two events and an outbox of two frames against four events; units *)
(* of fifteen seconds, so that the heartbeat comes every two and the idle      *)
(* timeout is four.                                                            *)
EXTENDS EventFeed
===============================================================================
