---------------------------- MODULE MCHeartbeat -----------------------------
(***************************************************************************)
(* An instance of Heartbeat for TLC.  A second is scaled from 100 periods  *)
(* to 3 and the lease stays ten seconds.  The loop may be held up for more *)
(* than two seconds, so that it has several to catch up with, and as many  *)
(* heartbeats in a row may be lost as the lease then allows: one more      *)
(* would not fit.                                                          *)
(***************************************************************************)
EXTENDS Heartbeat
=============================================================================
