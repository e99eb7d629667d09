--------------------- MODULE MCBlockingConcurrentQueue ---------------------
(***************************************************************************)
(* Two producers and two consumers, single operations and bulk operations  *)
(* of two.                                                                 *)
(***************************************************************************)
EXTENDS BlockingConcurrentQueue
=============================================================================
