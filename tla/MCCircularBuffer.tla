-------------------------- MODULE MCCircularBuffer --------------------------
(***************************************************************************)
(* A buffer of three elements in a ring of four slots, so that the         *)
(* capacity and not the ring refuses, with indices that wrap at eight.     *)
(***************************************************************************)
EXTENDS CircularBuffer
=============================================================================
