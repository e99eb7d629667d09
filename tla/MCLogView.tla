----------------------------- MODULE MCLogView ------------------------------
(***************************************************************************)
(* An instance of LogView for TLC: the limits of the source scaled down    *)
(* (100 lines, 9 before, 8 ahead, span of 10) so that the buffer overflows *)
(* and moves by several lines while a frame is drawn.                      *)
(***************************************************************************)
EXTENDS LogView

CONSTANTS ui, reader

TwoThreads == {ui, reader}
=============================================================================
