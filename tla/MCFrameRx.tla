----------------------------- MODULE MCFrameRx ------------------------------
(***************************************************************************)
(* An instance of FrameRx for TLC.  The lengths end a frame before, at and *)
(* after every length the code compares with, and inside the fields it     *)
(* does not; the payload lengths are those around the two it compares.     *)
(***************************************************************************)
EXTENDS FrameRx

CONSTANTS t1, t2

SomeLengths == {13, 14, 53, 54, 55, 56, 61, 62, 71, 72}
SomePlens   == {5, 17, 18}
TwoStamps   == {t1, t2}
=============================================================================
