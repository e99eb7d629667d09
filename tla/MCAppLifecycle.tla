--------------------------- MODULE MCAppLifecycle ---------------------------
(***************************************************************************)
(* Instances of AppLifecycle for TLC.  Two signals and two waiting frames  *)
(* are enough for a signal to come before, during and after the first one  *)
(* is handled, and for the reader to find work each time it looks.         *)
(***************************************************************************)
EXTENDS AppLifecycle

TwoSignals == 2
TwoFrames  == 2
=============================================================================
