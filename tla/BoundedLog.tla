----------------------------- MODULE BoundedLog -----------------------------
(***************************************************************************)
(* What the UI's log buffer promises: it holds the newest lines, at most   *)
(* MaxLines of them, in the order they were logged.                        *)
(***************************************************************************)
EXTENDS Naturals, Sequences

CONSTANT MaxLines  \* lines kept

VARIABLES
  kept,   \* the lines in the buffer, oldest first
  count   \* lines logged so far: the n-th line logged is called n

boundedVars == <<kept, count>>

\* The newest k of a sequence, all of it when it has no more than k.
Newest(s, k) == IF Len(s) <= k THEN s ELSE SubSeq(s, Len(s) - k + 1, Len(s))

Init == kept = <<>> /\ count = 0

Add ==
  /\ count' = count + 1
  /\ kept' = Newest(Append(kept, count'), MaxLines)

Spec == Init /\ [][Add]_boundedVars
=============================================================================
