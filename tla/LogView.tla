------------------------------ MODULE LogView -------------------------------
(***************************************************************************)
(* The log of the user interface: FTXUISink appends formatted lines to     *)
(* log_buffer_ on whatever thread logs, under the sink's mutex, and the    *)
(* renderer draws lines of log_buffer_ on the UI thread, without it.       *)
(*                                                                         *)
(* A line is the number of its turn in the log.  One action is one access  *)
(* to log_buffer_: a push_back, an erase, a size() or an element read.     *)
(* log_index is a local of the constructor the renderer's lambda still     *)
(* refers to after the constructor returned, so every read of it gives     *)
(* some integer.  The sink's mutex is spdlog's base_sink.                  *)
(***************************************************************************)
EXTENDS Integers, Sequences

CONSTANTS
  MaxLines,  \* max_lines_
  Back,      \* lines drawn before the selected one (9)
  Ahead,     \* one past the lines drawn from the selected one on (8)
  Span,      \* lines drawn when nothing is selected (10)
  Writers,   \* the threads that log; Ui is one of them
  Ui,
  MaxCount   \* bound: lines ever logged

ASSUME LogConstants ==
  /\ MaxLines \in Nat \ {0} /\ MaxCount \in Nat
  /\ Back \in Nat /\ Ahead \in Nat /\ Span \in Nat
  /\ 2 <= Span /\ Span <= MaxLines
  /\ Ui \in Writers

VARIABLES
  log,       \* log_buffer_
  count,     \* lines logged so far
  sinkPc,    \* for each thread: "out", or in the sink before "push", "trim"
  viewPc,    \* where the renderer is
  from,      \* begin, and the position of the loop
  to,        \* end
  span,      \* span
  frame,     \* the lines drawn so far
  follow,    \* the renderer took the branch without a selected line
  asOf,      \* lines logged when the frame was begun
  overrun    \* an element past the end of the vector was read

sinkVars == <<log, count, sinkPc>>
viewVars == <<viewPc, from, to, span, frame, follow, asOf, overrun>>
vars == <<sinkVars, viewVars>>

ViewPcs == {"idle", "begin", "end", "span", "first", "last", "line", "drawn"}

\* Integers a read of log_index can give that the code tells apart.
IndexReadings == -(Ahead + 1) .. MaxLines + 1

MinOf(a, b) == IF a <= b THEN a ELSE b
MaxOf(a, b) == IF a >= b THEN a ELSE b

Init ==
  /\ log = <<>> /\ count = 0
  /\ sinkPc = [w \in Writers |-> "out"]
  /\ viewPc = "idle" /\ from = 0 /\ to = 0 /\ span = 0
  /\ frame = <<>> /\ follow = FALSE /\ asOf = 0 /\ overrun = FALSE

-----------------------------------------------------------------------------
(* Plausible mistakes in the code; part of no specification.               *)

\* The sink is instantiated with a mutex that does nothing.
EnterSink_NullMutex(w) ==
  /\ sinkPc[w] = "out" /\ count < MaxCount
  /\ w = Ui => viewPc = "idle"
  /\ sinkPc' = [sinkPc EXCEPT ![w] = "push"]
  /\ UNCHANGED <<log, count, viewVars>>

\* The sink erases the newest lines instead of the oldest.
Trim_KeepsOldest(w) ==
  /\ sinkPc[w] = "trim"
  /\ log' = IF Len(log) > MaxLines THEN SubSeq(log, 1, MaxLines) ELSE log
  /\ sinkPc' = [sinkPc EXCEPT ![w] = "out"]
  /\ UNCHANGED <<count, viewVars>>

\* The sink clears a full buffer.
Trim_Clears(w) ==
  /\ sinkPc[w] = "trim"
  /\ log' = IF Len(log) > MaxLines THEN <<>> ELSE log
  /\ sinkPc' = [sinkPc EXCEPT ![w] = "out"]
  /\ UNCHANGED <<count, viewVars>>

\* The window begins before the first line.
ViewBegin_NoMax ==
  /\ viewPc = "begin"
  /\ \E index \in IndexReadings : from' = index - Back
  /\ viewPc' = "end"
  /\ UNCHANGED <<sinkVars, to, span, frame, follow, asOf, overrun>>

\* The last line is left out.
ReadLast_OffByOne ==
  /\ viewPc = "last"
  /\ to' = Len(log) - 1
  /\ viewPc' = "line"
  /\ UNCHANGED <<sinkVars, from, span, frame, follow, asOf, overrun>>

\* The sink inserts at the front.
Push_Front(w) ==
  /\ sinkPc[w] = "push"
  /\ count' = count + 1
  /\ log' = <<count'>> \o log
  /\ sinkPc' = [sinkPc EXCEPT ![w] = "trim"]
  /\ UNCHANGED viewVars

-----------------------------------------------------------------------------
(* FTXUISink.                                                              *)

\* base_sink::log locks the mutex.  The UI thread logs from a menu entry's
\* handler, never while it draws.
EnterSink(w) ==
  /\ sinkPc[w] = "out" /\ count < MaxCount
  /\ \A v \in Writers : sinkPc[v] = "out"
  /\ w = Ui => viewPc = "idle"
  /\ sinkPc' = [sinkPc EXCEPT ![w] = "push"]
  /\ UNCHANGED <<log, count, viewVars>>

Push(w) ==
  /\ sinkPc[w] = "push"
  /\ count' = count + 1
  /\ log' = Append(log, count')
  /\ sinkPc' = [sinkPc EXCEPT ![w] = "trim"]
  /\ UNCHANGED viewVars

\* log_buffer_ once everything before end() - max_lines_ is erased.
Kept == IF Len(log) > MaxLines
          THEN SubSeq(log, Len(log) - MaxLines + 1, Len(log)) ELSE log

\* The oldest lines over the limit are erased and the mutex is released.
Trim(w) ==
  /\ sinkPc[w] = "trim"
  /\ log' = Kept
  /\ sinkPc' = [sinkPc EXCEPT ![w] = "out"]
  /\ UNCHANGED <<count, viewVars>>

-----------------------------------------------------------------------------
(* The renderer of log_menu.                                               *)

\* (size_t)log_index < log_buffer_.size(): a negative index is no line.
ViewTest ==
  /\ viewPc = "idle" /\ sinkPc[Ui] = "out"
  /\ \E index \in IndexReadings :
       follow' = ~(index >= 0 /\ index < Len(log))
  /\ viewPc' = IF follow' THEN "span" ELSE "begin"
  /\ asOf' = count
  /\ frame' = <<>> /\ overrun' = FALSE
  /\ UNCHANGED <<sinkVars, from, to, span>>

ViewBegin ==
  /\ viewPc = "begin"
  /\ \E index \in IndexReadings : from' = MaxOf(0, index - Back)
  /\ viewPc' = "end"
  /\ UNCHANGED <<sinkVars, to, span, frame, follow, asOf, overrun>>

\* min(size(), (unsigned long)log_index + 8): the sum wraps around, so a
\* small negative index still counts and a larger one is no limit.
ViewEnd ==
  /\ viewPc = "end"
  /\ \E index \in IndexReadings :
       to' = IF index + Ahead >= 0 THEN MinOf(Len(log), index + Ahead)
                                   ELSE Len(log)
  /\ viewPc' = "line"
  /\ UNCHANGED <<sinkVars, from, span, frame, follow, asOf, overrun>>

ViewSpan ==
  /\ viewPc = "span"
  /\ span' = MinOf(Span, Len(log))
  /\ viewPc' = "first"
  /\ UNCHANGED <<sinkVars, from, to, frame, follow, asOf, overrun>>

ReadFirst ==
  /\ viewPc = "first"
  /\ from' = Len(log) - span
  /\ viewPc' = "last"
  /\ UNCHANGED <<sinkVars, to, span, frame, follow, asOf, overrun>>

ReadLast ==
  /\ viewPc = "last"
  /\ to' = Len(log)
  /\ viewPc' = "line"
  /\ UNCHANGED <<sinkVars, from, span, frame, follow, asOf, overrun>>

\* log_buffer_[i] of the line loop; what lies past the end is no line.
ReadLine ==
  /\ viewPc = "line" /\ from < to
  /\ IF from < Len(log)
       THEN frame' = Append(frame, log[from + 1]) /\ UNCHANGED overrun
       ELSE overrun' = TRUE /\ UNCHANGED frame
  /\ from' = from + 1
  /\ UNCHANGED <<sinkVars, viewPc, to, span, follow, asOf>>

ViewReturn ==
  /\ viewPc = "line" /\ from >= to
  /\ viewPc' = "drawn"
  /\ UNCHANGED <<sinkVars, from, to, span, frame, follow, asOf, overrun>>

\* The screen shows the frame and will ask for another.
ViewAgain ==
  /\ viewPc = "drawn"
  /\ viewPc' = "idle"
  /\ UNCHANGED <<sinkVars, from, to, span, frame, follow, asOf, overrun>>

SinkStep == \E w \in Writers : EnterSink(w) \/ Push(w) \/ Trim(w)
ViewStep ==
  \/ ViewTest \/ ViewBegin \/ ViewEnd \/ ViewSpan \/ ReadFirst \/ ReadLast
  \/ ReadLine \/ ViewReturn \/ ViewAgain

Next == SinkStep \/ ViewStep

Spec == Init /\ [][Next]_vars
-----------------------------------------------------------------------------
(* Properties.                                                             *)

\* Every variable has its type; the line loop never starts below the vector.
TypeOK ==
  /\ log \in Seq(Nat) /\ count \in 0 .. MaxCount
  /\ sinkPc \in [Writers -> {"out", "push", "trim"}]
  /\ viewPc \in ViewPcs
  /\ from \in Nat /\ to \in Nat /\ span \in Nat
  /\ frame \in Seq(Nat)
  /\ follow \in BOOLEAN /\ asOf \in 0 .. MaxCount /\ overrun \in BOOLEAN

\* Whichever threads log, and in whatever order, a reader without the mutex
\* never finds more than one line over the limit, and only while a thread
\* is between its push_back and its erase.
SizeBounded ==
  /\ Len(log) <= MaxLines + 1
  /\ Len(log) = MaxLines + 1 => \E w \in Writers : sinkPc[w] = "trim"

\* The buffer is the bounded log: a push_back is one Add whose erase has
\* still to be made, and no line is lost, doubled or out of turn.
Abstract == INSTANCE BoundedLog WITH kept <- Kept
BoundedLogSpec == Abstract!Spec

\* However many lines are pushed and erased while a frame is drawn, the lines
\* it shows are in the order they were logged and none is shown twice: an
\* erase under the loop can only make it skip lines.
FrameInOrder ==
  \A i, j \in 1 .. Len(frame) : i < j => frame[i] < frame[j]

\* The loop never leaves the vector except at the one slot a line over the
\* limit had when size() was read, whatever log_index gives each time.
OverrunIsTransient ==
  viewPc = "line" /\ from < to /\ from >= Len(log) => from = MaxLines

\* A frame without a selected line ends with a line at least as new as the
\* newest one when the frame was begun, although size() is read three times.
\* (With a single line logged, an erase between the reads can leave nothing.)
FollowShowsNewest ==
  viewPc = "drawn" /\ follow /\ ~overrun /\ asOf > 1
    => frame # <<>> /\ frame[Len(frame)] >= asOf

\* What the code does not keep: every element the renderer reads is one the
\* buffer has.  An element may be erased between size() and the read.
LineExists == viewPc = "line" /\ from < to => from < Len(log)
=============================================================================
