---------------------------- MODULE LogViewProof ----------------------------
(***************************************************************************)
(* Proofs about LogView, for every limit, every window and every set of    *)
(* logging threads.                                                        *)
(***************************************************************************)
EXTENDS LogView, SequenceTheorems, TLAPS

\* The mutex: one thread in the sink, and the line over the limit is its own.
SinkInv ==
  /\ \A v, w \in Writers : sinkPc[v] # "out" /\ sinkPc[w] # "out" => v = w
  /\ \A w \in Writers : sinkPc[w] = "push" => count < MaxCount
  /\ SizeBounded

\* The buffer holds the newest lines, without a gap.
LogInv ==
  /\ Len(log) <= count
  /\ \A i \in 1 .. Len(log) : log[i] = count - Len(log) + i

\* What the renderer took from size() is out of date by one line at most: the
\* buffer only shrinks from one line over the limit to the limit.
ViewInv ==
  /\ viewPc = "first" => span <= Len(log) /\ span <= MaxLines
  /\ viewPc = "line" => /\ to <= MaxLines + 1
                        /\ to <= Len(log) \/ MaxLines <= Len(log)

\* Every line drawn is older than the one at the loop's position.
FrameInv ==
  /\ viewPc \in {"begin", "end", "span", "first", "last"} => frame = <<>>
  /\ viewPc = "line" =>
       \A i \in 1 .. Len(frame) : frame[i] <= count - Len(log) + from
  /\ FrameInOrder

\* What the branch without a selected line took from size(): the window ends
\* with a line that is new enough, and it is never empty.
FollowInv ==
  /\ asOf <= count /\ MinOf(count, MaxLines) <= Len(log)
  /\ viewPc \in {"begin", "end"} => ~follow
  /\ follow /\ asOf > 1 =>
       /\ viewPc = "first" => 2 <= span
       /\ viewPc = "last" =>
            \/ from + 2 <= Len(log)
            \/ from + 1 <= MaxLines /\ MaxLines <= Len(log)
       /\ viewPc = "line" =>
            /\ from <= to /\ asOf <= count - Len(log) + to
            /\ from = to /\ ~overrun =>
                 frame # <<>> /\ frame[Len(frame)] >= asOf
  /\ FollowShowsNewest

IInv == TypeOK /\ SinkInv /\ LogInv /\ ViewInv /\ FrameInv

-----------------------------------------------------------------------------
\* The invariant holds of the empty buffer.
LEMMA InitIInv == Init => IInv
<1> SUFFICES ASSUME Init PROVE IInv
  OBVIOUS
<1> USE LogConstants DEF LogConstants, Init
<1>1. TypeOK
  <2>1. /\ log \in Seq(Nat) /\ count \in 0 .. MaxCount
        /\ frame \in Seq(Nat) /\ asOf \in 0 .. MaxCount
    OBVIOUS
  <2>2. /\ sinkPc \in [Writers -> {"out", "push", "trim"}]
        /\ viewPc \in ViewPcs
    BY DEF ViewPcs
  <2>3. from \in Nat /\ to \in Nat /\ span \in Nat
    OBVIOUS
  <2>4. follow \in BOOLEAN /\ overrun \in BOOLEAN
    OBVIOUS
  <2> QED BY <2>1, <2>2, <2>3, <2>4 DEF TypeOK
<1>2. SinkInv BY DEF SinkInv, SizeBounded
<1>3. LogInv BY DEF LogInv
<1>4. ViewInv /\ FrameInv BY DEF ViewInv, FrameInv, FrameInOrder
<1> QED BY <1>1, <1>2, <1>3, <1>4 DEF IInv

\* Erasing the lines over the limit leaves the newest ones, at most MaxLines.
LEMMA KeptLines ==
  ASSUME log \in Seq(Nat)
  PROVE  /\ Kept \in Seq(Nat)
         /\ Len(Kept) = MinOf(Len(log), MaxLines)
         /\ \A i \in 1 .. Len(Kept) : Kept[i] = log[Len(log) - Len(Kept) + i]
<1> USE LogConstants DEF LogConstants
<1>1. CASE Len(log) <= MaxLines
  <2>1. Kept = log /\ Len(log) \in Nat
    BY <1>1 DEF Kept
  <2>2. Len(Kept) = MinOf(Len(log), MaxLines)
    BY <1>1, <2>1 DEF MinOf
  <2>3. \A i \in 1 .. Len(Kept) : Len(log) - Len(Kept) + i = i
    BY <2>1
  <2> QED BY <2>1, <2>2, <2>3
<1>2. CASE Len(log) > MaxLines
  <2> DEFINE m == Len(log) - MaxLines + 1
  <2>1. m \in Int /\ Len(log) \in Int /\ \A i \in m .. Len(log) : log[i] \in Nat
    BY <1>2
  <2>2. Kept = SubSeq(log, m, Len(log))
    BY <1>2 DEF Kept
  <2>3. /\ Kept \in Seq(Nat)
        /\ Len(Kept) = IF m <= Len(log) THEN Len(log) - m + 1 ELSE 0
        /\ \A i \in 1 .. Len(log) - m + 1 : Kept[i] = log[m + i - 1]
    BY <2>1, <2>2, SubSeqProperties
  <2>4. Len(Kept) = MaxLines
    BY <2>3, <1>2
  <2>5. \A i \in 1 .. Len(Kept) :
          /\ i \in 1 .. Len(log) - m + 1
          /\ m + i - 1 = Len(log) - Len(Kept) + i
    BY <2>1, <2>4
  <2>6. Len(Kept) = MinOf(Len(log), MaxLines)
    BY <2>1, <2>4, <1>2 DEF MinOf
  <2> QED BY <2>3, <2>5, <2>6
<1> QED BY <1>1, <1>2

\* A thread entering the sink preserves the invariant.
LEMMA EnterSinkKeeps ==
  ASSUME IInv, NEW w \in Writers, EnterSink(w) PROVE IInv'
<1> USE DEF EnterSink, viewVars
<1>1. TypeOK' BY DEF IInv, TypeOK, ViewPcs
<1>2. SinkInv' BY DEF IInv, TypeOK, SinkInv, SizeBounded
<1>3. LogInv' /\ ViewInv' /\ FrameInv'
  BY DEF IInv, LogInv, ViewInv, FrameInv, FrameInOrder
<1> QED BY <1>1, <1>2, <1>3 DEF IInv

\* A push_back preserves it: the buffer was within its limit.
LEMMA PushKeeps ==
  ASSUME IInv, NEW w \in Writers, Push(w) PROVE IInv'
<1> USE LogConstants DEF LogConstants, Push, viewVars
<1>1. TypeOK'
  <2>1. count < MaxCount BY DEF IInv, SinkInv
  <2> QED BY <2>1 DEF IInv, TypeOK, ViewPcs
<1>2. Len(log) <= MaxLines
  <2>1. sinkPc[w] = "push" BY DEF Push
  <2>2. \A v \in Writers : sinkPc[v] # "trim"
    BY <2>1 DEF IInv, SinkInv
  <2>3. Len(log) \in Nat BY DEF IInv, TypeOK
  <2> QED BY <2>2, <2>3 DEF IInv, SinkInv, SizeBounded
<1>3. Len(log') = Len(log) + 1 /\ count' = count + 1
  BY DEF IInv, TypeOK
<1>4. SinkInv'
  <2>1. /\ sinkPc \in [Writers -> {"out", "push", "trim"}]
        /\ sinkPc' = [sinkPc EXCEPT ![w] = "trim"]
        /\ sinkPc[w] = "push"
        /\ \A v \in Writers : sinkPc[v] # "out" => v = w
    BY DEF IInv, TypeOK, SinkInv
  <2>2. /\ sinkPc'[w] = "trim"
        /\ \A v \in Writers : sinkPc'[v] # "out" => v = w
    BY <2>1
  <2>3. Len(log') <= MaxLines + 1
    BY <1>2, <1>3 DEF IInv, TypeOK
  <2> QED BY <2>2, <2>3 DEF SinkInv, SizeBounded
<1>5. LogInv'
  <2>1. log \in Seq(Nat) /\ count \in Nat /\ log' = Append(log, count + 1)
    BY DEF IInv, TypeOK
  <2>2. \A i \in 1 .. Len(log) : log'[i] = log[i]
    BY <2>1
  <2>3. log'[Len(log) + 1] = count + 1
    BY <2>1
  <2>4. Len(log) <= count
        /\ \A i \in 1 .. Len(log) : log[i] = count - Len(log) + i
    BY DEF IInv, LogInv
  <2>5. \A i \in 1 .. Len(log') : log'[i] = count' - Len(log') + i
    <3> SUFFICES ASSUME NEW i \in 1 .. Len(log')
                 PROVE  log'[i] = count' - Len(log') + i
      OBVIOUS
    <3>1. CASE i \in 1 .. Len(log)
      BY <3>1, <1>3, <2>1, <2>2, <2>4
    <3>2. CASE i = Len(log) + 1
      BY <3>2, <1>3, <2>1, <2>3
    <3> QED BY <3>1, <3>2, <1>3, <2>1
  <2> QED BY <1>3, <2>1, <2>4, <2>5 DEF LogInv
<1>6. ViewInv' BY <1>3 DEF IInv, TypeOK, ViewInv
<1>7. FrameInv' BY <1>3 DEF IInv, TypeOK, FrameInv, FrameInOrder
<1> QED BY <1>1, <1>4, <1>5, <1>6, <1>7 DEF IInv

\* An erase preserves it: at most one line goes.
LEMMA TrimKeeps ==
  ASSUME IInv, NEW w \in Writers, Trim(w) PROVE IInv'
<1> USE LogConstants DEF LogConstants, Trim, viewVars
<1>1. /\ log' \in Seq(Nat)
      /\ Len(log') = MinOf(Len(log), MaxLines)
      /\ \A i \in 1 .. Len(log') : log'[i] = log[Len(log) - Len(log') + i]
  BY KeptLines DEF IInv, TypeOK
<1>2. TypeOK' BY <1>1 DEF IInv, TypeOK, ViewPcs
<1>3. SinkInv' BY <1>1 DEF IInv, TypeOK, SinkInv, SizeBounded, MinOf
<1>4. LogInv'
  <2>1. Len(log) \in Nat /\ count \in Nat /\ count' = count
    BY DEF IInv, TypeOK
  <2>2. Len(log') \in Nat /\ Len(log') <= Len(log)
    BY <1>1, <2>1 DEF MinOf
  <2>3. Len(log) <= count
        /\ \A i \in 1 .. Len(log) : log[i] = count - Len(log) + i
    BY DEF IInv, LogInv
  <2>4. \A i \in 1 .. Len(log') : log'[i] = count' - Len(log') + i
    <3> SUFFICES ASSUME NEW i \in 1 .. Len(log')
                 PROVE  log'[i] = count' - Len(log') + i
      OBVIOUS
    <3> DEFINE j == Len(log) - Len(log') + i
    <3>1. j \in 1 .. Len(log) /\ log'[i] = log[j]
      BY <1>1, <2>1, <2>2
    <3>2. log[j] = count - Len(log) + j
      BY <3>1, <2>3
    <3>3. count - Len(log) + j = count' - Len(log') + i
      BY <2>1, <2>2
    <3> QED BY <3>1, <3>2, <3>3
  <2> QED BY <2>1, <2>2, <2>3, <2>4 DEF LogInv
<1>5. ViewInv' BY <1>1 DEF IInv, TypeOK, ViewInv, MinOf
<1>6. FrameInv'
  <2>1. /\ Len(log) \in Nat /\ Len(log') \in Nat /\ Len(log') <= Len(log)
        /\ count \in Nat /\ from \in Nat /\ frame \in Seq(Nat)
    BY <1>1 DEF IInv, TypeOK, MinOf
  <2>2. ASSUME viewPc = "line", NEW i \in 1 .. Len(frame)
        PROVE  frame[i] <= count - Len(log') + from
    <3>1. frame[i] <= count - Len(log) + from /\ frame[i] \in Nat
      BY <2>1, <2>2 DEF IInv, FrameInv
    <3> QED BY <2>1, <3>1
  <2> QED BY <2>2 DEF IInv, FrameInv, FrameInOrder
<1> QED BY <1>2, <1>3, <1>4, <1>5, <1>6 DEF IInv

\* The renderer's steps preserve it.
LEMMA ViewKeeps == ASSUME IInv, ViewStep PROVE IInv'
<1>1. /\ TypeOK /\ SinkInv /\ LogInv /\ ViewInv /\ FrameInv
      /\ \A w \in Writers : sinkPc[w] \in {"out", "push", "trim"}
  BY DEF IInv, TypeOK
<1>2. UNCHANGED sinkVars
  BY DEF ViewStep, ViewTest, ViewBegin, ViewEnd, ViewSpan, ReadFirst,
         ReadLast, ReadLine, ViewReturn, ViewAgain
<1>3. SinkInv' /\ LogInv'
  BY <1>1, <1>2 DEF SinkInv, SizeBounded, LogInv, sinkVars
<1>4. /\ Len(log) \in Nat /\ Len(log) <= MaxLines + 1
      /\ MaxLines \in Nat \ {0} /\ Span \in Nat /\ Span <= MaxLines
      /\ Back \in Nat /\ Ahead \in Nat
  BY <1>1, LogConstants DEF LogConstants, TypeOK, SinkInv, SizeBounded
<1> USE <1>1, <1>2, <1>4 DEF sinkVars
<1>5. CASE ViewTest
  <2>1. TypeOK'
    <3>1. follow' \in BOOLEAN BY <1>5 DEF ViewTest
    <3>2. viewPc' \in ViewPcs BY <1>5 DEF ViewTest, ViewPcs
    <3>3. asOf' \in 0 .. MaxCount /\ frame' \in Seq(Nat)
      BY <1>5 DEF ViewTest, TypeOK
    <3>4. overrun' \in BOOLEAN BY <1>5 DEF ViewTest
    <3> QED BY <1>5, <3>1, <3>2, <3>3, <3>4 DEF ViewTest, TypeOK
  <2>2. ViewInv' /\ FrameInv'
    BY <1>5 DEF ViewTest, ViewInv, FrameInv, FrameInOrder
  <2> QED BY <2>1, <2>2, <1>3 DEF IInv
<1>6. CASE ViewBegin
  <2>1. TypeOK' BY <1>6 DEF ViewBegin, TypeOK, ViewPcs, IndexReadings, MaxOf
  <2>2. ViewInv' /\ FrameInv'
    BY <1>6 DEF ViewBegin, ViewInv, FrameInv, FrameInOrder
  <2> QED BY <2>1, <2>2, <1>3 DEF IInv
<1>7. CASE ViewEnd
  <2>1. to' \in Nat /\ to' <= Len(log)
    BY <1>7 DEF ViewEnd, IndexReadings, MinOf
  <2>2. TypeOK' BY <1>7, <2>1 DEF ViewEnd, TypeOK, ViewPcs
  <2>3. ViewInv' /\ FrameInv'
    BY <1>7, <2>1 DEF ViewEnd, ViewInv, FrameInv, FrameInOrder
  <2> QED BY <2>2, <2>3, <1>3 DEF IInv
<1>8. CASE ViewSpan
  <2>1. span' \in Nat /\ span' <= Len(log) /\ span' <= MaxLines
    BY <1>8 DEF ViewSpan, MinOf
  <2>2. TypeOK' BY <1>8, <2>1 DEF ViewSpan, TypeOK, ViewPcs
  <2>3. ViewInv' /\ FrameInv'
    BY <1>8, <2>1 DEF ViewSpan, ViewInv, FrameInv, FrameInOrder
  <2> QED BY <2>2, <2>3, <1>3 DEF IInv
<1>9. CASE ReadFirst
  <2>1. from' \in Nat BY <1>9 DEF ReadFirst, ViewInv, TypeOK
  <2>2. TypeOK' BY <1>9, <2>1 DEF ReadFirst, TypeOK, ViewPcs
  <2>3. ViewInv' /\ FrameInv'
    BY <1>9 DEF ReadFirst, ViewInv, FrameInv, FrameInOrder
  <2> QED BY <2>2, <2>3, <1>3 DEF IInv
<1>10. CASE ReadLast
  <2>1. TypeOK' BY <1>10 DEF ReadLast, TypeOK, ViewPcs
  <2>2. ViewInv' /\ FrameInv'
    BY <1>10 DEF ReadLast, ViewInv, FrameInv, FrameInOrder
  <2> QED BY <2>1, <2>2, <1>3 DEF IInv
<1>11. CASE ReadLine
  <2>1. /\ log \in Seq(Nat) /\ count \in Nat /\ frame \in Seq(Nat)
        /\ from \in Nat /\ from' = from + 1 /\ viewPc = "line"
        /\ viewPc' = "line" /\ to' = to
    BY <1>11 DEF ReadLine, TypeOK
  <2>2. \A i \in 1 .. Len(frame) :
          frame[i] \in Nat /\ frame[i] <= count - Len(log) + from
    BY <2>1 DEF FrameInv
  <2>3. FrameInOrder BY DEF FrameInv
  <2>4. CASE from < Len(log)
    <3> DEFINE line == log[from + 1]
    <3>1. line \in Nat /\ line = count - Len(log) + from + 1
      <4>1. from + 1 \in 1 .. Len(log) BY <2>1, <2>4
      <4>2. log[from + 1] = count - Len(log) + (from + 1)
        BY <4>1 DEF LogInv
      <4> QED BY <2>1, <4>1, <4>2
    <3>2. frame' = Append(frame, line) /\ UNCHANGED overrun
      BY <1>11, <2>4 DEF ReadLine
    <3> HIDE DEF line
    <3>3. /\ frame' \in Seq(Nat) /\ Len(frame') = Len(frame) + 1
          /\ \A i \in 1 .. Len(frame) : frame'[i] = frame[i]
          /\ frame'[Len(frame) + 1] = line
      BY <2>1, <3>1, <3>2
    <3>4. \A i \in 1 .. Len(frame') :
            frame'[i] <= count - Len(log) + from'
      <4> SUFFICES ASSUME NEW i \in 1 .. Len(frame')
                   PROVE  frame'[i] <= count - Len(log) + from'
        OBVIOUS
      <4>1. CASE i \in 1 .. Len(frame)
        BY <4>1, <2>1, <2>2, <3>3
      <4>2. CASE i = Len(frame) + 1
        BY <4>2, <2>1, <3>1, <3>3
      <4> QED BY <4>1, <4>2, <2>1, <3>3
    <3>5. FrameInOrder'
      <4> SUFFICES ASSUME NEW i \in 1 .. Len(frame'),
                          NEW j \in 1 .. Len(frame'), i < j
                   PROVE  frame'[i] < frame'[j]
        BY DEF FrameInOrder
      <4>1. CASE j \in 1 .. Len(frame)
        <5>1. i \in 1 .. Len(frame) BY <4>1
        <5>2. frame[i] < frame[j] BY <4>1, <5>1, <2>3 DEF FrameInOrder
        <5> QED BY <4>1, <5>1, <5>2, <3>3
      <4>2. CASE j = Len(frame) + 1
        <5>1. i \in 1 .. Len(frame) BY <4>2, <2>1, <3>3
        <5>2. frame[i] < line BY <5>1, <2>1, <2>2, <3>1
        <5> QED BY <5>1, <5>2, <4>2, <3>3
      <4>3. Len(frame) \in Nat BY <2>1
      <4>4. j \in 1 .. Len(frame) \/ j = Len(frame) + 1 BY <4>3, <3>3
      <4> QED BY <4>1, <4>2, <4>4
    <3>6. TypeOK'
      BY <1>11, <2>1, <3>2, <3>3 DEF ReadLine, TypeOK, ViewPcs
    <3>7. FrameInv' BY <2>1, <3>4, <3>5 DEF FrameInv
    <3>8. ViewInv' BY <2>1 DEF ViewInv
    <3> QED BY <1>3, <3>6, <3>7, <3>8 DEF IInv
  <2>5. CASE ~(from < Len(log))
    <3>1. frame' = frame /\ overrun' = TRUE
      BY <1>11, <2>5 DEF ReadLine
    <3>2. TypeOK' BY <1>11, <2>1, <3>1 DEF ReadLine, TypeOK, ViewPcs
    <3>3. FrameInv'
      BY <2>1, <2>2, <2>3, <3>1 DEF FrameInv, FrameInOrder
    <3>4. ViewInv' BY <2>1 DEF ViewInv
    <3> QED BY <1>3, <3>2, <3>3, <3>4 DEF IInv
  <2> QED BY <2>4, <2>5
<1>12. CASE ViewReturn \/ ViewAgain
  <2>1. TypeOK' BY <1>12 DEF ViewReturn, ViewAgain, TypeOK, ViewPcs
  <2>2. ViewInv' /\ FrameInv'
    BY <1>12 DEF ViewReturn, ViewAgain, ViewInv, FrameInv, FrameInOrder
  <2> QED BY <2>1, <2>2, <1>3 DEF IInv
<1> QED
  BY <1>5, <1>6, <1>7, <1>8, <1>9, <1>10, <1>11, <1>12 DEF ViewStep

\* The inductive invariant is an invariant of the specification.
LEMMA IInvHolds == Spec => []IInv
<1>1. ASSUME IInv, UNCHANGED vars PROVE IInv'
  BY <1>1 DEF IInv, TypeOK, SinkInv, SizeBounded, LogInv, ViewInv, FrameInv,
              FrameInOrder, vars, sinkVars, viewVars
<1>2. IInv /\ [Next]_vars => IInv'
  BY <1>1, EnterSinkKeeps, PushKeeps, TrimKeeps, ViewKeeps
     DEF Next, SinkStep
<1> QED BY <1>2, InitIInv, PTL DEF Spec
-----------------------------------------------------------------------------
\* Every variable has its type, and the line loop never starts below the
\* vector.
THEOREM TypeCorrect == Spec => []TypeOK
<1>1. IInv => TypeOK BY DEF IInv
<1> QED BY <1>1, IInvHolds, PTL

\* Nobody finds more than one line over the limit.
THEOREM SizeIsBounded == Spec => []SizeBounded
<1>1. IInv => SizeBounded BY DEF IInv, SinkInv
<1> QED BY <1>1, IInvHolds, PTL

\* A frame shows lines in the order they were logged, and none twice.
THEOREM FramesInOrder == Spec => []FrameInOrder
<1>1. IInv => FrameInOrder BY DEF IInv, FrameInv
<1> QED BY <1>1, IInvHolds, PTL

\* The one slot the loop can read past the end is the one of the line over
\* the limit.
THEOREM OverrunsAreTransient == Spec => []OverrunIsTransient
<1>1. IInv => OverrunIsTransient
  BY LogConstants
     DEF LogConstants, IInv, TypeOK, ViewInv, OverrunIsTransient
<1> QED BY <1>1, IInvHolds, PTL

\* The buffer implements the bounded log: every push_back adds a line to it,
\* every other step leaves it as it is.
THEOREM ImplementsBoundedLog == Spec => BoundedLogSpec
<1>1. Init => Abstract!Init
  BY LogConstants DEF LogConstants, Init, Abstract!Init, Kept
<1>2. ASSUME UNCHANGED <<log, count>> PROVE UNCHANGED Abstract!boundedVars
  BY <1>2 DEF Abstract!boundedVars, Kept
<1>3. ASSUME IInv, NEW w \in Writers, Push(w) PROVE Abstract!Add
  <2>1. log \in Seq(Nat) /\ Len(log) <= MaxLines
    <3>1. \A v \in Writers : sinkPc[v] # "trim"
      BY <1>3 DEF IInv, SinkInv, Push
    <3>2. log \in Seq(Nat) BY <1>3 DEF IInv, TypeOK
    <3> QED BY <3>1, <3>2, <1>3, LogConstants
            DEF LogConstants, IInv, SinkInv, SizeBounded
  <2>2. Kept = log BY <2>1, LogConstants DEF LogConstants, Kept
  <2>3. log' = Append(log, count') /\ count' = count + 1
    BY <1>3 DEF Push
  <2>4. Kept' = Abstract!Newest(log', MaxLines)
    BY <2>1, <2>3, LogConstants
       DEF LogConstants, Kept, Abstract!Newest
  <2> QED BY <2>2, <2>3, <2>4 DEF Abstract!Add
<1>4. ASSUME IInv, NEW w \in Writers, Trim(w)
      PROVE  UNCHANGED Abstract!boundedVars
  <2>1. log' = Kept /\ count' = count BY <1>4 DEF Trim
  <2>2. Len(log') <= MaxLines /\ log' \in Seq(Nat)
    BY <1>4, <2>1, KeptLines, LogConstants
       DEF LogConstants, IInv, TypeOK, MinOf
  <2>3. Kept' = log' BY <2>2, LogConstants DEF LogConstants, Kept
  <2> QED BY <2>1, <2>3 DEF Abstract!boundedVars
<1>5. ASSUME NEW w \in Writers, EnterSink(w)
      PROVE  UNCHANGED <<log, count>>
  BY <1>5 DEF EnterSink
<1>6. ViewStep => UNCHANGED <<log, count>>
  BY DEF ViewStep, ViewTest, ViewBegin, ViewEnd, ViewSpan, ReadFirst,
         ReadLast, ReadLine, ViewReturn, ViewAgain, sinkVars
<1>7. UNCHANGED vars => UNCHANGED <<log, count>>
  BY DEF vars, sinkVars
<1>8. IInv /\ [Next]_vars => [Abstract!Add]_Abstract!boundedVars
  BY <1>2, <1>3, <1>4, <1>5, <1>6, <1>7 DEF Next, SinkStep
<1> QED
  BY <1>1, <1>8, IInvHolds, PTL DEF Spec, BoundedLogSpec, Abstract!Spec
-----------------------------------------------------------------------------
\* A frame without a selected line.  The proof of FollowInv is relative to
\* IInv: both are preserved together.

\* An entry into the sink leaves what the renderer took alone.
LEMMA EnterSinkKeepsFollow ==
  ASSUME FollowInv, NEW w \in Writers, EnterSink(w) PROVE FollowInv'
BY DEF EnterSink, viewVars, FollowInv, FollowShowsNewest, MinOf

\* A push_back makes the log longer and newer by the same line.
LEMMA PushKeepsFollow ==
  ASSUME IInv, FollowInv, NEW w \in Writers, Push(w) PROVE FollowInv'
<1>1. /\ Len(log') = Len(log) + 1 /\ count' = count + 1 /\ UNCHANGED viewVars
      /\ Len(log) \in Nat /\ count \in Nat /\ asOf \in Nat
      /\ from \in Nat /\ to \in Nat
  BY DEF Push, IInv, TypeOK
<1>2. MaxLines \in Nat
  BY LogConstants DEF LogConstants
<1>3. count' - Len(log') + to = count - Len(log) + to
  BY <1>1
<1>4. /\ asOf <= count'
      /\ MinOf(count', MaxLines) <= Len(log')
      /\ \A n \in Nat : n <= Len(log) => n <= Len(log')
  BY <1>1, <1>2 DEF FollowInv, MinOf
<1> QED
  BY <1>1, <1>2, <1>3, <1>4 DEF FollowInv, FollowShowsNewest, viewVars

\* An erase shortens the log by one line at most, and to no less than the
\* limit: the loop's window may lose its first line, not its last.
LEMMA TrimKeepsFollow ==
  ASSUME IInv, FollowInv, NEW w \in Writers, Trim(w) PROVE FollowInv'
<1>1. /\ Len(log') = MinOf(Len(log), MaxLines)
      /\ count' = count /\ UNCHANGED viewVars
  BY KeptLines DEF Trim, IInv, TypeOK
<1>2. /\ Len(log) \in Nat /\ count \in Nat /\ asOf \in Nat /\ MaxLines \in Nat
      /\ from \in Nat /\ to \in Nat /\ Len(log) <= MaxLines + 1
  BY LogConstants DEF LogConstants, IInv, TypeOK, SinkInv, SizeBounded
<1>3. /\ Len(log') \in Nat /\ Len(log') <= Len(log)
      /\ Len(log') = Len(log) \/ (Len(log') = MaxLines /\ Len(log) = MaxLines + 1)
  BY <1>1, <1>2 DEF MinOf
<1>4. MinOf(count', MaxLines) <= Len(log')
  BY <1>1, <1>2 DEF FollowInv, MinOf
<1>5. asOf <= count - Len(log) + to => asOf <= count' - Len(log') + to
  BY <1>1, <1>2, <1>3
<1>6. from + 2 <= Len(log) \/ (from + 1 <= MaxLines /\ MaxLines <= Len(log))
        => from + 2 <= Len(log') \/ (from + 1 <= MaxLines /\ MaxLines <= Len(log'))
  BY <1>2, <1>3
<1> QED
  BY <1>1, <1>4, <1>5, <1>6 DEF FollowInv, FollowShowsNewest, viewVars

\* The renderer's steps: a window of two lines survives the erase between the
\* reads of size(), and the last line of the window is drawn last.
LEMMA ViewKeepsFollow == ASSUME IInv, FollowInv, ViewStep PROVE FollowInv'
<1>1. UNCHANGED sinkVars
  BY DEF ViewStep, ViewTest, ViewBegin, ViewEnd, ViewSpan, ReadFirst,
         ReadLast, ReadLine, ViewReturn, ViewAgain
<1>2. /\ Len(log) \in Nat /\ count \in Nat /\ asOf \in Nat
      /\ from \in Nat /\ to \in Nat /\ span \in Nat /\ frame \in Seq(Nat)
      /\ MaxLines \in Nat /\ Span \in Nat /\ 2 <= Span /\ Span <= MaxLines
      /\ Len(log) <= MaxLines + 1
  BY LogConstants DEF LogConstants, IInv, TypeOK, SinkInv, SizeBounded
<1>3. FollowInv /\ LogInv /\ ViewInv
  BY DEF IInv
<1> USE <1>1, <1>2, <1>3 DEF sinkVars
<1>4. CASE ViewTest
  <2>1. asOf' = count /\ viewPc' \in {"span", "begin"}
        /\ (viewPc' = "begin" => ~follow')
    BY <1>4 DEF ViewTest
  <2> QED BY <2>1 DEF FollowInv, FollowShowsNewest
<1>5. CASE ViewBegin
  BY <1>5 DEF ViewBegin, FollowInv, FollowShowsNewest
<1>6. CASE ViewEnd
  BY <1>6 DEF ViewEnd, FollowInv, FollowShowsNewest
<1>7. CASE ViewSpan
  <2>1. span' = MinOf(Span, Len(log)) /\ viewPc' = "first"
        /\ UNCHANGED <<asOf, follow>>
    BY <1>7 DEF ViewSpan
  <2>2. asOf > 1 => 2 <= span'
    BY <2>1 DEF FollowInv, MinOf
  <2> QED BY <2>1, <2>2 DEF FollowInv, FollowShowsNewest
<1>8. CASE ReadFirst
  <2>1. /\ from' = Len(log) - span /\ viewPc = "first" /\ viewPc' = "last"
        /\ UNCHANGED <<asOf, follow>>
    BY <1>8 DEF ReadFirst
  <2>2. follow /\ asOf > 1 => from' + 2 <= Len(log)
    BY <2>1 DEF FollowInv
  <2> QED BY <2>1, <2>2 DEF FollowInv, FollowShowsNewest
<1>9. CASE ReadLast
  <2>1. /\ to' = Len(log) /\ viewPc = "last" /\ viewPc' = "line"
        /\ UNCHANGED <<asOf, follow, from>>
    BY <1>9 DEF ReadLast
  <2>2. follow /\ asOf > 1 => from' < to'
    BY <2>1 DEF FollowInv
  <2>3. asOf <= count - Len(log) + to'
    BY <2>1 DEF FollowInv
  <2> QED BY <2>1, <2>2, <2>3 DEF FollowInv, FollowShowsNewest
<1>10. CASE ReadLine
  <2>1. /\ viewPc = "line" /\ viewPc' = "line" /\ from < to
        /\ from' = from + 1 /\ UNCHANGED <<asOf, follow, to>>
    BY <1>10 DEF ReadLine
  <2>2. ASSUME asOf <= count - Len(log) + to, from' = to, ~overrun'
        PROVE  frame' # <<>> /\ frame'[Len(frame')] >= asOf
    <3>1. from < Len(log) /\ frame' = Append(frame, log[from + 1])
      BY <1>10, <2>2 DEF ReadLine
    <3>2. log[from + 1] = count - Len(log) + (from + 1)
      <4>1. from + 1 \in 1 .. Len(log)
        BY <3>1
      <4> QED BY <4>1 DEF LogInv
    <3>3. from + 1 = to
      BY <2>1, <2>2
    <3>4. log[from + 1] >= asOf
      BY <3>2, <3>3, <2>2
    <3>5. Len(frame') = Len(frame) + 1 /\ frame'[Len(frame) + 1] = log[from + 1]
      BY <3>1
    <3> QED BY <3>4, <3>5
  <2>3. from' <= to
    BY <2>1
  <2> QED BY <2>1, <2>2, <2>3 DEF FollowInv, FollowShowsNewest
<1>11. CASE ViewReturn
  <2>1. /\ viewPc = "line" /\ from >= to /\ viewPc' = "drawn"
        /\ UNCHANGED <<from, to, span, frame, follow, asOf, overrun>>
    BY <1>11 DEF ViewReturn
  <2>2. follow /\ asOf > 1 => from = to
    BY <2>1 DEF FollowInv
  <2> QED BY <2>1, <2>2 DEF FollowInv, FollowShowsNewest
<1>12. CASE ViewAgain
  BY <1>12 DEF ViewAgain, FollowInv, FollowShowsNewest
<1> QED
  BY <1>4, <1>5, <1>6, <1>7, <1>8, <1>9, <1>10, <1>11, <1>12 DEF ViewStep

\* With more than one line logged, a frame without a selected line shows one
\* at least as new as the newest of its beginning, or leaves the vector,
\* however many lines are logged and erased between the three reads of size().
THEOREM FollowingShowsNewest == Spec => []FollowShowsNewest
<1>1. Init => FollowInv
  BY LogConstants
     DEF LogConstants, Init, FollowInv, FollowShowsNewest, MinOf
<1>2. ASSUME FollowInv, UNCHANGED vars PROVE FollowInv'
  BY <1>2 DEF FollowInv, FollowShowsNewest, MinOf, vars, sinkVars, viewVars
<1>3. IInv /\ FollowInv /\ [Next]_vars => FollowInv'
  BY <1>2, EnterSinkKeepsFollow, PushKeepsFollow, TrimKeepsFollow,
     ViewKeepsFollow
     DEF Next, SinkStep
<1>4. FollowInv => FollowShowsNewest
  BY DEF FollowInv
<1> QED BY <1>1, <1>3, <1>4, IInvHolds, PTL DEF Spec
=============================================================================
