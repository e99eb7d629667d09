------------------------- MODULE AppLifecycleProof --------------------------
(***************************************************************************)
(* Proofs about AppLifecycle, for every bound on signals and frames and    *)
(* for both ways the screen loop may treat signals.                        *)
(***************************************************************************)
EXTENDS AppLifecycle, TLAPS

\* What each thread may be doing while the main thread is somewhere: the
\* strengthening that makes the properties inductive.
BeforeUi     == {"construct", "signals", "timer", "spawnUi"}
BeforeReader == BeforeUi \cup {"spawnReader"}
AfterDtor    == {"catch", "returned", "rethrown"}

ObjFollowsMain ==
  /\ obj = "none" <=> mainPc = "construct"
  /\ obj = "destroyed" <=> mainPc \in AfterDtor

ThreadsFollowMain ==
  /\ mainPc \in BeforeUi => uiPc = "none"
  /\ mainPc \in BeforeReader => readerPc = "none"
  /\ mainPc \in AfterDtor \cup {"joinUi"} => readerPc \in {"none", "ended"}
  /\ mainPc \in AfterDtor => uiPc \in {"none", "ended"}

FlagBeforeLeaving ==
  /\ readerPc = "ended" => exit_
  /\ uiPc \in {"exitQuit", "exitStop", "ended"} => exit_
  /\ mainPc \in {"joinReader", "joinUi"} => exit_

TimerFollowsMain ==
  /\ mainPc \in {"spawnUi", "spawnReader"} => timerWait
  /\ UpdateStaysArmed

InStep ==
  /\ ObjFollowsMain
  /\ ThreadsFollowMain
  /\ FlagBeforeLeaving
  /\ TimerFollowsMain

IInv == TypeOK /\ InStep

-----------------------------------------------------------------------------
\* The inductive invariant holds in every state: run() and the destructor
\* keep the object, the threads, the flag and the timer in step.
LEMMA InitIInv == Init => IInv
<1> SUFFICES ASSUME Init PROVE IInv
  OBVIOUS
<1>1. /\ mainPc \in MainPcs /\ uiPc \in UiPcs /\ readerPc \in ReaderPcs
      /\ exitCaller \in {"menu", "thread"}
      /\ obj \in {"none", "alive", "destroyed"}
      /\ logger \in {"console", "app"}
  BY DEF Init, MainPcs, UiPcs, ReaderPcs
<1>2. /\ logLost \in BOOLEAN /\ unwinding \in BOOLEAN /\ exit_ \in BOOLEAN
      /\ stopped \in BOOLEAN /\ signalWait \in BOOLEAN
      /\ timerWait \in BOOLEAN
      /\ screenSignal \in BOOLEAN /\ quit \in BOOLEAN
      /\ rcvTimeo \in BOOLEAN
  BY DEF Init
<1>3. asioSignals \in 0 .. MaxSignals /\ rxFrames \in 0 .. MaxFrames
  BY LifecycleConstants DEF LifecycleConstants, Init
<1>4. ObjFollowsMain /\ ThreadsFollowMain
  BY DEF Init, ObjFollowsMain, ThreadsFollowMain, BeforeUi, BeforeReader,
         AfterDtor
<1>5. FlagBeforeLeaving
  BY DEF Init, FlagBeforeLeaving
<1>6. TimerFollowsMain
  BY DEF Init, TimerFollowsMain, UpdateStaysArmed
<1> QED
  BY <1>1, <1>2, <1>3, <1>4, <1>5, <1>6 DEF IInv, InStep, TypeOK

\* Every step of the main thread keeps every variable in its type.
LEMMA MainKeepsTypes == ASSUME TypeOK, MainStep PROVE TypeOK'
<1> USE LifecycleConstants
    DEF LifecycleConstants, TypeOK, MainPcs, UiPcs, ReaderPcs, MainGoes,
        threadVars, objVars, iocVars, screenVars, sockVars
<1>1. CASE Construct BY <1>1 DEF Construct
<1>2. CASE ConstructThrows BY <1>2 DEF ConstructThrows
<1>3. CASE AttachSignals BY <1>3 DEF AttachSignals
<1>4. CASE StartTimer BY <1>4 DEF StartTimer
<1>5. CASE SpawnUi BY <1>5 DEF SpawnUi
<1>6. CASE SpawnReader BY <1>6 DEF SpawnReader
<1>7. CASE SpawnThrows BY <1>7 DEF SpawnThrows
<1>8. CASE HandleSignal
  <2>1. /\ mainPc' \in MainPcs /\ uiPc' \in UiPcs
        /\ readerPc' \in ReaderPcs /\ exitCaller' \in {"menu", "thread"}
        /\ obj' \in {"none", "alive", "destroyed"}
        /\ logger' \in {"console", "app"}
    BY <1>8 DEF HandleSignal
  <2>2. /\ (logLost \in BOOLEAN)' /\ (unwinding \in BOOLEAN)'
        /\ (exit_ \in BOOLEAN)' /\ (stopped \in BOOLEAN)'
        /\ (signalWait \in BOOLEAN)' /\ (timerWait \in BOOLEAN)'
        /\ (screenSignal \in BOOLEAN)' /\ (quit \in BOOLEAN)'
        /\ (rcvTimeo \in BOOLEAN)'
    BY <1>8 DEF HandleSignal
  <2>3. asioSignals' \in 0 .. MaxSignals /\ rxFrames' \in 0 .. MaxFrames
    BY <1>8 DEF HandleSignal
  <2> QED BY <2>1, <2>2, <2>3
<1>9. CASE UpdateError
  <2>1. /\ mainPc' \in MainPcs /\ uiPc' \in UiPcs
        /\ readerPc' \in ReaderPcs /\ exitCaller' \in {"menu", "thread"}
        /\ obj' \in {"none", "alive", "destroyed"}
        /\ logger' \in {"console", "app"}
    BY <1>9 DEF UpdateError
  <2>2. /\ (logLost \in BOOLEAN)' /\ (unwinding \in BOOLEAN)'
        /\ (exit_ \in BOOLEAN)' /\ (stopped \in BOOLEAN)'
        /\ (signalWait \in BOOLEAN)' /\ (timerWait \in BOOLEAN)'
        /\ (screenSignal \in BOOLEAN)' /\ (quit \in BOOLEAN)'
        /\ (rcvTimeo \in BOOLEAN)'
    BY <1>9 DEF UpdateError
  <2>3. asioSignals' \in 0 .. MaxSignals /\ rxFrames' \in 0 .. MaxFrames
    BY <1>9 DEF UpdateError
  <2> QED BY <2>1, <2>2, <2>3
<1>10. CASE UpdateBegin
  <2>1. /\ mainPc' \in MainPcs /\ uiPc' \in UiPcs
        /\ readerPc' \in ReaderPcs /\ exitCaller' \in {"menu", "thread"}
        /\ obj' \in {"none", "alive", "destroyed"}
        /\ logger' \in {"console", "app"}
    BY <1>10 DEF UpdateBegin
  <2>2. /\ (logLost \in BOOLEAN)' /\ (unwinding \in BOOLEAN)'
        /\ (exit_ \in BOOLEAN)' /\ (stopped \in BOOLEAN)'
        /\ (signalWait \in BOOLEAN)' /\ (timerWait \in BOOLEAN)'
        /\ (screenSignal \in BOOLEAN)' /\ (quit \in BOOLEAN)'
        /\ (rcvTimeo \in BOOLEAN)'
    BY <1>10 DEF UpdateBegin
  <2>3. asioSignals' \in 0 .. MaxSignals /\ rxFrames' \in 0 .. MaxFrames
    BY <1>10 DEF UpdateBegin
  <2> QED BY <2>1, <2>2, <2>3
<1>11. CASE UpdateRearm BY <1>11 DEF UpdateRearm
<1>12. CASE RunReturns BY <1>12 DEF RunReturns
<1>13. CASE DtorFlag BY <1>13 DEF DtorFlag
<1>14. CASE JoinReader BY <1>14 DEF JoinReader
<1>15. CASE JoinUi BY <1>15 DEF JoinUi
<1>16. CASE NotifyAndRethrow BY <1>16 DEF NotifyAndRethrow
<1> QED
  BY <1>1, <1>2, <1>3, <1>4, <1>5, <1>6, <1>7, <1>8, <1>9,
     <1>10, <1>11, <1>12, <1>13, <1>14, <1>15, <1>16 DEF MainStep

\* So does every step of the UI thread, of the reader and of the environment.
LEMMA OthersKeepTypes ==
  ASSUME TypeOK, UiStep \/ ReaderStep \/ Signal \/ FrameArrives \/ Done
  PROVE  TypeOK'
<1> USE LifecycleConstants
    DEF LifecycleConstants, TypeOK, MainPcs, UiPcs, ReaderPcs,
        threadVars, objVars, iocVars, screenVars, sockVars
<1>1. CASE UiEnterLoop BY <1>1 DEF UiEnterLoop
<1>2. CASE MenuExit BY <1>2 DEF MenuExit
<1>3. CASE LoopSignal
  <2>1. /\ mainPc' \in MainPcs /\ uiPc' \in UiPcs
        /\ readerPc' \in ReaderPcs /\ exitCaller' \in {"menu", "thread"}
        /\ obj' \in {"none", "alive", "destroyed"}
        /\ logger' \in {"console", "app"}
    BY <1>3 DEF LoopSignal
  <2>2. /\ (logLost \in BOOLEAN)' /\ (unwinding \in BOOLEAN)'
        /\ (exit_ \in BOOLEAN)' /\ (stopped \in BOOLEAN)'
        /\ (signalWait \in BOOLEAN)' /\ (timerWait \in BOOLEAN)'
        /\ (screenSignal \in BOOLEAN)' /\ (quit \in BOOLEAN)'
        /\ (rcvTimeo \in BOOLEAN)'
    BY <1>3 DEF LoopSignal
  <2>3. asioSignals' \in 0 .. MaxSignals /\ rxFrames' \in 0 .. MaxFrames
    BY <1>3 DEF LoopSignal
  <2> QED BY <2>1, <2>2, <2>3
<1>4. CASE LoopReturns BY <1>4 DEF LoopReturns
<1>5. CASE ExitFlag BY <1>5 DEF ExitFlag
<1>6. CASE ExitQuit BY <1>6 DEF ExitQuit
<1>7. CASE ExitStop BY <1>7 DEF ExitStop
<1>8. CASE ReaderTest BY <1>8 DEF ReaderTest, ReaderGoes
<1>9. CASE ReaderReceive BY <1>9 DEF ReaderReceive, ReaderGoes
<1>10. CASE ReaderTimeout BY <1>10 DEF ReaderTimeout, ReaderGoes
<1>11. CASE ReaderError BY <1>11 DEF ReaderError, ReaderGoes
<1>12. CASE ReaderProcess BY <1>12 DEF ReaderProcess, ReaderGoes
<1>13. CASE Signal
  <2>1. /\ mainPc' \in MainPcs /\ uiPc' \in UiPcs
        /\ readerPc' \in ReaderPcs /\ exitCaller' \in {"menu", "thread"}
        /\ obj' \in {"none", "alive", "destroyed"}
        /\ logger' \in {"console", "app"}
    BY <1>13 DEF Signal, InLoop
  <2>2. /\ (logLost \in BOOLEAN)' /\ (unwinding \in BOOLEAN)'
        /\ (exit_ \in BOOLEAN)' /\ (stopped \in BOOLEAN)'
        /\ (signalWait \in BOOLEAN)' /\ (timerWait \in BOOLEAN)'
        /\ (screenSignal \in BOOLEAN)' /\ (quit \in BOOLEAN)'
        /\ (rcvTimeo \in BOOLEAN)'
    BY <1>13 DEF Signal, InLoop
  <2>3. asioSignals' \in 0 .. MaxSignals /\ rxFrames' \in 0 .. MaxFrames
    BY <1>13 DEF Signal, InLoop
  <2> QED BY <2>1, <2>2, <2>3
<1>14. CASE FrameArrives BY <1>14 DEF FrameArrives
<1>15. CASE Done BY <1>15 DEF Done, vars
<1> QED
  BY <1>1, <1>2, <1>3, <1>4, <1>5, <1>6, <1>7, <1>8, <1>9,
     <1>10, <1>11, <1>12, <1>13, <1>14, <1>15 DEF UiStep, ReaderStep

\* Every step of the main thread keeps object, threads, flag and timer in
\* step with it.
LEMMA MainKeepsInStep == ASSUME InStep, MainStep PROVE InStep'
<1> USE DEF InStep, ObjFollowsMain, ThreadsFollowMain, BeforeUi,
        BeforeReader, AfterDtor, FlagBeforeLeaving, TimerFollowsMain,
        UpdateStaysArmed, MainGoes, threadVars, objVars,
        iocVars, screenVars, sockVars
<1>1. CASE Construct BY <1>1 DEF Construct
<1>2. CASE ConstructThrows BY <1>2 DEF ConstructThrows
<1>3. CASE AttachSignals BY <1>3 DEF AttachSignals
<1>4. CASE StartTimer BY <1>4 DEF StartTimer
<1>5. CASE SpawnUi BY <1>5 DEF SpawnUi
<1>6. CASE SpawnReader BY <1>6 DEF SpawnReader
<1>7. CASE SpawnThrows BY <1>7 DEF SpawnThrows
<1>8. CASE HandleSignal BY <1>8 DEF HandleSignal
<1>9. CASE UpdateError BY <1>9 DEF UpdateError
<1>10. CASE UpdateBegin BY <1>10 DEF UpdateBegin
<1>11. CASE UpdateRearm BY <1>11 DEF UpdateRearm
<1>12. CASE RunReturns BY <1>12 DEF RunReturns
<1>13. CASE DtorFlag BY <1>13 DEF DtorFlag
<1>14. CASE JoinReader BY <1>14 DEF JoinReader
<1>15. CASE JoinUi BY <1>15 DEF JoinUi
<1>16. CASE NotifyAndRethrow BY <1>16 DEF NotifyAndRethrow
<1> QED
  BY <1>1, <1>2, <1>3, <1>4, <1>5, <1>6, <1>7, <1>8, <1>9,
     <1>10, <1>11, <1>12, <1>13, <1>14, <1>15, <1>16 DEF MainStep

\* So does every step of the UI thread, of the reader and of the environment.
LEMMA OthersKeepInStep ==
  ASSUME TypeOK, InStep,
         UiStep \/ ReaderStep \/ Signal \/ FrameArrives \/ Done
  PROVE  InStep'
<1> mainPc \in MainPcs BY DEF TypeOK
<1> USE DEF MainPcs, InStep, ObjFollowsMain, ThreadsFollowMain, BeforeUi,
        BeforeReader, AfterDtor, FlagBeforeLeaving, TimerFollowsMain,
        UpdateStaysArmed, threadVars, objVars, iocVars,
        screenVars, sockVars
<1>1. CASE UiEnterLoop BY <1>1 DEF UiEnterLoop
<1>2. CASE MenuExit BY <1>2 DEF MenuExit
<1>3. CASE LoopSignal BY <1>3 DEF LoopSignal
<1>4. CASE LoopReturns BY <1>4 DEF LoopReturns
<1>5. CASE ExitFlag BY <1>5 DEF ExitFlag
<1>6. CASE ExitQuit BY <1>6 DEF ExitQuit
<1>7. CASE ExitStop BY <1>7 DEF ExitStop
<1>8. CASE ReaderTest BY <1>8 DEF ReaderTest, ReaderGoes
<1>9. CASE ReaderReceive BY <1>9 DEF ReaderReceive, ReaderGoes
<1>10. CASE ReaderTimeout BY <1>10 DEF ReaderTimeout, ReaderGoes
<1>11. CASE ReaderError BY <1>11 DEF ReaderError, ReaderGoes
<1>12. CASE ReaderProcess BY <1>12 DEF ReaderProcess, ReaderGoes
<1>13. CASE Signal BY <1>13 DEF Signal, InLoop
<1>14. CASE FrameArrives BY <1>14 DEF FrameArrives
<1>15. CASE Done BY <1>15 DEF Done, vars
<1> QED
  BY <1>1, <1>2, <1>3, <1>4, <1>5, <1>6, <1>7, <1>8, <1>9,
     <1>10, <1>11, <1>12, <1>13, <1>14, <1>15 DEF UiStep, ReaderStep

\* The inductive invariant is an invariant of the specification.
LEMMA IInvHolds == Spec => []IInv
<1>1. ASSUME IInv, UNCHANGED vars PROVE IInv'
  BY <1>1 DEF IInv, InStep, TypeOK, ObjFollowsMain, ThreadsFollowMain,
              FlagBeforeLeaving, TimerFollowsMain, UpdateStaysArmed, vars, threadVars, objVars, iocVars,
              screenVars, sockVars
<1>2. IInv /\ [Next]_vars => IInv'
  BY <1>1, MainKeepsTypes, OthersKeepTypes, MainKeepsInStep,
     OthersKeepInStep DEF Next, IInv
<1> QED
  BY <1>2, InitIInv, PTL DEF Spec
-----------------------------------------------------------------------------
\* Every variable stays in its type.
THEOREM TypeCorrect == Spec => []TypeOK
<1>1. IInv => TypeOK BY DEF IInv
<1> QED BY <1>1, IInvHolds, PTL

\* No thread ever runs on an object that is not yet there or already gone.
THEOREM ThreadsUseLiveObject == Spec => []NoUseAfterDestroy
<1>1. IInv => NoUseAfterDestroy
  BY DEF IInv, InStep, TypeOK, MainPcs, ObjFollowsMain, ThreadsFollowMain, BeforeUi,
         BeforeReader, AfterDtor, NoUseAfterDestroy, UiLive, ReaderLive
<1> QED BY <1>1, IInvHolds, PTL

\* A loop that runs and was not stopped has its next update armed.
THEOREM LoopKeepsTimer == Spec => []UpdateStaysArmed
<1>1. IInv => UpdateStaysArmed BY DEF IInv, InStep, TimerFollowsMain
<1> QED BY <1>1, IInvHolds, PTL

-----------------------------------------------------------------------------
(* The refinement: each step is a step of the abstract owner or a stutter. *)

\* A step that leaves the main thread in its phase, exit_ alone and no thread
\* starting or ending is a stutter of the owner.
LEMMA OwnerStutters ==
  ASSUME OwnerPhase' = OwnerPhase, exit_' = exit_,
         WorkerState(uiPc)' = WorkerState(uiPc),
         WorkerState(readerPc)' = WorkerState(readerPc)
  PROVE  UNCHANGED Owner!abstractVars
BY DEF Owner!abstractVars

\* The steps of the main thread.
LEMMA MainRefines ==
  ASSUME IInv, IInv', MainStep
  PROVE  Owner!Next \/ UNCHANGED Owner!abstractVars
<1> /\ TypeOK /\ ObjFollowsMain /\ ThreadsFollowMain /\ FlagBeforeLeaving
    /\ TypeOK' /\ ObjFollowsMain'
  BY DEF IInv, InStep
<1> USE DEF MainGoes, ObjFollowsMain, AfterDtor, objVars, TypeOK
<1>1. CASE Construct
  <2>1. Owner!Open BY <1>1 DEF Construct, Owner!Open, OwnerPhase
  <2> QED BY <2>1 DEF Owner!Next
<1>2. CASE ConstructThrows
  <2>1. Owner!Abandon
    BY <1>2 DEF ConstructThrows, Owner!Abandon, OwnerPhase
  <2> QED BY <2>1 DEF Owner!Next
<1>3. CASE SpawnUi
  <2>1. uiPc = "none" BY <1>3 DEF SpawnUi, ThreadsFollowMain, BeforeUi
  <2>2. Owner!Start("ui")
    BY <1>3, <2>1 DEF SpawnUi, Owner!Start, OwnerPhase, WorkerState
  <2> QED BY <2>2 DEF Owner!Next
<1>4. CASE SpawnReader
  <2>1. readerPc = "none"
    BY <1>4 DEF SpawnReader, ThreadsFollowMain, BeforeUi, BeforeReader
  <2>2. Owner!Start("reader")
    BY <1>4, <2>1 DEF SpawnReader, Owner!Start, OwnerPhase, WorkerState
  <2> QED BY <2>2 DEF Owner!Next
<1>5. CASE SpawnThrows \/ RunReturns
  <2>1. Owner!Stop
    BY <1>5 DEF SpawnThrows, RunReturns, Owner!Stop, OwnerPhase
  <2> QED BY <2>1 DEF Owner!Next
<1>6. CASE DtorFlag
  <2>1. Owner!Ask BY <1>6 DEF DtorFlag, Owner!Ask, OwnerPhase
  <2> QED BY <2>1 DEF Owner!Next
<1>7. CASE JoinUi
  <2>1. readerPc \in {"none", "ended"} /\ uiPc \in {"none", "ended"} /\ exit_
    BY <1>7 DEF JoinUi, ThreadsFollowMain, FlagBeforeLeaving
  <2>2. Owner!Release
    BY <1>7, <2>1 DEF JoinUi, Owner!Release, OwnerPhase, WorkerState
  <2> QED BY <2>2 DEF Owner!Next
<1>8. CASE AttachSignals \/ StartTimer
  BY <1>8, OwnerStutters DEF AttachSignals, StartTimer, OwnerPhase
<1>9. CASE HandleSignal \/ UpdateError \/ UpdateBegin \/ UpdateRearm
  BY <1>9, OwnerStutters
     DEF HandleSignal, UpdateError, UpdateBegin, UpdateRearm, OwnerPhase
<1>10. CASE JoinReader \/ NotifyAndRethrow
  BY <1>10, OwnerStutters DEF JoinReader, NotifyAndRethrow, OwnerPhase
<1> QED
  BY <1>1, <1>2, <1>3, <1>4, <1>5, <1>6, <1>7, <1>8, <1>9, <1>10
     DEF MainStep

\* The steps of the two threads and of the environment.
LEMMA OthersRefine ==
  ASSUME IInv, IInv', UiStep \/ ReaderStep \/ Signal \/ FrameArrives \/ Done
  PROVE  Owner!Next \/ UNCHANGED Owner!abstractVars
<1> /\ TypeOK /\ ObjFollowsMain /\ ThreadsFollowMain /\ FlagBeforeLeaving
  BY DEF IInv, InStep
<1> USE DEF objVars
<1>1. CASE UiEnterLoop \/ MenuExit \/ LoopSignal \/ LoopReturns \/ ExitQuit
  BY <1>1, OwnerStutters
     DEF UiEnterLoop, MenuExit, LoopSignal, LoopReturns, ExitQuit,
         OwnerPhase, WorkerState, threadVars
<1>2. CASE ExitFlag
  <2>1. OwnerPhase \in {"up", "stopping"}
    BY <1>2 DEF ExitFlag, OwnerPhase, ObjFollowsMain, ThreadsFollowMain,
                BeforeUi, AfterDtor, TypeOK, MainPcs
  <2>2. Owner!Ask
    BY <1>2, <2>1 DEF ExitFlag, Owner!Ask, OwnerPhase, WorkerState
  <2> QED BY <2>2 DEF Owner!Next
<1>3. CASE ExitStop
  <2>1. CASE exitCaller = "menu"
    BY <1>3, <2>1, OwnerStutters DEF ExitStop, OwnerPhase, WorkerState
  <2>2. CASE exitCaller # "menu"
    <3>1. Owner!Leave("ui")
      BY <1>3, <2>2 DEF ExitStop, Owner!Leave, OwnerPhase, WorkerState,
                        FlagBeforeLeaving
    <3> QED BY <3>1 DEF Owner!Next
  <2> QED BY <2>1, <2>2
<1>4. CASE ReaderTest
  <2>1. CASE exit_
    <3>1. Owner!Leave("reader")
      BY <1>4, <2>1 DEF ReaderTest, ReaderGoes, Owner!Leave, OwnerPhase,
                        WorkerState
    <3> QED BY <3>1 DEF Owner!Next
  <2>2. CASE ~exit_
    BY <1>4, <2>2, OwnerStutters
       DEF ReaderTest, ReaderGoes, OwnerPhase, WorkerState
  <2> QED BY <2>1, <2>2
<1>5. CASE ReaderReceive \/ ReaderTimeout \/ ReaderError \/ ReaderProcess
  BY <1>5, OwnerStutters
     DEF ReaderReceive, ReaderTimeout, ReaderError, ReaderProcess,
         ReaderGoes, OwnerPhase, WorkerState
<1>6. CASE Signal \/ FrameArrives \/ Done
  BY <1>6, OwnerStutters
     DEF Signal, FrameArrives, Done, vars, threadVars, OwnerPhase
<1> QED
  BY <1>1, <1>2, <1>3, <1>4, <1>5, <1>6 DEF UiStep, ReaderStep

\* ExampleApp implements the abstract owner: its threads start once, leave
\* only after exit_ was raised, and its members go only after both left.
THEOREM ImplementsOwner == Spec => OwnerSpec
<1>1. Init => Owner!Init
  BY DEF Init, Owner!Init, OwnerPhase, WorkerState
<1>2. ASSUME UNCHANGED vars PROVE UNCHANGED Owner!abstractVars
  BY <1>2, OwnerStutters
     DEF vars, threadVars, objVars, OwnerPhase, WorkerState
<1>3. IInv /\ IInv' /\ [Next]_vars => [Owner!Next]_Owner!abstractVars
  BY <1>2, MainRefines, OthersRefine DEF Next
<1> QED
  BY <1>1, <1>3, IInvHolds, PTL DEF Spec, OwnerSpec, Owner!Spec
=============================================================================
