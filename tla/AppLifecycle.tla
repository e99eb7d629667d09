---------------------------- MODULE AppLifecycle ----------------------------
(***************************************************************************)
(* The life of ExampleApp: constructed by main(), run() on the main thread *)
(* with a terminal UI thread and a frame reader thread beside it, stopped  *)
(* by the UI or by a signal, torn down by the destructor that joins both   *)
(* threads.                                                                *)
(*                                                                         *)
(* One action is one step of one thread between two accesses to the state  *)
(* the threads share: exit_, the io_context, the screen, the thread        *)
(* objects and the ExampleApp object itself.  boost::asio, FTXUI, spdlog   *)
(* and the socket are external and modelled by what the code relies on.    *)
(***************************************************************************)
EXTENDS Naturals

CONSTANTS
  MaxSignals,  \* bound: caught signals asio has not handed over yet
  MaxFrames    \* bound: frames waiting in the packet socket

ASSUME LifecycleConstants ==
  /\ MaxSignals \in Nat
  /\ MaxFrames \in Nat

VARIABLES
  mainPc,       \* where the main thread is
  uiPc,         \* where ftxui_thread_ is
  readerPc,     \* where reader_thread_ is
  exitCaller,   \* who called exit(): the menu, or the UI thread after Loop
  obj,          \* the ExampleApp object: "none", "alive", "destroyed"
  logger,       \* default spdlog logger: "console", or "app" with the sink
                \* that refers to the object's log_buffer_
  logLost,      \* a message went to the sink of a destroyed object
  unwinding,    \* run() is being left by an exception
  exit_,        \* ExampleApp::exit_
  stopped,      \* _ioc.stop() was called
  signalWait,   \* _signals.async_wait is outstanding
  timerWait,    \* _update_timer.async_wait is outstanding
  asioSignals,  \* signals caught for _signals, not handed over
  screenSignal, \* a signal caught by the screen loop
  quit,         \* the screen loop was told to end
  rcvTimeo,     \* the socket accepted SO_RCVTIMEO
  rxFrames      \* frames waiting in the socket

threadVars == <<mainPc, uiPc, readerPc, exitCaller>>
objVars    == <<obj, logger, logLost, unwinding>>
iocVars    == <<stopped, signalWait, timerWait, asioSignals>>
screenVars == <<screenSignal, quit>>
sockVars   == <<rcvTimeo, rxFrames>>
vars == <<threadVars, objVars, exit_, iocVars, screenVars, sockVars>>

MainPcs == {"construct", "signals", "timer", "spawnUi", "spawnReader", "run",
            "update", "dtor", "joinReader", "joinUi", "catch", "returned",
            "rethrown"}
UiPcs == {"none", "start", "loop", "exitFlag", "exitQuit", "exitStop", "ended"}
ReaderPcs == {"none", "test", "recv", "process", "ended"}

Terminated == mainPc \in {"returned", "rethrown"}

Init ==
  /\ mainPc = "construct" /\ uiPc = "none" /\ readerPc = "none"
  /\ exitCaller = "menu"
  /\ obj = "none" /\ logger = "console"
  /\ logLost = FALSE /\ unwinding = FALSE
  /\ exit_ = FALSE
  /\ stopped = FALSE /\ signalWait = FALSE /\ timerWait = FALSE
  /\ asioSignals = 0
  /\ screenSignal = FALSE /\ quit = FALSE
  /\ rcvTimeo = FALSE /\ rxFrames = 0

-----------------------------------------------------------------------------
(* Plausible mistakes in the code, each named for the action it would      *)
(* change.  They are part of no specification; the runs must tell the      *)
(* program from them.                                                      *)

\* The event loop takes a signal nobody sent.
HandleSignal_Spurious ==
  /\ mainPc = "run" /\ mainPc' = "run"
  /\ ~stopped /\ signalWait
  /\ signalWait' = FALSE
  /\ asioSignals' = asioSignals - 1
  /\ stopped' = TRUE
  /\ UNCHANGED <<uiPc, readerPc, exitCaller, objVars, exit_, timerWait,
                 screenVars, sockVars>>

\* update_handler forgets to wait for the timer again.
UpdateRearm_Forgotten ==
  /\ mainPc = "update" /\ mainPc' = "run"
  /\ UNCHANGED <<uiPc, readerPc, exitCaller, objVars, exit_, iocVars,
                 screenVars, sockVars>>

\* The destructor does not raise exit_.
DtorFlag_Forgotten ==
  /\ mainPc = "dtor" /\ mainPc' = "joinReader"
  /\ UNCHANGED <<uiPc, readerPc, exitCaller, objVars, exit_, iocVars,
                 screenVars, sockVars>>

\* The destructor does not wait for the reader.
JoinReader_Detached ==
  /\ mainPc = "joinReader" /\ mainPc' = "joinUi"
  /\ UNCHANGED <<uiPc, readerPc, exitCaller, objVars, exit_, iocVars,
                 screenVars, sockVars>>

\* The UI thread ends when the screen loop does, without calling exit().
LoopReturns_NoExit ==
  /\ uiPc = "loop" /\ quit
  /\ uiPc' = "ended"
  /\ exitCaller' = "thread"
  /\ UNCHANGED <<mainPc, readerPc, objVars, exit_, iocVars, screenVars,
                 sockVars>>

\* exit() does not stop the io_context.
ExitStop_Forgotten ==
  /\ uiPc = "exitStop"
  /\ uiPc' = IF exitCaller = "menu" THEN "loop" ELSE "ended"
  /\ UNCHANGED <<mainPc, readerPc, exitCaller, objVars, exit_, iocVars,
                 screenVars, sockVars>>

-----------------------------------------------------------------------------
(* The main thread: main() and ExampleApp::run().                          *)

MainGoes(from, to) == mainPc = from /\ mainPc' = to

\* The constructor makes the application's logger the default one, then
\* checks its arguments and creates the node.  A failing setsockopt is only
\* reported: the socket is then used without a receive timeout.
Construct ==
  /\ MainGoes("construct", "signals")
  /\ obj' = "alive"
  /\ logger' = "app"
  /\ rcvTimeo' \in BOOLEAN
  /\ UNCHANGED <<uiPc, readerPc, exitCaller, logLost, unwinding, exit_,
                 iocVars, screenVars, rxFrames>>

\* An argument is rejected, or the socket can not be set up: the members
\* built so far are destroyed and the exception reaches main().
ConstructThrows ==
  /\ MainGoes("construct", "catch")
  /\ obj' = "destroyed"
  /\ logger' = "app"
  /\ UNCHANGED <<uiPc, readerPc, exitCaller, logLost, unwinding, exit_,
                 iocVars, screenVars, sockVars>>

AttachSignals ==
  /\ MainGoes("signals", "timer")
  /\ signalWait' = TRUE
  /\ UNCHANGED <<uiPc, readerPc, exitCaller, objVars, exit_, stopped,
                 timerWait, asioSignals, screenVars, sockVars>>

StartTimer ==
  /\ MainGoes("timer", "spawnUi")
  /\ timerWait' = TRUE
  /\ UNCHANGED <<uiPc, readerPc, exitCaller, objVars, exit_, stopped,
                 signalWait, asioSignals, screenVars, sockVars>>

SpawnUi ==
  /\ MainGoes("spawnUi", "spawnReader")
  /\ uiPc' = "start"
  /\ UNCHANGED <<readerPc, exitCaller, objVars, exit_, iocVars, screenVars,
                 sockVars>>

SpawnReader ==
  /\ MainGoes("spawnReader", "run")
  /\ readerPc' = "test"
  /\ UNCHANGED <<uiPc, exitCaller, objVars, exit_, iocVars, screenVars,
                 sockVars>>

\* std::thread throws when the system has no thread to give: run() unwinds
\* into the destructor, which joins what was started.
SpawnThrows ==
  /\ mainPc \in {"spawnUi", "spawnReader"}
  /\ mainPc' = "dtor"
  /\ unwinding' = TRUE
  /\ UNCHANGED <<uiPc, readerPc, exitCaller, obj, logger, logLost, exit_,
                 iocVars, screenVars, sockVars>>

\* handle_signal: whatever the error code says, the event loop is stopped;
\* neither exit_ nor the screen is told.
HandleSignal ==
  /\ MainGoes("run", "run")
  /\ ~stopped /\ signalWait /\ asioSignals > 0
  /\ signalWait' = FALSE
  /\ asioSignals' = asioSignals - 1
  /\ stopped' = TRUE
  /\ UNCHANGED <<uiPc, readerPc, exitCaller, objVars, exit_, timerWait,
                 screenVars, sockVars>>

\* update_handler with an error: the loop is stopped, the timer not re-armed.
UpdateError ==
  /\ MainGoes("run", "run")
  /\ ~stopped /\ timerWait
  /\ timerWait' = FALSE
  /\ stopped' = TRUE
  /\ UNCHANGED <<uiPc, readerPc, exitCaller, objVars, exit_, signalWait,
                 asioSignals, screenVars, sockVars>>

\* update_handler without an error: update() runs ...
UpdateBegin ==
  /\ MainGoes("run", "update")
  /\ ~stopped /\ timerWait
  /\ timerWait' = FALSE
  /\ UNCHANGED <<uiPc, readerPc, exitCaller, objVars, exit_, stopped,
                 signalWait, asioSignals, screenVars, sockVars>>

\* ... and the timer is re-armed, also when the loop was stopped meanwhile.
UpdateRearm ==
  /\ MainGoes("update", "run")
  /\ timerWait' = TRUE
  /\ UNCHANGED <<uiPc, readerPc, exitCaller, objVars, exit_, stopped,
                 signalWait, asioSignals, screenVars, sockVars>>

\* io_context::run returns when stopped, or when nothing is left to wait for.
RunReturns ==
  /\ MainGoes("run", "dtor")
  /\ stopped \/ (~signalWait /\ ~timerWait)
  /\ UNCHANGED <<uiPc, readerPc, exitCaller, objVars, exit_, iocVars,
                 screenVars, sockVars>>

-----------------------------------------------------------------------------
(* The main thread: ~ExampleApp() and the end of main().                   *)

DtorFlag ==
  /\ MainGoes("dtor", "joinReader")
  /\ exit_' = TRUE
  /\ UNCHANGED <<uiPc, readerPc, exitCaller, objVars, iocVars, screenVars,
                 sockVars>>

JoinReader ==
  /\ MainGoes("joinReader", "joinUi")
  /\ readerPc \in {"none", "ended"}
  /\ UNCHANGED <<uiPc, readerPc, exitCaller, objVars, exit_, iocVars,
                 screenVars, sockVars>>

JoinUi ==
  /\ mainPc = "joinUi"
  /\ uiPc \in {"none", "ended"}
  /\ mainPc' = IF unwinding THEN "catch" ELSE "returned"
  /\ obj' = "destroyed"
  /\ UNCHANGED <<uiPc, readerPc, exitCaller, logger, logLost, unwinding,
                 exit_, iocVars, screenVars, sockVars>>

\* catch( const std::exception& ): the message goes to the default logger.
NotifyAndRethrow ==
  /\ MainGoes("catch", "rethrown")
  /\ logLost' = (logger = "app" /\ obj = "destroyed")
  /\ UNCHANGED <<uiPc, readerPc, exitCaller, obj, logger, unwinding, exit_,
                 iocVars, screenVars, sockVars>>

-----------------------------------------------------------------------------
(* ftxui_thread_: screen_.Loop(layout_), then exit().                      *)

InLoop ==
  \/ uiPc = "loop"
  \/ uiPc \in {"exitFlag", "exitQuit", "exitStop"} /\ exitCaller = "menu"

UiEnterLoop ==
  /\ uiPc = "start"
  /\ uiPc' = "loop"
  /\ UNCHANGED <<mainPc, readerPc, exitCaller, objVars, exit_, iocVars,
                 screenVars, sockVars>>

\* The user selects "Exit": the menu calls exit() inside the loop.
MenuExit ==
  /\ uiPc = "loop"
  /\ uiPc' = "exitFlag"
  /\ exitCaller' = "menu"
  /\ UNCHANGED <<mainPc, readerPc, objVars, exit_, iocVars, screenVars,
                 sockVars>>

LoopSignal ==
  /\ uiPc = "loop" /\ screenSignal
  /\ screenSignal' = FALSE
  /\ quit' = TRUE
  /\ UNCHANGED <<threadVars, objVars, exit_, iocVars, sockVars>>

LoopReturns ==
  /\ uiPc = "loop" /\ quit
  /\ uiPc' = "exitFlag"
  /\ exitCaller' = "thread"
  /\ UNCHANGED <<mainPc, readerPc, objVars, exit_, iocVars, screenVars,
                 sockVars>>

ExitFlag ==
  /\ uiPc = "exitFlag"
  /\ uiPc' = "exitQuit"
  /\ exit_' = TRUE
  /\ UNCHANGED <<mainPc, readerPc, exitCaller, objVars, iocVars, screenVars,
                 sockVars>>

ExitQuit ==
  /\ uiPc = "exitQuit"
  /\ uiPc' = "exitStop"
  /\ quit' = TRUE
  /\ UNCHANGED <<mainPc, readerPc, exitCaller, objVars, exit_, iocVars,
                 screenSignal, sockVars>>

ExitStop ==
  /\ uiPc = "exitStop"
  /\ uiPc' = IF exitCaller = "menu" THEN "loop" ELSE "ended"
  /\ stopped' = TRUE
  /\ UNCHANGED <<mainPc, readerPc, exitCaller, objVars, exit_, signalWait,
                 timerWait, asioSignals, screenVars, sockVars>>

-----------------------------------------------------------------------------
(* reader_thread_: while (!exit_) read_frame, process_frame.               *)

ReaderGoes(from, to) ==
  /\ readerPc = from
  /\ readerPc' = to
  /\ UNCHANGED <<mainPc, uiPc, exitCaller, objVars, exit_, iocVars,
                 screenVars, rcvTimeo>>

ReaderTest ==
  /\ ReaderGoes("test", IF exit_ THEN "ended" ELSE "recv")
  /\ UNCHANGED rxFrames

ReaderReceive ==
  /\ ReaderGoes("recv", "process")
  /\ rxFrames > 0
  /\ rxFrames' = rxFrames - 1

\* recvfrom gives up after the receive timeout, if there is one.
ReaderTimeout ==
  /\ ReaderGoes("recv", "test")
  /\ rcvTimeo
  /\ UNCHANGED rxFrames

\* recvfrom fails at once: a signal interrupts it, or the link goes down.
ReaderError ==
  /\ ReaderGoes("recv", "test")
  /\ UNCHANGED rxFrames

ReaderProcess ==
  /\ ReaderGoes("process", "test")
  /\ UNCHANGED rxFrames

-----------------------------------------------------------------------------
(* The environment.                                                        *)

\* SIGINT or SIGTERM arrives while the object has its handlers installed: the
\* ones of _signals or, while screen_.Loop runs, those it may have put over them.
Signal ==
  /\ obj = "alive"
  /\ \/ InLoop /\ screenSignal' = TRUE /\ UNCHANGED asioSignals
     \/ /\ asioSignals < MaxSignals
        /\ asioSignals' = asioSignals + 1
        /\ UNCHANGED screenSignal
  /\ UNCHANGED <<threadVars, objVars, exit_, stopped, signalWait, timerWait,
                 quit, sockVars>>

FrameArrives ==
  /\ obj = "alive"
  /\ rxFrames < MaxFrames
  /\ rxFrames' = rxFrames + 1
  /\ UNCHANGED <<threadVars, objVars, exit_, iocVars, screenVars, rcvTimeo>>

\* The process has ended.
Done == Terminated /\ UNCHANGED vars

-----------------------------------------------------------------------------
MainStep ==
  \/ Construct \/ ConstructThrows \/ AttachSignals \/ StartTimer
  \/ SpawnUi \/ SpawnReader \/ SpawnThrows
  \/ HandleSignal \/ UpdateError \/ UpdateBegin \/ UpdateRearm \/ RunReturns
  \/ DtorFlag \/ JoinReader \/ JoinUi \/ NotifyAndRethrow

UiStep ==
  \/ UiEnterLoop \/ MenuExit \/ LoopSignal \/ LoopReturns
  \/ ExitFlag \/ ExitQuit \/ ExitStop

ReaderStep ==
  \/ ReaderTest \/ ReaderReceive \/ ReaderTimeout \/ ReaderError
  \/ ReaderProcess

Next == MainStep \/ UiStep \/ ReaderStep \/ Signal \/ FrameArrives \/ Done

\* Every thread that can take its next step eventually does; a ready signal
\* is handed over although timer ticks compete with it.  Nothing is assumed
\* of the user, of signals, of frames, or of calls that may fail.
Fairness ==
  /\ WF_vars(MainStep)
  /\ SF_vars(HandleSignal)
  /\ WF_vars(UiEnterLoop) /\ WF_vars(LoopSignal) /\ SF_vars(LoopReturns)
  /\ WF_vars(ExitFlag) /\ WF_vars(ExitQuit) /\ WF_vars(ExitStop)
  /\ WF_vars(ReaderTest) /\ WF_vars(ReaderReceive \/ ReaderTimeout)
  /\ WF_vars(ReaderProcess)

Spec == Init /\ [][Next]_vars
FairSpec == Spec /\ Fairness
-----------------------------------------------------------------------------
(* Properties.                                                             *)

TypeOK ==
  /\ mainPc \in MainPcs /\ uiPc \in UiPcs /\ readerPc \in ReaderPcs
  /\ exitCaller \in {"menu", "thread"}
  /\ obj \in {"none", "alive", "destroyed"}
  /\ logger \in {"console", "app"}
  /\ logLost \in BOOLEAN /\ unwinding \in BOOLEAN /\ exit_ \in BOOLEAN
  /\ stopped \in BOOLEAN /\ signalWait \in BOOLEAN /\ timerWait \in BOOLEAN
  /\ screenSignal \in BOOLEAN /\ quit \in BOOLEAN /\ rcvTimeo \in BOOLEAN
  /\ asioSignals \in 0 .. MaxSignals
  /\ rxFrames \in 0 .. MaxFrames

UiLive     == uiPc \notin {"none", "ended"}
ReaderLive == readerPc \notin {"none", "ended"}

\* Both threads use the object's members (screen, io_context, device, input
\* buffer, log buffer) without a lock or a reference count: neither may run
\* before the object is complete or after the destructor released it,
\* whichever of signal, menu, timer error and failed thread start came first.
NoUseAfterDestroy == UiLive \/ ReaderLive => obj = "alive"

\* A loop that nobody stopped always has its next update armed: heartbeats
\* and redraws never silently cease.
UpdateStaysArmed == mainPc = "run" /\ ~stopped => timerWait

\* The two threads as the workers of the abstract owner.
WorkerState(pc) ==
  CASE pc = "none" -> "absent" [] pc = "ended" -> "left" [] OTHER -> "live"
OwnerPhase ==
  CASE obj = "none"      -> "new"
    [] obj = "destroyed" -> "released"
    [] OTHER -> IF mainPc \in {"dtor", "joinReader", "joinUi"}
                  THEN "stopping" ELSE "up"

Owner == INSTANCE WorkerShutdown WITH
           Workers <- {"ui", "reader"},
           phase   <- OwnerPhase,
           worker  <- [w \in {"ui", "reader"} |->
                         WorkerState(IF w = "ui" THEN uiPc ELSE readerPc)],
           asked   <- exit_

\* ExampleApp is such an owner: each thread starts once, leaves only after
\* exit_ was raised, and the members go only after both left.
OwnerSpec == Owner!Spec

\* Selecting "Exit" ends the process: the flag, the loop and the event loop
\* are told in an order that leaves nobody waiting for anybody.  Needs the
\* receive timeout, without which a quiet network holds the reader forever.
ExitTerminates == (uiPc = "exitFlag" /\ rcvTimeo) ~> Terminated

\* However run() was left, the destructor gets past the reader thread.
RunEndJoinsReader == (mainPc = "dtor" /\ rcvTimeo) ~> mainPc = "joinUi"

\* A signal taken by the running screen loop ends the process.
ScreenSignalTerminates == (screenSignal /\ rcvTimeo) ~> Terminated

\* Once the signal handler run() attaches has handled a signal, the process
\* ends.  The handler stops the event loop only; the destructor then joins a
\* UI thread whose loop nobody told to end.
SignalTerminates ==
  (mainPc = "run" /\ stopped /\ ~signalWait /\ rcvTimeo) ~> Terminated

\* What the code does not keep: main() notifies of an unhandled exception
\* before it rethrows, but the message goes to a sink that no longer exists.
NotificationReachesSink == ~logLost
=============================================================================
