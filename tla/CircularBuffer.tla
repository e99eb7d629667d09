-------------------------- MODULE CircularBuffer --------------------------
(***************************************************************************)
(* BlockingReaderWriterCircularBuffer: a ring of slots between one         *)
(* producer and one consumer thread, with a LightweightSemaphore for each  *)
(* of them to wait on: slots_ counts free slots, items counts elements.    *)
(*                                                                         *)
(* A semaphore is known here by the thread that waits on it: count         *)
(* ["producer"] is the m_count of slots_, count["consumer"] that of items. *)
(* A count goes below zero when the waiter has announced that it sleeps;   *)
(* whoever then raises it must post the kernel's semaphore, in a second    *)
(* step.  A waiter whose time is up takes its announcement back, unless    *)
(* the other thread was faster.                                            *)
(*                                                                         *)
(* One action is one access to a count or to a kernel semaphore, or the    *)
(* thread's work on its own slot.  Between tryWait's load and its          *)
(* fetch_add only the other thread's additions fall, so they are one step. *)
(***************************************************************************)
EXTENDS Integers, Sequences

CONSTANTS
  Capacity,  \* the constructor's argument
  Wrap,      \* size_t counts modulo Wrap
  Values,    \* elements
  Raw,       \* a slot without an element
  None       \* the consumer has received nothing

Threads == {"producer", "consumer"}
Other(t) == IF t = "producer" THEN "consumer" ELSE "producer"

\* mask + 1: the capacity rounded up to a power of two.
Slots == CHOOSE n \in {2 ^ k : k \in 0 .. Capacity} :
           n >= Capacity /\ \A k \in 0 .. Capacity : 2 ^ k >= Capacity => n <= 2 ^ k

ASSUME CircularConstants ==
  /\ Capacity \in Nat \ {0}
  /\ Wrap \in Nat /\ Wrap > Capacity
  /\ Raw \notin Values /\ None \notin Values

\* Rounding gives a ring long enough, and both its length and the range of
\* size_t are powers of two: masks survive the wrap.
ASSUME MaskSurvivesWrap ==
  Slots \in Nat /\ Slots >= Capacity /\ Wrap % Slots = 0

VARIABLES
  pc,        \* where each thread is
  mode,      \* the kind of call each thread makes: "try", "wait", "timed"
  count,     \* m_count of each semaphore, by its waiter
  kernel,    \* m_sema of each semaphore, by its waiter
  data,      \* the ring
  nextSlot,  \* the producer's index
  nextItem,  \* the consumer's index
  item       \* what the consumer received last

callVars == <<pc, mode>>
ringVars == <<data, nextSlot, nextItem, item>>
vars == <<callVars, count, kernel, ringVars>>

Pcs == {"idle", "acquire", "sleep", "restore", "retake", "retry", "have",
        "signal", "post", "gone"}
Modes == {"try", "wait", "timed"}

Ring == 0 .. Slots - 1
At(i) == i % Slots
Next1(i) == IF i + 1 = Wrap THEN 0 ELSE i + 1

\* The elements constructed and not moved out yet.
Size == IF nextSlot >= nextItem THEN nextSlot - nextItem
                                ELSE nextSlot + Wrap - nextItem

\* A plausible mistake: slots_ starts with the ring's length and not with the
\* capacity that was asked for.
Init_RoundedUp ==
  /\ pc = [t \in Threads |-> "idle"]
  /\ mode = [t \in Threads |-> "try"]
  /\ count = [t \in Threads |-> IF t = "producer" THEN Slots ELSE 0]
  /\ kernel = [t \in Threads |-> 0]
  /\ data = [s \in Ring |-> Raw]
  /\ nextSlot = 0 /\ nextItem = 0
  /\ item = None

Init ==
  /\ pc = [t \in Threads |-> "idle"]
  /\ mode = [t \in Threads |-> "try"]
  /\ count = [t \in Threads |-> IF t = "producer" THEN Capacity ELSE 0]
  /\ kernel = [t \in Threads |-> 0]
  /\ data = [s \in Ring |-> Raw]
  /\ nextSlot = 0 /\ nextItem = 0
  /\ item = None

Goes(t, from, to) == pc[t] = from /\ pc' = [pc EXCEPT ![t] = to]
AddCount(t, n) == count' = [count EXCEPT ![t] = @ + n]

-----------------------------------------------------------------------------
(* Plausible mistakes, each named for the definition it would change.  They *)
(* are part of no specification; the run must tell the program from them.   *)

\* The timed-out waiter leaves although it has been signalled.
Restore_Leaves(t) ==
  /\ Goes(t, "restore", "idle")
  /\ AddCount(t, 1)
  /\ UNCHANGED <<mode, kernel, ringVars>>

\* A waiter is woken only when more than one thread waits.
Signal_NoWake(t) ==
  /\ Goes(t, "signal", IF count[Other(t)] < -1 THEN "post" ELSE "idle")
  /\ AddCount(Other(t), 1)
  /\ UNCHANGED <<mode, kernel, ringVars>>

-----------------------------------------------------------------------------
(* LightweightSemaphore, as the thread t that waits on it.                 *)

\* try_..., wait_... or wait_..._timed is called.
Call(t) ==
  /\ Goes(t, "idle", "acquire")
  /\ \E m \in Modes : mode' = [mode EXCEPT ![t] = m]
  /\ UNCHANGED <<count, kernel, ringVars>>

\* tryWait, the spinning loop, or the first fetch_add after it find a permit.
Take(t) ==
  /\ Goes(t, "acquire", "have")
  /\ count[t] > 0
  /\ AddCount(t, -1)
  /\ UNCHANGED <<mode, kernel, ringVars>>

\* tryWait finds none.
Refuse(t) ==
  /\ Goes(t, "acquire", "idle")
  /\ mode[t] = "try" /\ count[t] <= 0
  /\ UNCHANGED <<mode, count, kernel, ringVars>>

\* After spinning the waiter lowers the count below zero.
Announce(t) ==
  /\ Goes(t, "acquire", "sleep")
  /\ mode[t] # "try" /\ count[t] <= 0
  /\ AddCount(t, -1)
  /\ UNCHANGED <<mode, kernel, ringVars>>

\* sem_wait, sem_timedwait and sem_trywait with a permit; all three are
\* repeated when a signal interrupts them.
KernelTake(t) == kernel[t] > 0 /\ kernel' = [kernel EXCEPT ![t] = @ - 1]

Wake(t) ==
  /\ Goes(t, "sleep", "have")
  /\ KernelTake(t)
  /\ UNCHANGED <<mode, count, ringVars>>

\* sem_timedwait gives up, or the timeout was zero.
TimeOut(t) ==
  /\ Goes(t, "sleep", "restore")
  /\ mode[t] = "timed"
  /\ UNCHANGED <<mode, count, kernel, ringVars>>

\* The announcement is taken back, or the count shows that the other thread
\* has answered it.
Restore(t) ==
  /\ Goes(t, "restore", IF count[t] < 0 THEN "idle" ELSE "retake")
  /\ AddCount(t, 1)
  /\ UNCHANGED <<mode, kernel, ringVars>>

Retake(t) ==
  /\ Goes(t, "retake", IF count[t] > 0 THEN "retry" ELSE "restore")
  /\ AddCount(t, -1)
  /\ UNCHANGED <<mode, kernel, ringVars>>

\* The other thread may not have posted yet: then everything is repeated.
Retry(t) ==
  /\ \/ Goes(t, "retry", "have") /\ KernelTake(t)
     \/ Goes(t, "retry", "restore") /\ kernel[t] = 0 /\ UNCHANGED kernel
  /\ UNCHANGED <<mode, count, ringVars>>

\* signal: the count is raised; a waiter that had announced itself is woken
\* by a post.
Signal(t) ==
  /\ Goes(t, "signal", IF count[Other(t)] < 0 THEN "post" ELSE "idle")
  /\ AddCount(Other(t), 1)
  /\ UNCHANGED <<mode, kernel, ringVars>>

Post(t) ==
  /\ Goes(t, "post", "idle")
  /\ kernel' = [kernel EXCEPT ![Other(t)] = @ + 1]
  /\ UNCHANGED <<mode, count, ringVars>>

-----------------------------------------------------------------------------
(* The ring, each end touched by its own thread only.                      *)

\* inner_enqueue up to the signal.
Construct ==
  \E v \in Values :
    /\ Goes("producer", "have", "signal")
    /\ data' = [data EXCEPT ![At(nextSlot)] = v]
    /\ nextSlot' = Next1(nextSlot)
    /\ UNCHANGED <<mode, count, kernel, nextItem, item>>

\* inner_dequeue up to the signal: move out, destroy.
MoveOut ==
  /\ Goes("consumer", "have", "signal")
  /\ item' = data[At(nextItem)]
  /\ data' = [data EXCEPT ![At(nextItem)] = Raw]
  /\ nextItem' = Next1(nextItem)
  /\ UNCHANGED <<mode, count, kernel, nextSlot>>

\* The destructor, which nobody may race with: it destroys as many elements
\* as the semaphore counts.
Destroy ==
  /\ \A t \in Threads : pc[t] = "idle"
  /\ pc' = [t \in Threads |-> "gone"]
  /\ LET left == {At(nextItem + k) : k \in 0 .. count["consumer"] - 1}
     IN  data' = [s \in Ring |-> IF s \in left THEN Raw ELSE data[s]]
  /\ nextItem' = nextSlot
  /\ UNCHANGED <<mode, count, kernel, nextSlot, item>>

Done == pc["producer"] = "gone" /\ UNCHANGED vars

Step(t) ==
  \/ Take(t) \/ Refuse(t) \/ Announce(t) \/ Wake(t) \/ TimeOut(t)
  \/ Restore(t) \/ Retake(t) \/ Retry(t) \/ Signal(t) \/ Post(t)

Next ==
  \/ \E t \in Threads : Call(t) \/ Step(t)
  \/ Construct \/ MoveOut \/ Destroy \/ Done

\* A thread inside a call goes on with it; a waiter's time is never said to
\* be up.  Nobody has to make a call.
Fairness ==
  /\ WF_vars(Construct) /\ WF_vars(MoveOut)
  /\ \A t \in Threads : WF_vars(Step(t) /\ ~TimeOut(t))

Spec == Init /\ [][Next]_vars
FairSpec == Spec /\ Fairness
-----------------------------------------------------------------------------
(* Properties.                                                             *)

TypeOK ==
  /\ pc \in [Threads -> Pcs] /\ mode \in [Threads -> Modes]
  /\ count \in [Threads -> Int] /\ kernel \in [Threads -> Nat]
  /\ data \in [Ring -> Values \cup {Raw}]
  /\ nextSlot \in 0 .. Wrap - 1 /\ nextItem \in 0 .. Wrap - 1
  /\ item \in Values \cup {Raw, None}

\* One if t is at one of the places p.
Here(t, p) == IF pc[t] \in p THEN 1 ELSE 0

\* What t waits for: free slots or elements, and how many of them have been
\* signalled.
There(t) == IF t = "producer" THEN Capacity - Size ELSE Size
Signalled(t) == There(t) - Here(Other(t), {"signal"})

\* The permits of t's semaphore: at every moment each is counted, taken, or
\* on its way through the kernel to a waiter whose announcement was answered.
\* signal() asserts that it finds no count below -1.
PermitsOf(t) ==
  /\ count[t] = Signalled(t) - Here(t, {"sleep", "restore", "retry", "have"})
  /\ count[t] >= Here(t, {"retake"}) - Here(t, {"sleep", "restore", "retry"})
  /\ kernel[t] + Here(Other(t), {"post"})
       = IF pc[t] = "retake" \/ (pc[t] \in {"sleep", "restore", "retry"}
                                 /\ count[t] >= 0) THEN 1 ELSE 0

PermitsMatch ==
  /\ pc["producer"] = "gone" <=> pc["consumer"] = "gone"
  /\ pc["producer"] = "gone" => Size = 0
  /\ \A t \in Threads : pc[t] # "gone" => PermitsOf(t)

\* However the threads' waits, timeouts and signals fall, a permit to
\* construct means room for one more, a permit to move out an element.
NeverOverfull ==
  /\ Size <= Capacity
  /\ pc["producer"] = "have" => Size < Capacity
  /\ pc["consumer"] = "have" => Size > 0

PermitsInv == TypeOK /\ PermitsMatch /\ NeverOverfull

\* Each thread works on a slot that is its own: the producer constructs in a
\* free one, the consumer moves out of a constructed one, and the destructor
\* leaves none behind.  peek() trusts the count, so it must never be positive
\* without an element.
SlotsInv ==
  /\ pc["producer"] = "have" => data[At(nextSlot)] = Raw
  /\ pc["consumer"] = "have" => data[At(nextItem)] # Raw
  /\ pc["consumer"] = "idle" /\ count["consumer"] > 0
       => data[At(nextItem)] # Raw
  /\ pc["producer"] = "gone" => \A s \in Ring : data[s] = Raw

Fifo == INSTANCE BoundedFifo WITH
          queue <- [k \in 1 .. Size |-> data[At(nextItem + k - 1)]]

\* The ring implements the bounded queue: nothing is overwritten, lost,
\* received twice or out of order.
FifoSpec == Fifo!Spec

\* No wakeup is lost: a thread asleep without a time limit gets its permit
\* once there is one, and one whose time was up gets out of the retry loop.
WaitEnds ==
  \A t \in Threads :
    (\/ pc[t] = "sleep" /\ mode[t] = "wait" /\ Signalled(t) > 0
     \/ pc[t] \in {"restore", "retake", "retry"})
       ~> pc[t] \in {"idle", "have"}
=============================================================================
