---------------------- MODULE BlockingConcurrentQueue ----------------------
(***************************************************************************)
(* BlockingConcurrentQueue: any number of producers and consumers, an      *)
(* inner ConcurrentQueue, and one LightweightSemaphore whose permits are   *)
(* elements of the inner queue that no consumer has a claim on.            *)
(*                                                                         *)
(* A consumer takes permits first and then redeems each for an element,    *)
(* spinning until the inner queue gives it one.  The inner queue is known  *)
(* here by how many elements it holds; that it gives one out while it has  *)
(* more than the other consumers can take is the promise of SubQueue.      *)
(*                                                                         *)
(* One action is one access to m_count, to the kernel's semaphore or to    *)
(* the inner queue.  A load followed by a compare_exchange is one step:    *)
(* the exchange fails, and the load is repeated, if another comes between. *)
(***************************************************************************)
EXTENDS Integers, FiniteSets

CONSTANTS
  Producers, Consumers,
  MaxBulk,  \* bound: the longest bulk operation
  MaxSize   \* bound: producers enqueue no more while the queue holds this

ASSUME BlockingConstants ==
  /\ IsFiniteSet(Producers) /\ IsFiniteSet(Consumers)
  /\ MaxBulk \in Nat \ {0} /\ MaxSize \in Nat

VARIABLES
  size,    \* elements in the inner queue
  count,   \* m_count
  kernel,  \* m_sema
  pPc,     \* where each producer is
  n,       \* elements to signal, then waiters to wake, of each producer
  cPc,     \* where each consumer is
  mode,    \* the call of each consumer: "try", "wait", "timed"
  max,     \* the most it wants
  owed     \* permits it holds

producerVars == <<pPc, n>>
consumerVars == <<cPc, mode, max, owed>>
vars == <<size, count, kernel, producerVars, consumerVars>>

Lesser(i, j) == IF i < j THEN i ELSE j

Init ==
  /\ size = 0 /\ count = 0 /\ kernel = 0
  /\ pPc = [p \in Producers |-> "idle"]
  /\ n = [p \in Producers |-> 0]
  /\ cPc = [c \in Consumers |-> "idle"]
  /\ mode = [c \in Consumers |-> "try"]
  /\ max = [c \in Consumers |-> 0]
  /\ owed = [c \in Consumers |-> 0]

PGoes(p, from, to) == pPc[p] = from /\ pPc' = [pPc EXCEPT ![p] = to]
CGoes(c, from, to) == cPc[c] = from /\ cPc' = [cPc EXCEPT ![c] = to]

-----------------------------------------------------------------------------
(* Plausible mistakes, each named for the definition it would change.      *)

\* The bulk operation signals once.
Signal_Once(p) ==
  /\ PGoes(p, "signal", "post")
  /\ count' = count + 1
  /\ n' = [n EXCEPT ![p] = IF count < 0 THEN 1 ELSE 0]
  /\ UNCHANGED <<size, kernel, consumerVars>>

\* Only the step from no permit to some wakes waiters.
Signal_FromZero(p) ==
  /\ PGoes(p, "signal", "post")
  /\ count' = count + n[p]
  /\ n' = [n EXCEPT ![p] = IF count = -1 THEN 1 ELSE 0]
  /\ UNCHANGED <<size, kernel, consumerVars>>

\* A waiter whose time is up returns without a look at the count, as if it
\* had been answered.
TakeBack_Redeems(c) ==
  /\ count < 0
  /\ CGoes(c, "restore", "redeem")
  /\ owed' = [owed EXCEPT ![c] = 1]
  /\ count' = count + 1
  /\ UNCHANGED <<size, kernel, producerVars, mode, max>>

-----------------------------------------------------------------------------
(* A producer p.                                                           *)

\* The inner queue's enqueue or enqueue_bulk has succeeded.
Enqueue(p) ==
  /\ PGoes(p, "idle", "signal")
  /\ \E k \in 1 .. MaxBulk :
       /\ size + k <= MaxSize
       /\ size' = size + k
       /\ n' = [n EXCEPT ![p] = k]
  /\ UNCHANGED <<count, kernel, consumerVars>>

\* signal: the count is raised; as many waiters as it was short of are to be
\* woken.
Signal(p) ==
  /\ PGoes(p, "signal", "post")
  /\ count' = count + n[p]
  /\ n' = [n EXCEPT ![p] = IF count < 0 THEN Lesser(-count, @) ELSE 0]
  /\ UNCHANGED <<size, kernel, consumerVars>>

Post(p) ==
  /\ n[p] > 0 /\ PGoes(p, "post", "post")
  /\ n' = [n EXCEPT ![p] = @ - 1]
  /\ kernel' = kernel + 1
  /\ UNCHANGED <<size, count, consumerVars>>

EnqueueReturns(p) ==
  /\ n[p] = 0 /\ PGoes(p, "post", "idle")
  /\ UNCHANGED <<size, count, kernel, n, consumerVars>>

-----------------------------------------------------------------------------
(* A consumer c.                                                           *)

\* A bulk operation for one element does what the single operation does.
Call(c) ==
  /\ CGoes(c, "idle", "acquire")
  /\ mode' \in {[mode EXCEPT ![c] = m] : m \in {"try", "wait", "timed"}}
  /\ max' \in {[max EXCEPT ![c] = k] : k \in 1 .. MaxBulk}
  /\ UNCHANGED <<size, count, kernel, producerVars, owed>>

\* tryWait or tryWaitMany, or the spinning loop that follows.
Take(c) ==
  /\ CGoes(c, "acquire", "redeem")
  /\ count > 0
  /\ owed' = [owed EXCEPT ![c] = Lesser(count, max[c])]
  /\ count' = count - Lesser(count, max[c])
  /\ UNCHANGED <<size, kernel, producerVars, mode, max>>

\* tryWait and tryWaitMany find no permit.
Refuse(c) ==
  /\ CGoes(c, "acquire", "idle")
  /\ mode[c] = "try" /\ count <= 0
  /\ UNCHANGED <<size, count, kernel, producerVars, mode, max, owed>>

\* One permit is there; a bulk operation then tries for the rest.
Granted(c, from) ==
  /\ CGoes(c, from, IF max[c] > 1 THEN "more" ELSE "redeem")
  /\ owed' = [owed EXCEPT ![c] = 1]

\* The spins are over: fetch_sub takes the permit that came meanwhile ...
LateTake(c) ==
  /\ mode[c] # "try" /\ count > 0
  /\ Granted(c, "acquire")
  /\ count' = count - 1
  /\ UNCHANGED <<size, kernel, producerVars, mode, max>>

\* ... or announces a waiter.
Announce(c) ==
  /\ CGoes(c, "acquire", "sleep")
  /\ mode[c] # "try" /\ count <= 0
  /\ count' = count - 1
  /\ UNCHANGED <<size, kernel, producerVars, mode, max, owed>>

\* sem_wait, sem_timedwait or sem_trywait gets through.
KernelGrants(c, from) ==
  /\ kernel > 0 /\ kernel' = kernel - 1
  /\ Granted(c, from)

Wake(c) ==
  /\ KernelGrants(c, "sleep")
  /\ UNCHANGED <<size, count, producerVars, mode, max>>

\* Its time is up, or was zero from the start.
TimeOut(c) ==
  /\ CGoes(c, "sleep", "restore")
  /\ mode[c] = "timed"
  /\ UNCHANGED <<size, count, kernel, producerVars, mode, max, owed>>

\* The announcement is taken back, unless it has been answered.
TakeBack(c) ==
  /\ count < 0
  /\ CGoes(c, "restore", "idle")
  /\ count' = count + 1
  /\ UNCHANGED <<size, kernel, producerVars, mode, max, owed>>

SeeAnswer(c) ==
  /\ count >= 0
  /\ CGoes(c, "restore", "retry")
  /\ UNCHANGED <<size, count, kernel, producerVars, mode, max, owed>>

\* The kernel's permit may not have been posted yet.
Retry(c) ==
  /\ \/ KernelGrants(c, "retry")
     \/ kernel = 0 /\ CGoes(c, "retry", "restore") /\ UNCHANGED <<kernel, owed>>
  /\ UNCHANGED <<size, count, producerVars, mode, max>>

\* tryWaitMany(max - 1).
TakeMore(c) ==
  /\ CGoes(c, "more", "redeem")
  /\ LET k == IF count > 0 THEN Lesser(count, max[c] - 1) ELSE 0
     IN  owed' = [owed EXCEPT ![c] = 1 + k] /\ count' = count - k
  /\ UNCHANGED <<size, kernel, producerVars, mode, max>>

\* The inner try_dequeue_bulk returns some elements; try_dequeue one.  When
\* it returns none it is called again.
Redeem(c) ==
  /\ owed[c] > 0 /\ CGoes(c, "redeem", "redeem")
  /\ \E k \in 1 .. MaxBulk :
       /\ k <= Lesser(owed[c], size)
       /\ size' = size - k
       /\ owed' = [owed EXCEPT ![c] = @ - k]
  /\ UNCHANGED <<count, kernel, producerVars, mode, max>>

DequeueReturns(c) ==
  /\ owed[c] = 0 /\ CGoes(c, "redeem", "idle")
  /\ UNCHANGED <<size, count, kernel, producerVars, mode, max, owed>>

-----------------------------------------------------------------------------
ProducerStep(p) == Signal(p) \/ Post(p) \/ EnqueueReturns(p)

ConsumerStep(c) ==
  \/ Take(c) \/ Refuse(c) \/ LateTake(c) \/ Announce(c) \/ Wake(c)
  \/ TakeBack(c) \/ SeeAnswer(c) \/ Retry(c) \/ TakeMore(c)
  \/ Redeem(c) \/ DequeueReturns(c)

Next ==
  \/ \E p \in Producers : Enqueue(p) \/ ProducerStep(p)
  \/ \E c \in Consumers : Call(c) \/ TimeOut(c) \/ ConsumerStep(c)

\* A thread inside a call goes on with it; nobody has to make one, and no
\* waiter's time has to be up.
Fairness ==
  /\ \A p \in Producers : WF_vars(ProducerStep(p))
  /\ \A c \in Consumers : WF_vars(ConsumerStep(c))

Spec == Init /\ [][Next]_vars
FairSpec == Spec /\ Fairness
-----------------------------------------------------------------------------
(* Properties.                                                             *)

Waiting == {c \in Consumers : cPc[c] \in {"sleep", "restore", "retry"}}

\* The sum of f over S, counted out.
Total(S, f) == Cardinality(UNION {{x} \X (1 .. f[x]) : x \in S})

Unsignalled == [p \in Producers |-> IF pPc[p] = "signal" THEN n[p] ELSE 0]
Unposted    == [p \in Producers |-> IF pPc[p] = "post" THEN n[p] ELSE 0]

TypeOK ==
  /\ size \in Nat /\ count \in Int /\ kernel \in Nat
  /\ pPc \in [Producers -> {"idle", "signal", "post"}]
  /\ n \in [Producers -> Nat]
  /\ cPc \in [Consumers -> {"idle", "acquire", "sleep", "restore", "retry",
                            "more", "redeem"}]
  /\ mode \in [Consumers -> {"try", "wait", "timed"}]
  /\ max \in [Consumers -> 0 .. MaxBulk]
  /\ owed \in [Consumers -> Nat]

\* The permits, however calls, timeouts and signals fall: every element is
\* either still to be signalled, counted, claimed by a consumer or on its way
\* to a waiter, and the kernel's semaphore has, or will be posted, exactly
\* one for each waiter that the count says has been answered.
PermitsInv ==
  /\ TypeOK
  /\ size = count + Total(Producers, Unsignalled) + Total(Consumers, owed)
              + Cardinality(Waiting)
  /\ kernel + Total(Producers, Unposted)
       = Cardinality(Waiting) - (IF count < 0 THEN -count ELSE 0)
  /\ \A c \in Consumers : /\ cPc[c] = "more" => owed[c] = 1
                          /\ owed[c] > 0 => cPc[c] \in {"more", "redeem"}
                          /\ cPc[c] # "idle" => max[c] > 0

\* The loops around the inner try_dequeue end: whoever took permits gets that
\* many elements, whatever the other consumers take meanwhile.
PermitsAreRedeemed ==
  \A c \in Consumers : owed[c] > 0 ~> owed[c] = 0

\* No wakeup is lost: while a consumer sleeps without a time limit an element
\* does not stay unclaimed.
ElementsAreClaimed ==
  (size > 0 /\ \E c \in Consumers : cPc[c] = "sleep" /\ mode[c] = "wait")
    ~> \E c \in Consumers : owed[c] > 0
=============================================================================
