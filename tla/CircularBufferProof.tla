------------------------ MODULE CircularBufferProof ------------------------
(***************************************************************************)
(* The accounting of CircularBuffer's two semaphores, for every capacity:  *)
(* a permit is never lost or made up, so no thread is ever let at a slot   *)
(* that is not its own.  From that, what the ring holds, and that it       *)
(* implements the bounded queue.                                           *)
(***************************************************************************)
EXTENDS CircularBuffer, SequenceTheorems, TLAPS

Types == pc \in [Threads -> Pcs] /\ mode \in [Threads -> Modes]
         /\ count \in [Threads -> Int] /\ kernel \in [Threads -> Nat]
         /\ nextSlot \in 0 .. Wrap - 1 /\ nextItem \in 0 .. Wrap - 1

\* The two threads are told apart, and each is the other's other.
LEMMA TwoThreads ==
  /\ "producer" \in Threads /\ "consumer" \in Threads
  /\ Other("producer") = "consumer" /\ Other("consumer") = "producer"
  /\ \A t \in Threads : Other(t) \in Threads /\ Other(t) # t
BY DEF Threads, Other

\* An element constructed makes the buffer longer by one, if it was not full.
LEMMA SizeGrows ==
  ASSUME Types, Size < Capacity, nextSlot' = Next1(nextSlot),
         nextItem' = nextItem
  PROVE  Size' = Size + 1 /\ nextSlot' \in 0 .. Wrap - 1
BY CircularConstants DEF CircularConstants, Types, Size, Next1

\* An element moved out makes it shorter by one, if it was not empty.
LEMMA SizeShrinks ==
  ASSUME Types, Size > 0, nextItem' = Next1(nextItem), nextSlot' = nextSlot
  PROVE  Size' = Size - 1 /\ nextItem' \in 0 .. Wrap - 1
BY CircularConstants DEF CircularConstants, Types, Size, Next1

LEMMA SizeIsNat == ASSUME Types PROVE Size \in Nat
BY CircularConstants DEF CircularConstants, Types, Size

LEMMA InitPermits == ASSUME Init PROVE PermitsInv
<1>1. Types
  BY CircularConstants DEF CircularConstants, Init, Types, Pcs, Modes
<1>2. data \in [Ring -> Values \cup {Raw}] /\ item \in Values \cup {Raw, None}
  BY DEF Init
<1>3. Size = 0
  BY DEF Init, Size
<1>4. PermitsMatch
  BY <1>3, CircularConstants, TwoThreads
     DEF CircularConstants, Init, PermitsMatch, PermitsOf, Signalled, There,
         Here, Threads
<1>5. NeverOverfull
  BY <1>3, CircularConstants, TwoThreads
     DEF CircularConstants, Init, NeverOverfull
<1> QED
  BY <1>1, <1>2, <1>4, <1>5 DEF PermitsInv, TypeOK, Types

\* Every step keeps the types.
LEMMA NextTypes ==
  ASSUME PermitsInv, [Next]_vars
  PROVE  TypeOK'
<1> USE DEF PermitsInv
<1> Types
  BY DEF TypeOK, Types
<1>1. ASSUME NEW t \in Threads, Call(t) PROVE TypeOK'
  BY <1>1 DEF TypeOK, Call, Goes, Pcs, Modes, ringVars
<1>2. ASSUME NEW t \in Threads, Step(t) PROVE TypeOK'
  <2>1. CASE Take(t) \/ Refuse(t) \/ Announce(t) \/ TimeOut(t)
    BY <2>1 DEF TypeOK, Take, Refuse, Announce, TimeOut, Goes, AddCount, Pcs,
                ringVars
  <2>2. CASE Wake(t) \/ Retry(t)
    BY <2>2 DEF TypeOK, Wake, Retry, KernelTake, Goes, Pcs, ringVars
  <2>3. CASE Restore(t) \/ Retake(t)
    BY <2>3 DEF TypeOK, Restore, Retake, Goes, AddCount, Pcs, ringVars
  <2>4. CASE Signal(t) \/ Post(t)
    BY <2>4, TwoThreads
       DEF TypeOK, Signal, Post, Goes, AddCount, Pcs, ringVars
  <2> QED
    BY <1>2, <2>1, <2>2, <2>3, <2>4 DEF Step
<1>3. CASE Construct
  <2>1. Size < Capacity
    BY <1>3 DEF Construct, Goes, NeverOverfull
  <2>2. nextSlot' \in 0 .. Wrap - 1
    BY <1>3, <2>1, SizeGrows DEF Construct
  <2>3. pc' \in [Threads -> Pcs]
    BY <1>3 DEF TypeOK, Construct, Goes, Pcs
  <2>4. data' \in [Ring -> Values \cup {Raw}]
    BY <1>3 DEF TypeOK, Construct
  <2> QED
    BY <1>3, <2>2, <2>3, <2>4 DEF TypeOK, Construct
<1>4. CASE MoveOut
  <2>1. Size > 0
    BY <1>4 DEF MoveOut, Goes, NeverOverfull
  <2>2. nextItem' \in 0 .. Wrap - 1
    BY <1>4, <2>1, SizeShrinks DEF MoveOut
  <2>3. At(nextItem) \in Ring
    BY MaskSurvivesWrap, CircularConstants
       DEF MaskSurvivesWrap, CircularConstants, Types, At, Ring
  <2>4. data[At(nextItem)] \in Values \cup {Raw}
    BY <2>3 DEF TypeOK
  <2> QED
    BY <1>4, <2>2, <2>4 DEF TypeOK, MoveOut, Goes, Pcs
<1>5. CASE Destroy
  BY <1>5 DEF TypeOK, Destroy, Pcs
<1>6. CASE UNCHANGED vars
  BY <1>6 DEF TypeOK, vars, callVars, ringVars
<1> QED
  BY <1>1, <1>2, <1>3, <1>4, <1>5, <1>6 DEF Next, Done

\* A step inside a call of t touches neither the ring nor the other thread.
LEMMA StepKeepsRing ==
  ASSUME PermitsInv, NEW t \in Threads, Call(t) \/ Step(t)
  PROVE  /\ Size' = Size
         /\ pc'[Other(t)] = pc[Other(t)]
         /\ pc[t] # "gone" /\ pc'[t] # "gone"
         /\ PermitsOf(t) /\ PermitsOf(Other(t))
<1>1. /\ Size' = Size
      /\ pc[t] # "gone" /\ pc'[t] # "gone"
      /\ pc' = [pc EXCEPT ![t] = pc'[t]]
  BY DEF PermitsInv, TypeOK, Call, Step, Take, Refuse, Announce, Wake,
         TimeOut, Restore, Retake, Retry, Signal, Post, Goes, ringVars, Size
<1>2. pc'[Other(t)] = pc[Other(t)]
  BY <1>1, TwoThreads DEF PermitsInv, TypeOK
<1>3. PermitsOf(t) /\ PermitsOf(Other(t))
  BY <1>1, TwoThreads DEF PermitsInv, PermitsMatch, Threads
<1> QED
  BY <1>1, <1>2, <1>3

\* Waiting, timing out and taking back move a permit of the thread's own
\* semaphore; signalling gives one to the other's.
LEMMA StepKeepsPermits ==
  ASSUME PermitsInv, NEW t \in Threads, Call(t) \/ Step(t)
  PROVE  PermitsOf(t)' /\ PermitsOf(Other(t))'
<1> DEFINE o == Other(t)
<1>1. o \in Threads /\ o # t /\ Other(o) = t
  BY TwoThreads DEF Threads
<1>2. /\ pc'[o] = pc[o] /\ pc[t] # "gone" /\ pc'[t] # "gone"
      /\ PermitsOf(t) /\ PermitsOf(o)
  BY StepKeepsRing
<1>3. /\ There(t) \in Int /\ There(o) \in Int
      /\ There(t)' = There(t) /\ There(o)' = There(o)
  BY SizeIsNat, CircularConstants, StepKeepsRing
     DEF PermitsInv, TypeOK, Types, CircularConstants, There
<1>4. /\ pc \in [Threads -> Pcs] /\ count \in [Threads -> Int]
      /\ kernel \in [Threads -> Nat]
  BY DEF PermitsInv, TypeOK
<1> HIDE DEF o
<1> USE <1>1, <1>2, <1>3, <1>4 DEF PermitsOf, Signalled, Here
<1> SUFFICES PermitsOf(t)' /\ PermitsOf(o)'
  BY DEF o
<1>5. CASE Call(t)
  BY <1>5 DEF Call, Goes, ringVars, o
<1>6. CASE Take(t)
  BY <1>6 DEF Take, Goes, AddCount, ringVars, o
<1>7. CASE Refuse(t)
  BY <1>7 DEF Refuse, Goes, ringVars, o
<1>8. CASE Announce(t)
  <2>1. /\ pc[t] = "acquire" /\ pc'[t] = "sleep" /\ count[t] = 0
        /\ count'[t] = -1 /\ count'[o] = count[o] /\ kernel' = kernel
    BY <1>8 DEF Announce, Goes, AddCount
  <2> QED
    BY <2>1 DEF o
<1>9. CASE Wake(t)
  BY <1>9 DEF Wake, KernelTake, Goes, ringVars, o
<1>10. CASE TimeOut(t)
  BY <1>10 DEF TimeOut, Goes, ringVars, o
<1>11. CASE Restore(t)
  BY <1>11 DEF Restore, Goes, AddCount, ringVars, o
<1>12. CASE Retake(t)
  BY <1>12 DEF Retake, Goes, AddCount, ringVars, o
<1>13. CASE Retry(t)
  BY <1>13 DEF Retry, KernelTake, Goes, ringVars, o
<1>14. CASE Signal(t)
  BY <1>14 DEF Signal, Goes, AddCount, o
<1>15. CASE Post(t)
  BY <1>15 DEF Post, Goes, o
<1> QED
  BY <1>5, <1>6, <1>7, <1>8, <1>9, <1>10, <1>11, <1>12, <1>13, <1>14, <1>15
     DEF Step

\* The accounting is kept: the ring's own steps turn a permit into an element
\* or a free slot that is to be signalled.
LEMMA NextPermits ==
  ASSUME PermitsInv, [Next]_vars
  PROVE  PermitsMatch'
<1>1. /\ PermitsMatch /\ NeverOverfull /\ Types /\ Size \in Nat
      /\ Capacity \in Nat
  BY SizeIsNat, CircularConstants
     DEF PermitsInv, TypeOK, Types, CircularConstants
<1>2. ASSUME NEW t \in Threads, Call(t) \/ Step(t) PROVE PermitsMatch'
  <2>1. PermitsOf(t)' /\ PermitsOf(Other(t))'
    BY <1>2, StepKeepsPermits
  <2>2. pc'[Other(t)] = pc[Other(t)] /\ pc[t] # "gone" /\ pc'[t] # "gone"
    BY <1>2, StepKeepsRing
  <2> QED
    BY <1>1, <2>1, <2>2, TwoThreads DEF PermitsMatch, Threads
<1>3. CASE Construct
  <2>1. Size < Capacity /\ Size' = Size + 1
    BY <1>1, <1>3, SizeGrows DEF Construct, Goes, NeverOverfull
  <2>2. /\ pc["producer"] = "have" /\ pc'["producer"] = "signal"
        /\ pc'["consumer"] = pc["consumer"]
        /\ UNCHANGED <<count, kernel>>
    BY <1>1, <1>3 DEF Construct, Goes, Types, Threads
  <2> QED
    BY <1>1, <2>1, <2>2
       DEF Threads, Other, PermitsMatch, PermitsOf, Signalled, There, Here,
           Types
<1>4. CASE MoveOut
  <2>1. Size > 0 /\ Size' = Size - 1
    BY <1>1, <1>4, SizeShrinks DEF MoveOut, Goes, NeverOverfull
  <2>2. /\ pc["consumer"] = "have" /\ pc'["consumer"] = "signal"
        /\ pc'["producer"] = pc["producer"]
        /\ UNCHANGED <<count, kernel>>
    BY <1>1, <1>4 DEF MoveOut, Goes, Types, Threads
  <2> QED
    BY <1>1, <2>1, <2>2
       DEF Threads, Other, PermitsMatch, PermitsOf, Signalled, There, Here,
           Types
<1>5. CASE Destroy
  <2>1. pc' = [t \in Threads |-> "gone"] /\ nextItem' = nextSlot'
    BY <1>5 DEF Destroy
  <2>2. Size' = 0
    BY <1>1, <1>5, <2>1 DEF Destroy, Size, Types
  <2> QED
    BY <2>1, <2>2 DEF PermitsMatch, Threads
<1>6. CASE UNCHANGED vars
  BY <1>1, <1>6 DEF vars, callVars, ringVars, PermitsMatch, PermitsOf,
                   Signalled, There, Here, Size, Threads, Other
<1> QED
  BY <1>2, <1>3, <1>4, <1>5, <1>6 DEF Next, Done

\* A permit taken is room for one more, or an element.
LEMMA PermitsAreRoom ==
  ASSUME TypeOK, PermitsMatch
  PROVE  NeverOverfull
<1>1. Types /\ Size \in Nat /\ Capacity \in Nat /\ Capacity > 0
  BY SizeIsNat, CircularConstants
     DEF TypeOK, Types, CircularConstants
<1>2. CASE pc["producer"] = "gone"
  BY <1>1, <1>2 DEF PermitsMatch, NeverOverfull
<1>3. CASE pc["producer"] # "gone"
  <2>1. PermitsOf("producer") /\ PermitsOf("consumer")
    BY <1>3 DEF PermitsMatch, Threads
  <2> QED
    BY <1>1, <2>1
       DEF PermitsOf, Signalled, There, Here, Other, Threads, Types,
           NeverOverfull
<1> QED
  BY <1>2, <1>3

\* Whatever the capacity, and however waits, timeouts and signals interleave:
\* a thread that got a permit finds room or an element, the semaphores count
\* what is there, and signal() never finds a count below -1.
THEOREM PermitsAreKept == Spec => []PermitsInv
<1>1. Init => TypeOK /\ PermitsMatch
  BY InitPermits DEF PermitsInv
<1>2. TypeOK /\ PermitsMatch => PermitsInv
  BY PermitsAreRoom DEF PermitsInv
<1>3. TypeOK /\ PermitsMatch /\ [Next]_vars => TypeOK' /\ PermitsMatch'
  BY <1>2, NextTypes, NextPermits
<1> QED
  BY <1>1, <1>2, <1>3, PTL DEF Spec

-----------------------------------------------------------------------------
(* Indices modulo the ring.                                                *)

\* The remainder, the quotient and what they are of.
LEMMA ModParts ==
  ASSUME NEW i \in Int, NEW n \in Int, n > 0
  PROVE  /\ i % n \in 0 .. n - 1 /\ i \div n \in Int
         /\ i = n * (i \div n) + (i % n)
<1>1. i % n \in 0 .. n - 1
  OBVIOUS
<1>2. i \div n \in Int
  OBVIOUS
<1>3. i = n * (i \div n) + (i % n)
  BY Z3
<1> QED
  BY <1>1, <1>2, <1>3

\* Zero is the only multiple of n closer to zero than n.
LEMMA NoSmallMultiple ==
  ASSUME NEW n \in Int, n > 0, NEW d \in Int, n * d > -n, n * d < n
  PROVE  d = 0
<1>1. CASE d >= 1
  BY <1>1
<1>2. CASE d <= -1
  BY <1>2
<1> QED
  BY <1>1, <1>2

\* A remainder is known by its range.
LEMMA ModUnique ==
  ASSUME NEW i \in Int, NEW n \in Int, n > 0, NEW q \in Int,
         NEW r \in 0 .. n - 1, i = n * q + r
  PROVE  i % n = r
<1>1. /\ i % n \in 0 .. n - 1 /\ i \div n \in Int
      /\ i = n * (i \div n) + (i % n)
  BY ModParts
<1> DEFINE d == (i \div n) - q
<1>2. n * d = n * (i \div n) - n * q
  BY <1>1
<1>3. n * d > -n /\ n * d < n
  BY <1>1, <1>2
<1>4. d = 0
  BY <1>1, <1>3, NoSmallMultiple
<1> QED
  BY <1>1, <1>2, <1>4

\* Adding multiples of n changes no remainder.
LEMMA ModShift ==
  ASSUME NEW i \in Int, NEW n \in Int, n > 0, NEW m \in Int
  PROVE  (i + n * m) % n = i % n
<1>1. /\ i % n \in 0 .. n - 1 /\ i \div n \in Int
      /\ i = n * (i \div n) + (i % n)
  BY ModParts
<1>2. n * ((i \div n) + m) = n * (i \div n) + n * m
  BY <1>1
<1> DEFINE j == i + n * m
           q == (i \div n) + m
           r == i % n
<1>3. j \in Int /\ q \in Int /\ r \in 0 .. n - 1 /\ j = n * q + r
  BY <1>1, <1>2
<1>4. j % n = r
  <2> HIDE DEF j, q, r
  <2> QED
    BY <1>3, ModUnique
<1> QED
  BY <1>4

\* Numbers less than n apart have different remainders.
LEMMA ModApart ==
  ASSUME NEW i \in Int, NEW j \in Int, NEW n \in Int, n > 0, i < j, j - i < n
  PROVE  i % n # j % n
<1> SUFFICES ASSUME i % n = j % n PROVE FALSE
  OBVIOUS
<1>1. /\ i \div n \in Int /\ i = n * (i \div n) + (i % n) /\ i % n \in Int
      /\ j \div n \in Int /\ j = n * (j \div n) + (j % n)
  BY ModParts
<1> DEFINE d == (j \div n) - (i \div n)
<1>2. n * d = n * (j \div n) - n * (i \div n)
  BY <1>1
<1>3. n * d = j - i
  BY <1>1, <1>2
<1>4. d = 0
  BY <1>1, <1>3, NoSmallMultiple
<1> QED
  BY <1>1, <1>3, <1>4
-----------------------------------------------------------------------------
(* The slots of the ring.                                                  *)

\* The ring is long enough and divides the range of the indices.
LEMMA RingFacts ==
  /\ Slots \in Int /\ Slots > 0 /\ Slots >= Capacity
  /\ Wrap \div Slots \in Int /\ Wrap = Slots * (Wrap \div Slots)
<1>1. Slots \in Int /\ Slots > 0 /\ Slots >= Capacity /\ Wrap \in Int
      /\ Wrap % Slots = 0
  BY MaskSurvivesWrap, CircularConstants DEF MaskSurvivesWrap, CircularConstants
<1>2. Wrap \div Slots \in Int /\ Wrap = Slots * (Wrap \div Slots) + (Wrap % Slots)
  BY <1>1, ModParts
<1>3. Slots * (Wrap \div Slots) \in Int
  BY <1>1, <1>2
<1> QED
  BY <1>1, <1>2, <1>3

\* The wrap of an index does not change its slot.
LEMMA AtSurvivesWrap ==
  ASSUME NEW i \in Int
  PROVE  At(i - Wrap) = At(i) /\ At(i) \in Ring
<1>1. /\ Slots \in Int /\ Slots > 0
      /\ Wrap \div Slots \in Int /\ Wrap = Slots * (Wrap \div Slots)
  BY RingFacts
<1> DEFINE m == -(Wrap \div Slots)
<1>2. i - Wrap = i + Slots * m /\ m \in Int
  BY <1>1
<1>3. (i + Slots * m) % Slots = i % Slots
  <2> HIDE DEF m
  <2> QED
    BY <1>1, <1>2, ModShift
<1>4. i % Slots \in 0 .. Slots - 1
  BY <1>1, ModParts
<1> QED
  BY <1>2, <1>3, <1>4 DEF At, Ring

\* The producer's slot is the one after the last element.
LEMMA SlotAfterLast ==
  ASSUME Types
  PROVE  At(nextSlot) = At(nextItem + Size)
<1>1. nextSlot \in Int /\ nextItem \in Int /\ Size \in Int /\ Wrap \in Int
  BY SizeIsNat, CircularConstants DEF Types, CircularConstants
<1>2. nextSlot = nextItem + Size \/ nextSlot = (nextItem + Size) - Wrap
  BY <1>1 DEF Size
<1> QED
  BY <1>1, <1>2, AtSurvivesWrap

\* After the consumer's index moved on, the elements are one closer.
LEMMA IndexMovesOn ==
  ASSUME Types, nextItem' = Next1(nextItem), NEW k \in Nat
  PROVE  At(nextItem' + k) = At(nextItem + k + 1)
<1>1. nextItem \in Int /\ Wrap \in Int
  BY CircularConstants DEF Types, CircularConstants
<1>2. nextItem' + k = nextItem + k + 1 \/ nextItem' + k = (nextItem + k + 1) - Wrap
  BY <1>1 DEF Next1
<1> QED
  BY <1>1, <1>2, AtSurvivesWrap

\* No two elements, nor the last and the free slot after it, share a slot.
LEMMA SlotsApart ==
  ASSUME Types, NEW j \in Nat, NEW k \in Nat, j < k, k < Slots
  PROVE  At(nextItem + j) # At(nextItem + k)
<1>1. nextItem + j \in Int /\ nextItem + k \in Int
  BY DEF Types
<1> QED
  BY <1>1, RingFacts, ModApart DEF At, Types

-----------------------------------------------------------------------------
(* What the ring holds.                                                    *)

\* The slots from the consumer's on hold elements, all others are raw.
RingHolds ==
  /\ \A k \in 0 .. Size - 1 : data[At(nextItem + k)] \in Values
  /\ \A s \in Ring : data[s] # Raw =>
       \E k \in 0 .. Size - 1 : s = At(nextItem + k)

\* The inductive invariant.
IInv == PermitsInv /\ RingHolds

\* What the steps below need of the permits.
LEMMA PermitsAllow ==
  ASSUME PermitsInv
  PROVE  /\ Types /\ data \in [Ring -> Values \cup {Raw}]
         /\ Size \in Nat /\ Slots \in Nat /\ Capacity <= Slots
         /\ pc["producer"] = "have" => Size < Capacity
         /\ pc["consumer"] = "have" => Size > 0
         /\ (\A t \in Threads : pc[t] = "idle") => count["consumer"] = Size
         /\ pc["consumer"] = "idle" => count["consumer"] <= Size
         /\ pc["producer"] = "gone" => Size = 0
<1>1. Types /\ data \in [Ring -> Values \cup {Raw}]
  BY DEF PermitsInv, TypeOK, Types
<1>2. Size \in Nat /\ Slots \in Nat /\ Capacity <= Slots
  BY <1>1, SizeIsNat, MaskSurvivesWrap DEF MaskSurvivesWrap
<1>3. /\ pc["producer"] = "have" => Size < Capacity
      /\ pc["consumer"] = "have" => Size > 0
      /\ pc["producer"] = "gone" => Size = 0
  BY DEF PermitsInv, NeverOverfull, PermitsMatch
<1>4. pc["consumer"] = "idle" =>
        /\ count["consumer"] <= Size
        /\ pc["producer"] = "idle" => count["consumer"] = Size
  <2>1. pc["consumer"] = "idle" => PermitsOf("consumer")
    BY TwoThreads DEF PermitsInv, PermitsMatch
  <2> QED
    BY <1>2, <2>1, TwoThreads
       DEF PermitsOf, Signalled, There, Here
<1> QED
  BY <1>1, <1>2, <1>3, <1>4, TwoThreads

\* Constructing fills the raw slot after the last element, and only that.
LEMMA ConstructHolds ==
  ASSUME IInv, Construct
  PROVE  RingHolds'
<1>1. /\ Types /\ data \in [Ring -> Values \cup {Raw}] /\ Size \in Nat
      /\ Slots \in Nat /\ Size < Capacity /\ Capacity <= Slots
      /\ Capacity \in Nat
  BY PermitsAllow, CircularConstants DEF IInv, Construct, Goes, CircularConstants
<1>2. PICK v \in Values : data' = [data EXCEPT ![At(nextItem + Size)] = v]
  BY <1>1, SlotAfterLast DEF Construct
<1>3. Size' = Size + 1 /\ nextItem' = nextItem
  BY <1>1, SizeGrows DEF Construct
<1>4. \A k \in 0 .. Size : At(nextItem + k) \in Ring
  BY <1>1, AtSurvivesWrap DEF Types
<1>5. \A k \in 0 .. Size - 1 : At(nextItem + k) # At(nextItem + Size)
  BY <1>1, SlotsApart
<1>6. \A k \in 0 .. Size' - 1 : data'[At(nextItem' + k)] \in Values
  <2> TAKE k \in 0 .. Size' - 1
  <2>1. CASE k = Size
    BY <1>1, <1>2, <1>3, <1>4, <2>1
  <2>2. CASE k # Size
    <3>1. k \in 0 .. Size - 1
      BY <1>1, <1>3, <2>2
    <3>2. data'[At(nextItem + k)] = data[At(nextItem + k)]
      BY <1>1, <1>2, <1>4, <1>5, <3>1
    <3> QED
      BY <1>3, <3>1, <3>2 DEF IInv, RingHolds
  <2> QED
    BY <2>1, <2>2
<1>7. ASSUME NEW s \in Ring, data'[s] # Raw
      PROVE  \E k \in 0 .. Size' - 1 : s = At(nextItem' + k)
  <2>1. CASE s = At(nextItem + Size)
    BY <1>1, <1>3, <2>1
  <2>2. CASE s # At(nextItem + Size)
    <3>1. data[s] # Raw
      BY <1>1, <1>2, <1>7, <2>2
    <3>2. PICK k \in 0 .. Size - 1 : s = At(nextItem + k)
      BY <3>1 DEF IInv, RingHolds
    <3> QED
      BY <1>1, <1>3, <3>2
  <2> QED
    BY <2>1, <2>2
<1> QED
  BY <1>6, <1>7 DEF RingHolds

\* Moving out empties the slot of the first element, and only that.
LEMMA MoveOutHolds ==
  ASSUME IInv, MoveOut
  PROVE  RingHolds'
<1>1. /\ Types /\ data \in [Ring -> Values \cup {Raw}] /\ Size \in Nat
      /\ Slots \in Nat /\ Size > 0 /\ Size <= Capacity /\ Capacity <= Slots
      /\ Capacity \in Nat /\ nextItem \in Nat
  BY PermitsAllow, CircularConstants
     DEF IInv, MoveOut, Goes, CircularConstants, PermitsInv, NeverOverfull, Types
<1>2. data' = [data EXCEPT ![At(nextItem)] = Raw] /\ Size' = Size - 1
  BY <1>1, SizeShrinks DEF MoveOut
<1>3. \A k \in Nat : At(nextItem' + k) = At(nextItem + k + 1)
  BY <1>1, IndexMovesOn DEF MoveOut
<1>4. \A k \in 1 .. Size - 1 : At(nextItem + k) # At(nextItem)
  <2> TAKE k \in 1 .. Size - 1
  <2>1. At(nextItem + 0) # At(nextItem + k)
    BY <1>1, SlotsApart
  <2> QED
    BY <1>1, <2>1
<1>5. \A k \in Nat : At(nextItem + k) \in Ring
  BY <1>1, AtSurvivesWrap
<1>6. ASSUME NEW k \in 0 .. Size' - 1
      PROVE  data'[At(nextItem' + k)] \in Values
  <2> DEFINE j == k + 1
  <2>1. j \in 1 .. Size - 1 /\ j \in Nat /\ k \in Nat /\ nextItem + k + 1 = nextItem + j
    BY <1>1, <1>2
  <2>2. At(nextItem' + k) = At(nextItem + j)
    BY <1>3, <2>1
  <2> HIDE DEF j
  <2>3. data'[At(nextItem + j)] = data[At(nextItem + j)]
    BY <1>1, <1>2, <1>4, <1>5, <2>1
  <2>4. data[At(nextItem + j)] \in Values
    BY <1>1, <2>1 DEF IInv, RingHolds
  <2> QED
    BY <2>2, <2>3, <2>4
<1>7. ASSUME NEW s \in Ring, data'[s] # Raw
      PROVE  \E k \in 0 .. Size' - 1 : s = At(nextItem' + k)
  <2>1. s # At(nextItem) /\ data[s] # Raw
    BY <1>1, <1>2, <1>7
  <2>2. PICK j \in 0 .. Size - 1 : s = At(nextItem + j)
    BY <2>1 DEF IInv, RingHolds
  <2>3. j # 0
    BY <1>1, <2>1, <2>2
  <2> DEFINE k == j - 1
  <2>4. k \in 0 .. Size' - 1 /\ k \in Nat /\ nextItem + k + 1 = nextItem + j
    BY <1>1, <1>2, <2>3
  <2>5. s = At(nextItem' + k)
    BY <1>3, <2>2, <2>4
  <2> QED
    BY <2>4, <2>5
<1> QED
  BY <1>6, <1>7 DEF RingHolds

\* The destructor destroys as many elements as there are, so all.
LEMMA DestroyHolds ==
  ASSUME IInv, Destroy
  PROVE  RingHolds' /\ Size' = 0
<1>1. /\ Types /\ data \in [Ring -> Values \cup {Raw}] /\ Size \in Nat
      /\ count["consumer"] = Size
  BY PermitsAllow DEF IInv, Destroy
<1>2. Size' = 0
  BY <1>1 DEF Destroy, Size, Types
<1>3. ASSUME NEW s \in Ring PROVE data'[s] = Raw
  <2>1. CASE data[s] = Raw
    BY <1>3, <2>1 DEF Destroy
  <2>2. CASE data[s] # Raw
    <3>1. PICK k \in 0 .. Size - 1 : s = At(nextItem + k)
      BY <2>2 DEF IInv, RingHolds
    <3> QED
      BY <1>1, <3>1 DEF Destroy
  <2> QED
    BY <2>1, <2>2
<1> QED
  BY <1>2, <1>3 DEF RingHolds

\* The permits and the content of the ring hold of every execution.
LEMMA IInvHolds == Spec => []IInv
<1>1. Init => RingHolds
  <2>1. Init => Size = 0
    BY DEF Init, Size
  <2>2. Init => \A s \in Ring : data[s] = Raw
    BY DEF Init
  <2> QED
    BY <2>1, <2>2 DEF RingHolds
<1>2. IInv /\ [Next]_vars => RingHolds'
  <2> SUFFICES ASSUME IInv, [Next]_vars PROVE RingHolds'
    OBVIOUS
  <2>1. CASE UNCHANGED ringVars
    BY <2>1 DEF IInv, RingHolds, ringVars, Size
  <2>2. CASE Construct \/ MoveOut \/ Destroy
    BY <2>2, ConstructHolds, MoveOutHolds, DestroyHolds
  <2> QED
    BY <2>1, <2>2
       DEF Next, Done, vars, Call, Step, Take, Refuse, Announce, Wake,
           TimeOut, Restore, Retake, Retry, Signal, Post
<1> QED
  BY <1>1, <1>2, PermitsAreKept, PTL DEF Spec, IInv
-----------------------------------------------------------------------------
\* Each thread constructs in, or moves out of, a slot that is its own, peek()
\* looks at an element that is there, and the destructor leaves none behind,
\* for every capacity and wherever the indices wrap.
THEOREM SlotsAreOwn == Spec => []SlotsInv
<1>1. IInv => SlotsInv
  <2> SUFFICES ASSUME IInv PROVE SlotsInv
    OBVIOUS
  <2>1. /\ Types /\ Size \in Nat /\ Slots \in Nat /\ Capacity <= Slots
        /\ Capacity \in Nat /\ nextItem \in Nat /\ count["consumer"] \in Int
        /\ pc["producer"] = "have" => Size < Capacity
        /\ pc["consumer"] = "have" => Size > 0
        /\ pc["consumer"] = "idle" => count["consumer"] <= Size
        /\ pc["producer"] = "gone" => Size = 0
    BY PermitsAllow, TwoThreads, CircularConstants
       DEF IInv, CircularConstants, Types
  <2>2. Size > 0 => data[At(nextItem)] # Raw
    <3> SUFFICES ASSUME Size > 0 PROVE data[At(nextItem + 0)] # Raw
      BY <2>1
    <3> QED
      BY <2>1, CircularConstants DEF IInv, RingHolds, CircularConstants
  <2>3. pc["producer"] = "have" => data[At(nextSlot)] = Raw
    <3> SUFFICES ASSUME pc["producer"] = "have", data[At(nextSlot)] # Raw
                 PROVE  FALSE
      OBVIOUS
    <3>1. At(nextSlot) = At(nextItem + Size) /\ At(nextItem + Size) \in Ring
      BY <2>1, SlotAfterLast, AtSurvivesWrap
    <3>2. PICK k \in 0 .. Size - 1 : At(nextItem + Size) = At(nextItem + k)
      BY <3>1 DEF IInv, RingHolds
    <3> QED
      BY <2>1, <3>2, SlotsApart
  <2>4. pc["producer"] = "gone" => \A s \in Ring : data[s] = Raw
    BY <2>1 DEF IInv, RingHolds
  <2> QED
    BY <2>1, <2>2, <2>3, <2>4 DEF SlotsInv
<1> QED
  BY <1>1, IInvHolds, PTL

\* The sequence FifoSpec gives the abstract queue.
Elements == [k \in 1 .. Size |-> data[At(nextItem + k - 1)]]

\* The elements are a sequence, the k-th in the k-th slot from the consumer's.
LEMMA ElementsOfRing ==
  ASSUME IInv
  PROVE  /\ Elements \in Seq(Values) /\ Len(Elements) = Size /\ Size \in Nat
         /\ \A k \in 1 .. Size : Elements[k] = data[At(nextItem + (k - 1))]
<1>1. Size \in Nat /\ nextItem \in Nat
  BY PermitsAllow DEF IInv, Types
<1>2. ASSUME NEW k \in 1 .. Size
      PROVE  /\ k - 1 \in 0 .. Size - 1
             /\ data[At(nextItem + k - 1)] = data[At(nextItem + (k - 1))]
  BY <1>1
<1>3. \A k \in 1 .. Size : data[At(nextItem + k - 1)] \in Values
  <2> TAKE k \in 1 .. Size
  <2> DEFINE j == k - 1
  <2>1. j \in 0 .. Size - 1 /\ data[At(nextItem + k - 1)] = data[At(nextItem + j)]
    BY <1>2
  <2>2. data[At(nextItem + j)] \in Values
    <3> HIDE DEF j
    <3> QED
      BY <2>1 DEF IInv, RingHolds
  <2> QED
    BY <2>1, <2>2
<1> QED
  BY <1>1, <1>2, <1>3 DEF Elements

\* The element constructed becomes the last one.
LEMMA ConstructAppends ==
  ASSUME IInv, IInv', Construct
  PROVE  \E v \in Values : Len(Elements) < Capacity
                           /\ Elements' = Append(Elements, v) /\ item' = item
<1>1. /\ Types /\ data \in [Ring -> Values \cup {Raw}] /\ Size \in Nat
      /\ Slots \in Nat /\ Size < Capacity /\ Capacity <= Slots
      /\ Capacity \in Nat
  BY PermitsAllow, CircularConstants DEF IInv, Construct, Goes, CircularConstants
<1>2. PICK v \in Values : data' = [data EXCEPT ![At(nextItem + Size)] = v]
  BY <1>1, SlotAfterLast DEF Construct
<1>3. Size' = Size + 1 /\ nextItem' = nextItem /\ item' = item
  BY <1>1, SizeGrows DEF Construct
<1>4. /\ Elements \in Seq(Values) /\ Len(Elements) = Size
      /\ \A k \in 1 .. Size : Elements[k] = data[At(nextItem + (k - 1))]
  BY ElementsOfRing
<1>5. Elements' = [k \in 1 .. Size + 1 |-> data'[At(nextItem + k - 1)]]
  BY <1>3 DEF Elements
<1>6. ASSUME NEW k \in 1 .. Size + 1
      PROVE  data'[At(nextItem + k - 1)] = Append(Elements, v)[k]
  <2> DEFINE j == k - 1
  <2>1. j \in 0 .. Size /\ nextItem + k - 1 = nextItem + j /\ nextItem + j \in Int
    BY <1>1 DEF Types
  <2>2. CASE k = Size + 1
    <3>1. Append(Elements, v)[k] = v
      BY <1>4, <2>2
    <3>2. nextItem + k - 1 = nextItem + Size /\ nextItem + Size \in Int
      BY <1>1, <2>2 DEF Types
    <3>3. At(nextItem + Size) \in Ring
      BY <3>2, AtSurvivesWrap
    <3> QED
      BY <1>1, <1>2, <3>1, <3>2, <3>3
  <2>3. CASE k # Size + 1
    <3>1. k \in 1 .. Size /\ j < Size /\ j \in Nat
      BY <1>1, <2>3
    <3>2. Append(Elements, v)[k] = data[At(nextItem + j)]
      BY <1>4, <3>1
    <3> HIDE DEF j
    <3>3. At(nextItem + j) # At(nextItem + Size) /\ At(nextItem + j) \in Ring
      BY <1>1, <2>1, <3>1, SlotsApart, AtSurvivesWrap
    <3> QED
      BY <1>1, <1>2, <2>1, <3>2, <3>3
  <2> QED
    BY <2>2, <2>3
<1>7. Append(Elements, v) = [k \in 1 .. Size + 1 |-> Append(Elements, v)[k]]
  <2>1. Append(Elements, v) \in Seq(Values) /\ Len(Append(Elements, v)) = Size + 1
    BY <1>2, <1>4
  <2> QED
    BY <2>1, LenProperties
<1>8. Elements' = Append(Elements, v)
  BY <1>5, <1>6, <1>7
<1> QED
  BY <1>1, <1>3, <1>4, <1>8

\* The element moved out was the first one.
LEMMA MoveOutTakesFirst ==
  ASSUME IInv, IInv', MoveOut
  PROVE  /\ Elements # <<>> /\ item' = Head(Elements)
         /\ Elements' = Tail(Elements)
<1>1. /\ Types /\ data \in [Ring -> Values \cup {Raw}] /\ Size \in Nat
      /\ Slots \in Nat /\ Size > 0 /\ Size <= Capacity /\ Capacity <= Slots
      /\ Capacity \in Nat /\ nextItem \in Nat
  BY PermitsAllow, CircularConstants
     DEF IInv, MoveOut, Goes, CircularConstants, PermitsInv, NeverOverfull, Types
<1>2. /\ data' = [data EXCEPT ![At(nextItem)] = Raw] /\ Size' = Size - 1
      /\ item' = data[At(nextItem)]
  BY <1>1, SizeShrinks DEF MoveOut
<1>3. \A k \in Nat : At(nextItem' + k) = At(nextItem + k + 1)
  BY <1>1, IndexMovesOn DEF MoveOut
<1>4. /\ Elements \in Seq(Values) /\ Len(Elements) = Size
      /\ \A k \in 1 .. Size : Elements[k] = data[At(nextItem + (k - 1))]
  BY ElementsOfRing
<1>5. item' = Head(Elements) /\ Elements # <<>>
  <2>1. Elements[1] = data[At(nextItem)]
    BY <1>1, <1>4
  <2> QED
    BY <1>1, <1>2, <1>4, <2>1
<1>6. nextItem' \in Int
  BY <1>1, SizeShrinks DEF MoveOut
<1>7. ASSUME NEW k \in 1 .. Size - 1
      PROVE  data'[At(nextItem' + k - 1)] = Tail(Elements)[k]
  <2> DEFINE j == k - 1
  <2>1. /\ j \in Nat /\ nextItem' + k - 1 = nextItem' + j
        /\ nextItem + j + 1 = nextItem + k
    BY <1>1, <1>6
  <2>2. At(nextItem' + k - 1) = At(nextItem + k)
    <3> HIDE DEF j
    <3>1. At(nextItem' + j) = At(nextItem + j + 1)
      BY <1>3, <2>1
    <3> QED
      BY <2>1, <3>1
  <2>3. At(nextItem + 0) # At(nextItem + k) /\ At(nextItem + k) \in Ring
    BY <1>1, SlotsApart, AtSurvivesWrap
  <2>4. data'[At(nextItem + k)] = data[At(nextItem + k)]
    BY <1>1, <1>2, <2>3
  <2>5. Tail(Elements)[k] = Elements[k + 1] /\ k + 1 \in 1 .. Size
    BY <1>1, <1>4
  <2>6. Elements[k + 1] = data[At(nextItem + k)]
    <3>1. (k + 1) - 1 = k
      OBVIOUS
    <3> QED
      BY <1>4, <2>5, <3>1
  <2> QED
    BY <2>2, <2>4, <2>5, <2>6
<1>8. Elements' = [k \in 1 .. Size - 1 |-> data'[At(nextItem' + k - 1)]]
  BY <1>2 DEF Elements
<1>9. Tail(Elements) = [k \in 1 .. Size - 1 |-> Tail(Elements)[k]]
  <2>1. Tail(Elements) \in Seq(Values) /\ Len(Tail(Elements)) = Size - 1
    BY <1>1, <1>4
  <2> QED
    BY <2>1, LenProperties
<1> QED
  BY <1>5, <1>7, <1>8, <1>9

\* The ring between its two threads implements the bounded queue: no element
\* is overwritten, lost, received twice or out of order, whatever the capacity
\* and however often the indices wrap.
THEOREM ImplementsFifo == Spec => FifoSpec
<1>1. Init => Fifo!Init
  <2> SUFFICES ASSUME Init PROVE Elements = <<>> /\ item = None
    BY DEF Fifo!Init, Elements
  <2>1. Size = 0
    BY DEF Init, Size
  <2> QED
    BY <2>1 DEF Init, Elements
<1>2. IInv /\ IInv' /\ [Next]_vars => [Fifo!Next]_(Fifo!vars)
  <2> SUFFICES ASSUME IInv, IInv', [Next]_vars
               PROVE  Fifo!Next \/ UNCHANGED Fifo!vars
    OBVIOUS
  <2>1. CASE UNCHANGED ringVars
    BY <2>1 DEF ringVars, Size, Fifo!vars
  <2>2. CASE Construct
    BY <2>2, ConstructAppends DEF Fifo!Next, Fifo!Put, Elements
  <2>3. CASE MoveOut
    BY <2>3, MoveOutTakesFirst DEF Fifo!Next, Fifo!Get, Elements
  <2>4. CASE Destroy
    <3>1. Elements' = <<>> /\ item' = item
      BY <2>4, DestroyHolds DEF Elements, Destroy
    <3> QED
      BY <3>1 DEF Fifo!Next, Fifo!Drop, Elements
  <2> QED
    BY <2>1, <2>2, <2>3, <2>4
       DEF Next, Done, vars, Call, Step, Take, Refuse, Announce, Wake,
           TimeOut, Restore, Retake, Retry, Signal, Post
<1> QED
  BY <1>1, <1>2, IInvHolds, PTL DEF Spec, FifoSpec, Fifo!Spec
=============================================================================
