------------------------- MODULE ReaderWriterQueue -------------------------
(***************************************************************************)
(* ReaderWriterQueue, a queue of blocks between one producer and one       *)
(* consumer thread, and BlockingReaderWriterQueue, the same behind a       *)
(* semaphore.  The blocks form a circle; each is a ring whose slots from   *)
(* front to tail hold elements and which wastes one slot.  The consumer    *)
(* empties frontBlock and then follows the circle up to tailBlock; the     *)
(* producer fills tailBlock, goes on to the next block if the consumer is  *)
(* not there, and otherwise adds a block.                                  *)
(*                                                                         *)
(* Each thread writes its own half of a block: the producer tail,          *)
(* localFront and next, the consumer front and localTail.  One action is   *)
(* one access to the other's half, or to a slot, with the thread's own     *)
(* accesses around it.  Elements are numbered as they are enqueued, modulo *)
(* Numbers: the queue never looks into them.                               *)
(***************************************************************************)
EXTENDS Integers, Sequences

CONSTANTS
  Shapes,    \* the template's MAX_BLOCK_SIZE with the constructor's size, and
             \* a bound: malloc gives such a queue no more than limit slots,
             \* each block counted at the size of the largest
  MaxSlots,  \* the largest limit
  Numbers,   \* elements are numbered modulo Numbers
  Raw,       \* a slot without an element
  None       \* no element

VARIABLES
  shape,       \* the member of Shapes this queue was made with
  blocking,    \* the queue is used through BlockingReaderWriterQueue
  blocks,      \* how many blocks there are
  sizeMask,    \* of each block
  next,        \* of each block
  front, localTail,  \* of each block, the consumer's
  tail, localFront,  \* of each block, the producer's
  data,        \* of each block
  frontBlock, tailBlock, largestBlockSize,
  permits,     \* the semaphore of the blocking queue
  pPc,         \* where the producer is
  cPc, cOp,    \* where the consumer is, and in which call
  item,        \* the element received last
  number,      \* of the next element
  promised,    \* the producer last found no room among at least size elements,
               \* the one being moved out included
  waiting      \* there was an element when the consumer's call began

producerVars == <<pPc, number, promised>>
consumerVars == <<cPc, cOp, item, waiting>>
fixedVars == <<shape, blocking>>
shapeVars == <<blocks, sizeMask, next, largestBlockSize>>
vars == <<fixedVars, shapeVars, front, localTail, tail, localFront, data,
          frontBlock, tailBlock, permits, producerVars, consumerVars>>

\* The least power of two that is not below x.
ceilToPow2[x \in Nat \ {0}] ==
  IF x = 1 THEN 1 ELSE 2 * ceilToPow2[(x + 1) \div 2]

\* The first blocks have this many slots ...
FirstSlots(q) ==
  IF ceilToPow2[q.size + 1] > q.max * 2 THEN q.max ELSE ceilToPow2[q.size + 1]

\* A plausible mistake: the spare block the comment asks for is left out.
FirstBlocks_NoSpare(q) ==
  IF ceilToPow2[q.size + 1] > q.max * 2
    THEN (q.size + q.max - 2) \div (q.max - 1)
    ELSE 1

\* ... and there are this many.
FirstBlocks(q) ==
  IF ceilToPow2[q.size + 1] > q.max * 2
    THEN (q.size + q.max * 2 - 3) \div (q.max - 1)
    ELSE 1

\* Every block has two slots at least.
Blocks == 1 .. MaxSlots \div 2

\* The constructor takes a size of zero too.  Its block, of one slot, counts as
\* full and as empty at once: a dequeue that goes on to it finds no element.
ASSUME QueueConstants ==
  /\ MaxSlots \in Nat /\ Numbers \in Nat \ {0}
  /\ Raw \notin 0 .. Numbers - 1
  /\ \A q \in Shapes : /\ q.size \in Nat \ {0}
                       /\ q.max \in Nat /\ q.max >= 2
                       /\ q.max = ceilToPow2[q.max]
                       /\ q.limit \in Nat /\ q.limit <= MaxSlots
                       /\ FirstBlocks(q) * FirstSlots(q) <= q.limit

Init ==
  /\ shape \in Shapes /\ blocking \in BOOLEAN
  /\ blocks = FirstBlocks(shape)
  /\ largestBlockSize = FirstSlots(shape)
  /\ sizeMask = [b \in Blocks |-> IF b <= blocks THEN largestBlockSize - 1 ELSE 0]
  /\ next = [b \in Blocks |-> IF b < blocks THEN b + 1 ELSE 1]
  /\ front = [b \in Blocks |-> 0] /\ localTail = front
  /\ tail = front /\ localFront = front
  /\ data = [b \in Blocks |-> [s \in 0 .. sizeMask[b] |-> Raw]]
  /\ frontBlock = 1 /\ tailBlock = 1
  /\ permits = 0
  /\ pPc = "idle"
  /\ cPc = "idle" /\ cOp = "dequeue"
  /\ item = None /\ number = 0
  /\ promised = TRUE /\ waiting = FALSE

\* Index i, which is less than two rounds, in a ring of m + 1 slots.
Wrap(m, i) == IF i <= m THEN i ELSE i - (m + 1)
After(m, i) == Wrap(m, i + 1)

\* How many slots there are from i up to j in such a ring.
Dist(m, i, j) == IF i <= j THEN j - i ELSE j - i + (m + 1)

\* How many elements a block holds, and which.
Count(b) == Dist(sizeMask[b], front[b], tail[b])
Content(b) ==
  [k \in 1 .. Count(b) |-> data[b][Wrap(sizeMask[b], front[b] + k - 1)]]

\* What the parts of a circle hold from each of them on up to the last one.
Joined(n, last, succ, part) ==
  LET from[b \in 1 .. n] ==
        IF b = last THEN part[b] ELSE part[b] \o from[succ[b]]
  IN  from

\* What the blocks hold from b on up to the tail block.
ContentFrom(b) ==
  Joined(blocks, tailBlock, next, [c \in 1 .. blocks |-> Content(c)])[b]

\* The queue's elements: the one being moved out has left it.
Elements ==
  LET all == ContentFrom(frontBlock)
  IN  IF cPc = "bump" THEN Tail(all) ELSE all

-----------------------------------------------------------------------------
(* The producer: inner_enqueue.                                            *)

PGoes(from, to) == pPc = from /\ pPc' = to

\* tail is followed by localFront, or by front: the block is full.
Room(b, f) == After(sizeMask[b], tail[b]) # f

UnchangedByProducer == UNCHANGED <<fixedVars, front, localTail, frontBlock,
                                   consumerVars>>

\* enqueue or try_enqueue is called; the front seen earlier leaves room.
EnqueueRoom ==
  /\ PGoes("idle", "write")
  /\ Room(tailBlock, localFront[tailBlock])
  /\ UnchangedByProducer
  /\ UNCHANGED <<shapeVars, tail, localFront, data, tailBlock, permits,
                 number, promised>>

\* It does not: the consumer's front is read.
EnqueueReadFront ==
  /\ ~Room(tailBlock, localFront[tailBlock])
  /\ PGoes("idle", IF Room(tailBlock, front[tailBlock]) THEN "write" ELSE "full")
  /\ localFront' = [localFront EXCEPT ![tailBlock] = front[tailBlock]]
  /\ promised' = (Len(ContentFrom(frontBlock)) >= shape.size)
  /\ UnchangedByProducer
  /\ UNCHANGED <<shapeVars, tail, data, tailBlock, permits, number>>

\* The element is constructed in block b, where nobody sees it yet.
ConstructIn(b, slot) ==
  /\ data' = [data EXCEPT ![b][slot] = number]
  /\ number' = (number + 1) % Numbers

Write ==
  /\ PGoes("write", "publish")
  /\ ConstructIn(tailBlock, tail[tailBlock])
  /\ UnchangedByProducer
  /\ UNCHANGED <<shapeVars, tail, localFront, tailBlock, permits, promised>>

\* The call has succeeded; the blocking queue's semaphore is still to signal.
Enqueued == IF blocking THEN "signal" ELSE "idle"

Publish ==
  /\ PGoes("publish", Enqueued)
  /\ tail' = [tail EXCEPT ![tailBlock] = After(sizeMask[tailBlock], @)]
  /\ UnchangedByProducer
  /\ UNCHANGED <<shapeVars, localFront, data, tailBlock, permits, number, promised>>

\* A plausible mistake: the block the consumer is in is taken for a free one.
NextIsFree_Always ==
  /\ PGoes("full", "ahead")
  /\ next[tailBlock] # tailBlock
  /\ UnchangedByProducer
  /\ UNCHANGED <<shapeVars, tail, localFront, data, tailBlock, permits,
                 number, promised>>

\* The consumer is not in the next block, which then is empty.
NextIsFree ==
  /\ PGoes("full", "ahead")
  /\ next[tailBlock] # frontBlock
  /\ UnchangedByProducer
  /\ UNCHANGED <<shapeVars, tail, localFront, data, tailBlock, permits,
                 number, promised>>

WriteAhead ==
  /\ PGoes("ahead", "publishAhead")
  /\ LET b == next[tailBlock]
     IN  /\ localFront' = [localFront EXCEPT ![b] = front[b]]
         /\ ConstructIn(b, tail[b])
  /\ UnchangedByProducer
  /\ UNCHANGED <<shapeVars, tail, tailBlock, permits, promised>>

PublishAhead ==
  /\ PGoes("publishAhead", "advance")
  /\ LET b == next[tailBlock]
     IN  tail' = [tail EXCEPT ![b] = After(sizeMask[b], @)]
  /\ UnchangedByProducer
  /\ UNCHANGED <<shapeVars, localFront, data, tailBlock, permits, number, promised>>

\* enqueue makes a block with the element in it, and then links it.
MakeBlock ==
  /\ PGoes("full", "link")
  /\ next[tailBlock] = frontBlock
  /\ LET b     == blocks + 1
         slots == IF largestBlockSize >= shape.max THEN largestBlockSize
                                                   ELSE largestBlockSize * 2
     IN  /\ b * slots <= shape.limit
         /\ blocks' = b
         /\ largestBlockSize' = slots
         /\ sizeMask' = [sizeMask EXCEPT ![b] = slots - 1]
         /\ data' = [data EXCEPT ![b] =
                       [s \in 0 .. slots - 1 |-> IF s = 0 THEN number ELSE Raw]]
         /\ number' = (number + 1) % Numbers
         /\ tail' = [tail EXCEPT ![b] = 1]
         /\ localTail' = [localTail EXCEPT ![b] = 1]
         /\ next' = [next EXCEPT ![b] = next[tailBlock]]
  /\ UNCHANGED <<fixedVars, front, localFront, frontBlock, tailBlock, permits,
                 promised, consumerVars>>

Link ==
  /\ PGoes("link", "advance")
  /\ next' = [next EXCEPT ![tailBlock] = blocks]
  /\ UnchangedByProducer
  /\ UNCHANGED <<blocks, sizeMask, largestBlockSize, tail, localFront, data,
                 tailBlock, permits, number, promised>>

Advance ==
  /\ PGoes("advance", Enqueued)
  /\ tailBlock' = next[tailBlock]
  /\ UnchangedByProducer
  /\ UNCHANGED <<shapeVars, tail, localFront, data, permits, number,
                 promised>>

\* try_enqueue may not allocate a block, or enqueue could not get one.
RefuseEnqueue ==
  /\ PGoes("full", "idle")
  /\ next[tailBlock] = frontBlock
  /\ UnchangedByProducer
  /\ UNCHANGED <<shapeVars, tail, localFront, data, tailBlock, permits,
                 number, promised>>

\* BlockingReaderWriterQueue signals after each element.
SignalOne ==
  /\ PGoes("signal", "idle")
  /\ permits' = permits + 1
  /\ UnchangedByProducer
  /\ UNCHANGED <<shapeVars, tail, localFront, data, tailBlock, number, promised>>

-----------------------------------------------------------------------------
(* The consumer: try_dequeue, pop and peek.                                *)

CGoes(from, to) == cPc = from /\ cPc' = to

UnchangedByConsumer == UNCHANGED <<fixedVars, shapeVars, tail, localFront,
                                   tailBlock, producerVars>>

\* try_dequeue, pop or peek is called.  The blocking queue takes a permit
\* first, but for peek; its waiting variants wait for the permit only.
CallConsumer ==
  /\ CGoes("idle", "start")
  /\ cOp' \in {"dequeue", "peek"}
  /\ IF blocking /\ cOp' = "dequeue"
       THEN permits > 0 /\ permits' = permits - 1
       ELSE UNCHANGED permits
  /\ waiting' = (Elements # <<>>)
  /\ UnchangedByConsumer
  /\ UNCHANGED <<front, localTail, data, frontBlock, item>>

\* There is an element at the front: peek returns it, the others take it.
Found == IF cOp = "peek" THEN "idle" ELSE "take"

StartLocal ==
  /\ CGoes("start", Found)
  /\ front[frontBlock] # localTail[frontBlock]
  /\ UnchangedByConsumer
  /\ UNCHANGED <<front, localTail, data, frontBlock, permits, cOp, item,
                 waiting>>

\* The tail seen earlier shows none: the producer's tail is read.
StartReadTail ==
  /\ front[frontBlock] = localTail[frontBlock]
  /\ CGoes("start", IF front[frontBlock] # tail[frontBlock] THEN Found
                                                           ELSE "check")
  /\ localTail' = [localTail EXCEPT ![frontBlock] = tail[frontBlock]]
  /\ UnchangedByConsumer
  /\ UNCHANGED <<front, data, frontBlock, permits, cOp, item, waiting>>

\* A plausible mistake: the block counts as empty because it was so before
\* the tail block was read.
CheckTailBlock_Once ==
  /\ frontBlock # tailBlock
  /\ CGoes("check", "next")
  /\ UnchangedByConsumer
  /\ UNCHANGED <<front, localTail, data, frontBlock, permits, cOp, item,
                 waiting>>

\* Another block is ahead ...
CheckTailBlock ==
  /\ frontBlock # tailBlock
  /\ CGoes("check", "recheck")
  /\ UnchangedByConsumer
  /\ UNCHANGED <<front, localTail, data, frontBlock, permits, cOp, item,
                 waiting>>

\* ... or none is.
RefuseDequeue ==
  /\ frontBlock = tailBlock
  /\ CGoes("check", "idle")
  /\ UnchangedByConsumer
  /\ UNCHANGED <<front, localTail, data, frontBlock, permits, cOp, item,
                 waiting>>

\* The producer may have filled the front block and moved on meanwhile.
Recheck ==
  /\ CGoes("recheck", IF front[frontBlock] # tail[frontBlock] THEN Found
                                                             ELSE "next")
  /\ localTail' = [localTail EXCEPT ![frontBlock] = tail[frontBlock]]
  /\ UnchangedByConsumer
  /\ UNCHANGED <<front, data, frontBlock, permits, cOp, item, waiting>>

\* peek looks into the next block and leaves it at that.
PeekNext ==
  /\ cOp = "peek" /\ CGoes("next", "idle")
  /\ UnchangedByConsumer
  /\ UNCHANGED <<front, localTail, data, frontBlock, permits, cOp, item,
                 waiting>>

ReadNext ==
  /\ cOp = "dequeue" /\ CGoes("next", "enter")
  /\ LET b == next[frontBlock]
     IN  localTail' = [localTail EXCEPT ![b] = tail[b]]
  /\ UnchangedByConsumer
  /\ UNCHANGED <<front, data, frontBlock, permits, cOp, item, waiting>>

EnterNext ==
  /\ CGoes("enter", "take")
  /\ frontBlock' = next[frontBlock]
  /\ UnchangedByConsumer
  /\ UNCHANGED <<front, localTail, data, permits, cOp, item, waiting>>

\* The element is moved out and destroyed ...
TakeOut ==
  /\ CGoes("take", "bump")
  /\ item' = data[frontBlock][front[frontBlock]]
  /\ data' = [data EXCEPT ![frontBlock][front[frontBlock]] = Raw]
  /\ UnchangedByConsumer
  /\ UNCHANGED <<front, localTail, frontBlock, permits, cOp, waiting>>

\* ... and then its slot is given back.
Bump ==
  /\ CGoes("bump", "idle")
  /\ front' = [front EXCEPT ![frontBlock] = After(sizeMask[frontBlock], @)]
  /\ UnchangedByConsumer
  /\ UNCHANGED <<localTail, data, frontBlock, permits, cOp, item, waiting>>

-----------------------------------------------------------------------------
\* The destructor goes around the circle once and destroys what each block
\* holds; nobody may use the queue meanwhile.
Destroy ==
  /\ PGoes("idle", "gone") /\ CGoes("idle", "gone")
  /\ data' = [b \in Blocks |-> [s \in 0 .. sizeMask[b] |->
       IF Dist(sizeMask[b], front[b], s) < Count(b) THEN Raw ELSE data[b][s]]]
  /\ front' = tail /\ localTail' = tail
  /\ frontBlock' = tailBlock
  /\ UNCHANGED <<fixedVars, shapeVars, tail, localFront, tailBlock, permits,
                 number, promised, cOp, item, waiting>>

Done == pPc = "gone" /\ UNCHANGED vars

Produce ==
  \/ EnqueueRoom \/ EnqueueReadFront \/ Write \/ Publish
  \/ NextIsFree \/ WriteAhead \/ PublishAhead
  \/ MakeBlock \/ Link \/ Advance \/ RefuseEnqueue \/ SignalOne

Consume ==
  \/ CallConsumer \/ StartLocal \/ StartReadTail \/ CheckTailBlock
  \/ RefuseDequeue \/ Recheck \/ PeekNext \/ ReadNext \/ EnterNext
  \/ TakeOut \/ Bump

Next == Produce \/ Consume \/ Destroy \/ Done

Spec == Init /\ [][Next]_vars
-----------------------------------------------------------------------------
(* Properties.                                                             *)

\* The consumer only leaves an empty front block for one with an element: the
\* producer advances tailBlock after it has written there.
ElementAhead ==
  cPc = "next" => front[next[frontBlock]] # tail[next[frontBlock]]

\* What else the code asserts, or relies on without: the block ahead of a
\* full one is empty, an element is only constructed in a free slot and only
\* moved out of a used one, and the destructor's walk destroys every element
\* there is.
AssertionsHold ==
  /\ ElementAhead
  /\ pPc = "ahead" =>
       LET b == next[tailBlock]
       IN  front[b] = tail[b] /\ data[b][tail[b]] = Raw
  /\ pPc = "write" => data[tailBlock][tail[tailBlock]] = Raw
  /\ cPc = "take" => data[frontBlock][front[frontBlock]] # Raw
  /\ pPc = "gone" => \A b \in Blocks : \A s \in 0 .. sizeMask[b] : data[b][s] = Raw

Fifo == INSTANCE BoundedFifo WITH
          Values <- 0 .. Numbers - 1, Capacity <- MaxSlots,
          queue <- Elements

\* The circle of blocks implements a queue: elements are received in the
\* order they were enqueued, also when the producer moves on to another block
\* while the consumer is between its two looks at this one.
FifoSpec == Fifo!Spec

\* A call that gives up has a reason.  try_enqueue found at least as many
\* elements as the constructor promised room for, try_dequeue or peek an
\* empty queue; and nobody who holds a permit of the blocking queue's
\* semaphore is refused.
RefusalsAreRight ==
  [][/\ pPc = "full" /\ pPc' = "idle" => promised
     /\ cPc = "check" /\ cPc' = "idle" =>
          ~waiting /\ ~(blocking /\ cOp = "dequeue")]_vars
=============================================================================
