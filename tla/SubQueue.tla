------------------------------ MODULE SubQueue ------------------------------
(***************************************************************************)
(* The sub-queue of one producer in a ConcurrentQueue, from which any      *)
(* number of consumers dequeue.  An explicit producer (one with a token)   *)
(* keeps its blocks in a circle and reuses the ones that became empty; an  *)
(* implicit one takes blocks from the queue's pool, and the consumer that  *)
(* empties a block gives it back.  Both have a block index, an array used  *)
(* as a ring, in which consumers find the block of an element by its       *)
(* distance from the index's last entry; it is replaced by one of twice    *)
(* the size when it is full.                                               *)
(*                                                                         *)
(* Consumers claim elements optimistically: dequeueOptimisticCount counts  *)
(* what was asked for, dequeueOvercommit what of it was not there, and     *)
(* headIndex what was claimed.                                             *)
(*                                                                         *)
(* One action is one access to a variable that other threads write, with   *)
(* the thread's own accesses around it.  A single enqueue or dequeue takes *)
(* the steps of a bulk operation for one element.  The element that is     *)
(* enqueued at an index is known by that index.                            *)
(***************************************************************************)
EXTENDS Integers, Sequences, FiniteSetsExt

CONSTANTS
  Consumers,
  Shapes,     \* the kinds of sub-queue to look at
  Blocks,     \* numbers of the blocks there may be
  BlockSize,  \* BLOCK_SIZE
  Nil,        \* no block
  Raw         \* a slot without an element

\* A shape has fields
\*   explicit  whether the producer has a token
\*   wrap      index_t counts modulo wrap
\*   start     so many elements have been enqueued and dequeued, one by one
\*   total     bound: so many more will be enqueued
\*   bulk      bound: the longest bulk enqueue
\*   take      bound: the longest bulk dequeue
\*   index     the initial size of the block index
\*   pool      blocks up to this number are preallocated
\*   maxSize   MAX_SUBQUEUE_SIZE
\*   throws    the elements' constructor may throw
ASSUME SubQueueConstants ==
  /\ IsFiniteSet(Consumers)
  /\ Blocks \subseteq Nat /\ BlockSize \in {2 ^ k : k \in 1 .. 8}
  /\ \A q \in Shapes :
       /\ {q.wrap, q.start, q.total, q.bulk, q.take} \subseteq Nat
       /\ q.wrap % (2 * BlockSize) = 0
       /\ q.start % BlockSize = 0 /\ q.start < q.wrap
       /\ 2 * q.total < q.wrap
       /\ q.index \in {2 ^ k : k \in 1 .. 8}
       /\ q.maxSize % BlockSize = 0
       /\ q.start > 0 => q.pool >= 1

VARIABLES
  shape,       \* the member of Shapes this sub-queue is
  tailIndex, headIndex, dequeueOptimisticCount, dequeueOvercommit,
  data,        \* of each block
  emptied,     \* of each block: the slots whose elements are dequeued
  next,        \* of each block, in the circle of an explicit producer
  tailBlock,
  headers,     \* the block indices, the current one last
  entries,     \* their entries
  slotsUsed, indexFront,  \* an explicit producer's own view of its index
  free, heap,  \* blocks in the pool, and not allocated
  pPc, call,   \* where the producer is, and its call's locals
  cPc, my,     \* where each consumer is, and its call's locals
  ample        \* each consumer's call had elements and no rival, all along

countVars == <<tailIndex, headIndex, dequeueOptimisticCount, dequeueOvercommit>>
indexVars == <<headers, entries, slotsUsed, indexFront>>
blockVars == <<emptied, next, tailBlock, free, heap>>
producerVars == <<pPc, call>>
consumerVars == <<cPc, my>>
vars == <<shape, countVars, data, blockVars, indexVars, producerVars,
          consumerVars, ample>>

-----------------------------------------------------------------------------
(* Arithmetic on indices, which wrap.                                      *)

W == shape.wrap
Plus(i, j) == (i + j) % W
circular_less_than(a, b) == (a - b) % W > W \div 2
Base(i) == i - (i % BlockSize)
Slot(i) == i % BlockSize

\* How many blocks b is ahead of a, or, if negative, behind.
BlocksAhead(b, a) ==
  LET d == (b - a) % W
  IN  (IF d >= W \div 2 THEN d - W ELSE d) \div BlockSize

Invalid == -1
NoCall == [n |-> 0, alloc |-> FALSE, left |-> 0, fresh |-> <<>>, start |-> Nil,
           front |-> 0, used |-> 0]
NoClaim == [want |-> 0, tail |-> 0, over |-> 0, asked |-> 0, first |-> 0,
            count |-> 0, back |-> 0, header |-> 0, last |-> 0, pos |-> 0]

Slots == 0 .. BlockSize - 1

\* A sub-queue that is new, or was used and emptied: then it had but one block,
\* which an explicit producer still has, and whose entries went round the index.
Used == shape.start > 0
Owns(b) == Used /\ shape.explicit /\ b = 1
FirstEntry(e) ==
  LET base == shape.start
                - BlockSize * (1 + ((shape.start \div BlockSize - e) % shape.index))
  IN  IF base < 0 THEN [base |-> Invalid, block |-> Nil]
      ELSE [base |-> base, block |-> IF shape.explicit THEN 1 ELSE Nil]

Init ==
  /\ shape \in Shapes
  /\ tailIndex = shape.start /\ headIndex = shape.start
  /\ dequeueOptimisticCount = shape.start /\ dequeueOvercommit = 0
  /\ data = [b \in Blocks |-> [s \in Slots |-> Raw]]
  /\ emptied = [b \in Blocks |-> IF Used /\ b = 1 THEN Slots ELSE {}]
  /\ next = [b \in Blocks |-> IF Owns(b) THEN b ELSE Nil]
  /\ tailBlock = IF Used THEN 1 ELSE Nil
  /\ headers = << [size |-> shape.index,
                   last |-> (shape.start \div BlockSize - 1) % shape.index,
                   cell |-> [k \in 0 .. shape.index - 1 |-> k + 1]] >>
  /\ entries = [e \in 1 .. shape.index |-> FirstEntry(e)]
  /\ slotsUsed = IF Owns(1) THEN 1 ELSE 0
  /\ indexFront = IF shape.explicit THEN (shape.start \div BlockSize) % shape.index
                                    ELSE 0
  /\ free = {b \in Blocks : b <= shape.pool /\ ~Owns(b)}
  /\ heap = {b \in Blocks : b > shape.pool}
  /\ pPc = "idle" /\ call = NoCall
  /\ cPc = [c \in Consumers |-> "idle"]
  /\ my = [c \in Consumers |-> NoClaim]
  /\ ample = [c \in Consumers |-> FALSE]

\* The blocks' index: the current one, and its entry at a position.
Index == headers[Len(headers)]
EntryAt(h, pos) == h.cell[pos % h.size]

-----------------------------------------------------------------------------
(* What a consumer may count on: an element, and nobody else about to claim *)
(* one.                                                                    *)

Claiming == {"overcommit", "optimistic", "claim", "recheck", "giveBack", "advance"}

Ample(c) ==
  /\ tailIndex # headIndex
  /\ \A d \in Consumers \ {c} : cPc[d] \notin Claiming

\* Part of every action.
Watch == ample' = [c \in Consumers |->
                     /\ cPc'[c] \in Claiming /\ Ample(c)'
                     /\ cPc[c] = "idle" \/ ample[c]]

PGoes(from, to) == pPc = from /\ pPc' = to
CGoes(c, from, to) == cPc[c] = from /\ cPc' = [cPc EXCEPT ![c] = to]

-----------------------------------------------------------------------------
(* enqueue and enqueue_bulk: get the blocks, construct, publish.           *)

\* The index at which the k-th new block begins.
NewBase(k) ==
  Plus(tailIndex, ((BlockSize - Slot(tailIndex)) % BlockSize) + ((k - 1) * BlockSize))
BlocksNeeded(n) ==
  (Slot(tailIndex - 1) + n) \div BlockSize

\* The call begins: n elements, allocating or not.
Begin(n) ==
  /\ ((tailIndex - shape.start) % W) + n <= shape.total
  /\ PGoes("idle", IF BlocksNeeded(n) = 0 THEN "construct"
                   ELSE IF shape.explicit THEN "ahead" ELSE "room")
  /\ call' \in {[n |-> n, alloc |-> a, left |-> BlocksNeeded(n),
                 fresh |-> <<>>, start |-> tailBlock,
                 front |-> indexFront, used |-> slotsUsed] :
                a \in IF BlocksNeeded(n) = 0 THEN {FALSE} ELSE BOOLEAN}
  /\ UNCHANGED <<shape, countVars, data, blockVars, indexVars, consumerVars>>
  /\ Watch

EnqueueOne == Begin(1)
EnqueueBulk == \E n \in 2 .. shape.bulk : Begin(n)

\* The block ahead in the circle can be reused.
IsEmpty(b) == emptied[b] = Slots
AheadIsEmpty ==
  /\ tailBlock # Nil
  /\ call.fresh # <<>> => next[tailBlock] # call.fresh[1]
  /\ IsEmpty(next[tailBlock])

\* Block b is the next new one; an explicit producer enters it in its index.
Got(b) == call' = [call EXCEPT !.fresh = Append(@, b), !.left = @ - 1,
                               !.alloc = @ /\ call.left > 1]
Entered(b) ==
  /\ entries' = [entries EXCEPT ![EntryAt(Index, indexFront)] =
                   [base |-> NewBase(Len(call.fresh) + 1), block |-> b]]
  /\ indexFront' = (indexFront + 1) % Index.size

\* A plausible mistake: the block ahead is taken before it is empty.
TakeAhead_Early ==
  /\ PGoes("ahead", IF call.left = 1 THEN "expose" ELSE "ahead")
  /\ tailBlock # Nil
  /\ call.fresh # <<>> => next[tailBlock] # call.fresh[1]
  /\ tailBlock' = next[tailBlock]
  /\ Got(next[tailBlock]) /\ Entered(next[tailBlock])
  /\ UNCHANGED <<shape, countVars, data, emptied, next, free, heap, headers,
                 slotsUsed, consumerVars>>
  /\ Watch

TakeAhead ==
  /\ PGoes("ahead", IF call.left = 1 THEN "expose" ELSE "ahead")
  /\ AheadIsEmpty
  /\ tailBlock' = next[tailBlock]
  /\ Got(next[tailBlock]) /\ Entered(next[tailBlock])
  /\ UNCHANGED <<shape, countVars, data, emptied, next, free, heap, headers,
                 slotsUsed, consumerVars>>
  /\ Watch

LeaveCircle ==
  /\ PGoes("ahead", "room")
  /\ ~AheadIsEmpty
  /\ UNCHANGED <<shape, countVars, data, blockVars, indexVars, call, consumerVars>>
  /\ Watch

\* There is no leeway for another block: indices could be confused when they
\* wrap, or the sub-queue would become too long.
Full ==
  LET base == NewBase(Len(call.fresh) + 1)
  IN  \/ ~circular_less_than(headIndex, Plus(base, BlockSize))
      \/ shape.maxSize - BlockSize < (base - headIndex) % W

\* The entry an implicit producer would use next.
NextEntry == EntryAt(Index, Index.last + 1)
IndexFull ==
  IF shape.explicit THEN slotsUsed = Index.size
                    ELSE entries[NextEntry].block # Nil

HeadIsRead ==
  /\ ~Full /\ ~IndexFull
  /\ PGoes("room", IF shape.explicit THEN "block" ELSE "enter")
  /\ UNCHANGED <<shape, countVars, data, blockVars, indexVars, call, consumerVars>>
  /\ Watch

\* new_block_index of an explicit producer: the used entries are copied to the
\* front of an array twice as long.
GrowExplicit ==
  /\ shape.explicit /\ call.alloc /\ ~Full /\ IndexFull
  /\ PGoes("room", "block")
  /\ LET old  == Index
         size == 2 * old.size
         from == indexFront - slotsUsed
     IN  /\ entries' = entries \o
              [k \in 1 .. size |->
                 IF k <= slotsUsed THEN entries[EntryAt(old, from + k - 1)]
                                   ELSE [base |-> Invalid, block |-> Nil]]
         /\ headers' = Append(headers,
              [size |-> size, last |-> call.used - 1,
               cell |-> [k \in 0 .. size - 1 |-> Len(entries) + k + 1]])
  /\ indexFront' = slotsUsed
  /\ call' = [call EXCEPT !.front = call.used]
  /\ UNCHANGED <<shape, countVars, data, blockVars, slotsUsed, consumerVars>>
  /\ Watch

\* new_block_index of an implicit producer: the new array begins with the old
\* entries, the oldest first, and as many new ones follow.
GrowImplicit ==
  /\ ~shape.explicit /\ call.alloc /\ ~Full /\ IndexFull
  /\ PGoes("room", "enter")
  /\ LET old == Index
     IN  /\ entries' = entries \o
              [k \in 1 .. old.size |-> [base |-> Invalid, block |-> Nil]]
         /\ headers' = Append(headers,
              [size |-> 2 * old.size, last |-> old.size - 1,
               cell |-> [k \in 0 .. 2 * old.size - 1 |->
                           IF k < old.size THEN EntryAt(old, old.last + 1 + k)
                                           ELSE Len(entries) + k - old.size + 1]])
  /\ UNCHANGED <<shape, countVars, data, blockVars, slotsUsed, indexFront, call,
                 consumerVars>>
  /\ Watch

\* insert_block_index_entry.
Enter ==
  /\ PGoes("enter", "block")
  /\ entries' = [entries EXCEPT ![NextEntry].base = NewBase(Len(call.fresh) + 1)]
  /\ headers' = [headers EXCEPT ![Len(headers)].last = (@ + 1) % Index.size]
  /\ UNCHANGED <<shape, countVars, data, blockVars, slotsUsed, indexFront, call,
                 consumerVars>>
  /\ Watch

\* requisition_block: from the pool, or a new one.
Available == IF free # {} THEN free ELSE IF call.alloc THEN heap ELSE {}
Requisitioned(b) == free' = free \ {b} /\ heap' = heap \ {b}

\* The block is linked into the circle; it counts as empty until the call is
\* sure of all its blocks.
TakeExplicit ==
  /\ shape.explicit /\ Available # {}
  /\ PGoes("block", IF call.left = 1 THEN "expose" ELSE "room")
  /\ LET b == Min(Available)
     IN  /\ Requisitioned(b)
         /\ Got(b) /\ Entered(b)
         /\ emptied' = [emptied EXCEPT ![b] = Slots]
         /\ next' = IF tailBlock = Nil
                      THEN [next EXCEPT ![b] = b]
                      ELSE [next EXCEPT ![b] = next[tailBlock], ![tailBlock] = b]
         /\ tailBlock' = b
  /\ slotsUsed' = slotsUsed + 1
  /\ UNCHANGED <<shape, countVars, data, headers, consumerVars>>
  /\ Watch

TakeImplicit ==
  /\ ~shape.explicit /\ Available # {}
  /\ PGoes("block", IF call.left = 1 THEN "construct" ELSE "room")
  /\ LET b == Min(Available)
     IN  /\ Requisitioned(b)
         /\ Got(b)
         /\ entries' = [entries EXCEPT ![EntryAt(Index, Index.last)].block = b]
         /\ emptied' = [emptied EXCEPT ![b] = {}]
         /\ tailBlock' = b
  /\ UNCHANGED <<shape, countVars, data, next, headers, slotsUsed, indexFront,
                 consumerVars>>
  /\ Watch

\* add_block_to_free_list: only preallocated blocks are kept.
Released(bs) ==
  /\ free' = free \cup {b \in bs : b <= shape.pool}
  /\ heap' = heap \cup {b \in bs : b > shape.pool}

Fresh == {call.fresh[k] : k \in 1 .. Len(call.fresh)}

\* An explicit producer keeps the blocks in its circle for later ...
KeepBlocks ==
  /\ shape.explicit
  /\ indexFront' = call.front /\ slotsUsed' = call.used
  /\ tailBlock' = IF call.start # Nil \/ call.fresh = <<>> THEN call.start
                                                         ELSE call.fresh[1]
  /\ UNCHANGED <<headers, entries, free, heap>>

\* ... an implicit one takes their entries, and the one that was still to get
\* a block, out of its index and returns them.
ReturnBlocks(entered) ==
  /\ ~shape.explicit
  /\ LET back == {EntryAt(Index, Index.last - k) :
                    k \in 0 .. Len(call.fresh) + entered - 1}
     IN  entries' = [e \in DOMAIN entries |->
           IF e \in back THEN [entries[e] EXCEPT !.block = Nil] ELSE entries[e]]
  /\ headers' = [headers EXCEPT ![Len(headers)].last =
                   (@ - Len(call.fresh) - entered) % Index.size]
  /\ Released(Fresh)
  /\ tailBlock' = call.start
  /\ UNCHANGED <<slotsUsed, indexFront>>

\* The call fails: no leeway, no room in an index that may or can not be
\* replaced, no block.
EnqueueFails ==
  /\ \/ PGoes("room", "idle") /\ (Full \/ IndexFull)
        /\ (KeepBlocks \/ ReturnBlocks(0))
     \/ PGoes("block", "idle") /\ (KeepBlocks \/ ReturnBlocks(1))
        /\ free = {}
  /\ call' = NoCall
  /\ UNCHANGED <<shape, countVars, data, emptied, next, consumerVars>>
  /\ Watch

\* Consumers may look at the explicit producer's new entries.
Expose ==
  /\ PGoes("expose", "construct")
  /\ emptied' = [b \in Blocks |-> IF b \in Fresh THEN {} ELSE emptied[b]]
  /\ headers' = [headers EXCEPT ![Len(headers)].last = (indexFront - 1) % Index.size]
  /\ UNCHANGED <<shape, countVars, data, next, tailBlock, free, heap, entries,
                 slotsUsed, indexFront, call, consumerVars>>
  /\ Watch

\* Where the call's k-th element goes: to the block it found, then to the new
\* ones.
BlockFor(k) ==
  LET i == Plus(tailIndex, k - 1)
  IN  IF Slot(tailIndex) # 0 /\ Base(i) = Base(tailIndex) THEN call.start
      ELSE call.fresh[BlocksAhead(Base(i), NewBase(1)) + 1]
Target == [k \in 1 .. call.n |-> <<BlockFor(k), Slot((tailIndex + k) - 1)>>]

Construct ==
  /\ PGoes("construct", "publish")
  /\ data' = [b \in Blocks |-> [s \in Slots |->
       IF \E k \in 1 .. call.n : Target[k] = <<b, s>>
         THEN Plus(tailIndex, (CHOOSE k \in 1 .. call.n : Target[k] = <<b, s>>) - 1)
         ELSE data[b][s]]]
  /\ UNCHANGED <<shape, countVars, blockVars, indexVars, call, consumerVars>>
  /\ Watch

\* A constructor throws; what the call constructed is destroyed again, and an
\* implicit producer returns the call's blocks.
ConstructThrows ==
  /\ shape.throws /\ ~shape.explicit
  /\ PGoes("construct", "idle")
  /\ ReturnBlocks(0)
  /\ call' = NoCall
  /\ UNCHANGED <<shape, countVars, data, emptied, next, consumerVars>>
  /\ Watch

Publish ==
  /\ PGoes("publish", "idle")
  /\ tailIndex' = Plus(tailIndex, call.n)
  /\ call' = NoCall
  /\ UNCHANGED <<shape, headIndex, dequeueOptimisticCount, dequeueOvercommit,
                 data, blockVars, indexVars, consumerVars>>
  /\ Watch

-----------------------------------------------------------------------------
(* dequeue and dequeue_bulk by consumer c.                                 *)

Sets(c, r) == my' = [my EXCEPT ![c] = r]

\* The call begins with a look at tailIndex ...
Dequeue(c, n) ==
  /\ CGoes(c, "idle", "overcommit")
  /\ Sets(c, [NoClaim EXCEPT !.want = n, !.tail = tailIndex])
  /\ UNCHANGED <<shape, countVars, data, blockVars, indexVars, producerVars>>
  /\ Watch

DequeueOne(c) == Dequeue(c, 1)
DequeueBulk(c) == \E n \in 2 .. shape.take : Dequeue(c, n)

LoadOvercommit(c) ==
  /\ CGoes(c, "overcommit", "optimistic")
  /\ Sets(c, [my[c] EXCEPT !.over = dequeueOvercommit])
  /\ UNCHANGED <<shape, countVars, data, blockVars, indexVars, producerVars>>
  /\ Watch

\* ... and returns if nothing seems to be there.
Seem(c) == (my[c].tail - (dequeueOptimisticCount - my[c].over)) % W

SeemsEmpty(c) ==
  /\ ~circular_less_than(0, Seem(c))
  /\ CGoes(c, "optimistic", "idle")
  /\ Sets(c, NoClaim)
  /\ UNCHANGED <<shape, countVars, data, blockVars, indexVars, producerVars>>
  /\ Watch

SeemsFilled(c) ==
  /\ circular_less_than(0, Seem(c))
  /\ CGoes(c, "optimistic", "claim")
  /\ Sets(c, [my[c] EXCEPT !.asked = Min({Seem(c), my[c].want}), !.tail = 0])
  /\ UNCHANGED <<shape, countVars, data, blockVars, indexVars, producerVars>>
  /\ Watch

\* It asks; .first holds what had been asked before, less the overcommitted.
Claim(c) ==
  /\ CGoes(c, "claim", "recheck")
  /\ dequeueOptimisticCount' = Plus(dequeueOptimisticCount, my[c].asked)
  /\ Sets(c, [my[c] EXCEPT !.first = (dequeueOptimisticCount - my[c].over) % W,
                           !.over = 0])
  /\ UNCHANGED <<shape, tailIndex, headIndex, dequeueOvercommit, data, blockVars,
                 indexVars, producerVars>>
  /\ Watch

\* How many of the elements asked for there really are.
Actual(c) ==
  LET there == (tailIndex - my[c].first) % W
  IN  IF circular_less_than(0, there) THEN Min({there, my[c].asked}) ELSE 0

\* A plausible mistake: what was not there is not given back.
Recheck_Keeps(c) ==
  /\ CGoes(c, "recheck", IF Actual(c) > 0 THEN "advance" ELSE "idle")
  /\ Sets(c, IF Actual(c) > 0 THEN [my[c] EXCEPT !.count = Actual(c), !.first = 0]
                              ELSE NoClaim)
  /\ UNCHANGED <<shape, countVars, data, blockVars, indexVars, producerVars>>
  /\ Watch

Recheck(c) ==
  /\ CGoes(c, "recheck", IF Actual(c) < my[c].asked THEN "giveBack" ELSE "advance")
  /\ Sets(c, [my[c] EXCEPT !.count = Actual(c), !.back = my[c].asked - Actual(c),
                           !.first = 0])
  /\ UNCHANGED <<shape, countVars, data, blockVars, indexVars, producerVars>>
  /\ Watch

\* A plausible mistake: one is given back, as after a single dequeue.
GiveBack_One(c) ==
  /\ CGoes(c, "giveBack", IF my[c].count > 0 THEN "advance" ELSE "idle")
  /\ dequeueOvercommit' = Plus(dequeueOvercommit, 1)
  /\ Sets(c, IF my[c].count > 0 THEN [my[c] EXCEPT !.back = 0] ELSE NoClaim)
  /\ UNCHANGED <<shape, tailIndex, headIndex, dequeueOptimisticCount, data,
                 blockVars, indexVars, producerVars>>
  /\ Watch

\* The rest is given back as overcommitted.
GiveBack(c) ==
  /\ CGoes(c, "giveBack", IF my[c].count > 0 THEN "advance" ELSE "idle")
  /\ dequeueOvercommit' = Plus(dequeueOvercommit, my[c].back)
  /\ Sets(c, IF my[c].count > 0 THEN [my[c] EXCEPT !.back = 0] ELSE NoClaim)
  /\ UNCHANGED <<shape, tailIndex, headIndex, dequeueOptimisticCount, data,
                 blockVars, indexVars, producerVars>>
  /\ Watch

\* The elements are claimed.
Advance(c) ==
  /\ CGoes(c, "advance", "header")
  /\ headIndex' = Plus(headIndex, my[c].count)
  /\ Sets(c, [my[c] EXCEPT !.first = headIndex, !.asked = 0, !.want = 0])
  /\ UNCHANGED <<shape, tailIndex, dequeueOptimisticCount, dequeueOvercommit,
                 data, blockVars, indexVars, producerVars>>
  /\ Watch

\* Their first block is looked up: the index, its last entry, and the entry as
\* far from that as the block is from the last.
LoadHeader(c) ==
  /\ CGoes(c, "header", "last")
  /\ Sets(c, [my[c] EXCEPT !.header = Len(headers)])
  /\ UNCHANGED <<shape, countVars, data, blockVars, indexVars, producerVars>>
  /\ Watch

LoadLast(c) ==
  /\ CGoes(c, "last", "locate")
  /\ Sets(c, [my[c] EXCEPT !.last = headers[my[c].header].last])
  /\ UNCHANGED <<shape, countVars, data, blockVars, indexVars, producerVars>>
  /\ Watch

Locate(c) ==
  /\ CGoes(c, "locate", "take")
  /\ LET h    == headers[my[c].header]
         base == entries[EntryAt(h, my[c].last)].base
     IN  Sets(c, [my[c] EXCEPT !.last = 0,
           !.pos = (my[c].last + BlocksAhead(Base(my[c].first), base)) % h.size])
  /\ UNCHANGED <<shape, countVars, data, blockVars, indexVars, producerVars>>
  /\ Watch

\* The entry c is at, and the slots of its elements in this block.
MyEntry(c) == EntryAt(headers[my[c].header], my[c].pos)
MyBlock(c) == entries[MyEntry(c)].block
MyCount(c) == Min({my[c].count, BlockSize - Slot(my[c].first)})
MySlots(c) == Slot(my[c].first) .. (Slot(my[c].first) + MyCount(c)) - 1

\* They are moved out and destroyed ...
TakeOut(c) ==
  /\ CGoes(c, "take", "setEmpty")
  /\ data' = [data EXCEPT ![MyBlock(c)] =
                [s \in Slots |-> IF s \in MySlots(c) THEN Raw ELSE @[s]]]
  /\ UNCHANGED <<shape, countVars, blockVars, indexVars, producerVars, my>>
  /\ Watch

\* On to the next block, if there is more.
MoreAfter(c) == IF my[c].count > MyCount(c) THEN "take" ELSE "idle"
NextBlock(c) ==
  Sets(c, IF my[c].count > MyCount(c)
            THEN [my[c] EXCEPT !.first = Plus(@, MyCount(c)),
                               !.count = @ - MyCount(c),
                               !.pos = (@ + 1) % headers[my[c].header].size]
            ELSE NoClaim)

\* A plausible mistake: whoever dequeues the block's last element returns it.
SetEmpty_AtEnd(c) ==
  /\ cPc[c] = "setEmpty"
  /\ LET es == emptied[MyBlock(c)] \cup MySlots(c)
     IN  /\ emptied' = [emptied EXCEPT ![MyBlock(c)] = es]
         /\ IF ~shape.explicit /\ BlockSize - 1 \in MySlots(c)
              THEN CGoes(c, "setEmpty", "clear") /\ UNCHANGED my
              ELSE CGoes(c, "setEmpty", MoreAfter(c)) /\ NextBlock(c)
  /\ UNCHANGED <<shape, countVars, data, next, tailBlock, free, heap, indexVars,
                 producerVars>>
  /\ Watch

\* ... and then their slots are empty.  Whoever empties an implicit producer's
\* block returns it.
SetEmpty(c) ==
  /\ cPc[c] = "setEmpty"
  /\ LET es == emptied[MyBlock(c)] \cup MySlots(c)
     IN  /\ emptied' = [emptied EXCEPT ![MyBlock(c)] = es]
         /\ IF ~shape.explicit /\ es = Slots
              THEN CGoes(c, "setEmpty", "clear") /\ UNCHANGED my
              ELSE CGoes(c, "setEmpty", MoreAfter(c)) /\ NextBlock(c)
  /\ UNCHANGED <<shape, countVars, data, next, tailBlock, free, heap, indexVars,
                 producerVars>>
  /\ Watch

\* The block leaves the index and goes back to the pool; nobody else knows it
\* in between.
Return(c) ==
  /\ CGoes(c, "clear", MoreAfter(c))
  /\ entries' = [entries EXCEPT ![MyEntry(c)].block = Nil]
  /\ Released({MyBlock(c)})
  /\ NextBlock(c)
  /\ UNCHANGED <<shape, countVars, data, emptied, next, tailBlock, headers,
                 slotsUsed, indexFront, producerVars>>
  /\ Watch

-----------------------------------------------------------------------------
(* The destructors, when nobody uses the sub-queue any more.               *)

\* The explicit producer's blocks, once round from the tail.
Circle ==
  LET after[k \in Nat] == IF k = 0 THEN tailBlock ELSE next[after[k - 1]]
  IN  {after[k] : k \in 1 .. Cardinality(Blocks)}

\* The entry of the block whose elements are partly dequeued: the first one in
\* use that does not end before the head.
HalfDequeued ==
  LET from(k) == entries[EntryAt(Index, (indexFront - slotsUsed) + k)]
      reached == {k \in 0 .. Index.size - 1 :
                    ~circular_less_than(Plus(from(k).base, BlockSize), headIndex)}
  IN  from(Min(reached))

DestroyedExplicit ==
  LET half == IF Slot(headIndex) = 0 THEN Nil
              ELSE HalfDequeued.block
      end  == IF Slot(tailIndex) = 0 THEN BlockSize ELSE Slot(tailIndex)
  IN  {x \in Circle \X Slots :
         /\ ~IsEmpty(x[1])
         /\ x[1] = half => x[2] >= Slot(headIndex)
         /\ x[1] = tailBlock => x[2] < end}

\* The implicit producer looks each block up.
BlockOf(i) ==
  entries[EntryAt(Index, Index.last
            + BlocksAhead(Base(i), entries[EntryAt(Index, Index.last)].base))].block

Remaining == {Plus(headIndex, k) : k \in 0 .. ((tailIndex - headIndex) % W) - 1}
DestroyedImplicit == {<<BlockOf(i), Slot(i)>> : i \in Remaining}

Destroyed ==
  IF tailBlock = Nil THEN {}
  ELSE IF shape.explicit THEN DestroyedExplicit ELSE DestroyedImplicit

\* The blocks it returns.
Owned ==
  IF tailBlock = Nil THEN {}
  ELSE IF shape.explicit THEN Circle
    ELSE {BlockOf(i) : i \in Remaining} \cup
         (IF Remaining # {} \/ Slot(tailIndex) # 0 THEN {tailBlock} ELSE {})

Destroy ==
  /\ \A c \in Consumers : cPc[c] = "idle"
  /\ PGoes("idle", "gone")
  /\ cPc' = [c \in Consumers |-> "gone"]
  /\ data' = [b \in Blocks |-> [s \in Slots |->
                IF <<b, s>> \in Destroyed THEN Raw ELSE data[b][s]]]
  /\ Released(Owned)
  /\ UNCHANGED <<shape, countVars, emptied, next, tailBlock, indexVars, call, my>>
  /\ Watch

Done == pPc = "gone" /\ UNCHANGED vars

-----------------------------------------------------------------------------
Produce ==
  \/ EnqueueOne \/ EnqueueBulk \/ TakeAhead \/ LeaveCircle \/ HeadIsRead
  \/ GrowExplicit \/ GrowImplicit \/ Enter \/ TakeExplicit \/ TakeImplicit
  \/ EnqueueFails \/ Expose \/ Construct \/ ConstructThrows \/ Publish

Consume(c) ==
  \/ DequeueOne(c) \/ DequeueBulk(c) \/ LoadOvercommit(c)
  \/ SeemsEmpty(c) \/ SeemsFilled(c)
  \/ Claim(c) \/ Recheck(c) \/ GiveBack(c) \/ Advance(c)
  \/ LoadHeader(c) \/ LoadLast(c) \/ Locate(c) \/ TakeOut(c)
  \/ SetEmpty(c) \/ Return(c)

Next == Produce \/ (\E c \in Consumers : Consume(c)) \/ Destroy \/ Done

Spec == Init /\ [][Next]_vars
-----------------------------------------------------------------------------
(* Properties.                                                             *)

\* The sum of the numbers f[x], for x in S.
Total(S, f) == Cardinality(UNION {{x} \X (1 .. f[x]) : x \in S})

Asked == [c \in Consumers |->
  IF cPc[c] = "recheck" THEN my[c].asked
  ELSE IF cPc[c] \in {"giveBack", "advance"} THEN my[c].count + my[c].back
  ELSE 0]
Secured == [c \in Consumers |->
  IF cPc[c] \in {"giveBack", "advance"} THEN my[c].count ELSE 0]

\* What the consumers asked for is claimed, overcommitted, or still in the
\* hands of a consumer, also when the counters wrap ...
CountersBalance ==
  ((dequeueOptimisticCount - dequeueOvercommit) - headIndex
     - Total(Consumers, Asked)) % W = 0

\* ... and no more is claimed than was published.
NothingOverclaimed ==
  ~circular_less_than(tailIndex, Plus(headIndex, Total(Consumers, Secured)))

CountersMatch == CountersBalance /\ NothingOverclaimed

\* Every consumer finds the elements it claimed, each in the block the index
\* leads it to and not yet emptied; the producer constructs in free slots of
\* blocks that are its own; and the destructor, whenever it may run, destroys
\* exactly the elements that are left, and then has returned every block.
ElementsAreTheirOwn ==
  /\ \A c \in Consumers :
       cPc[c] = "take" =>
         /\ MyBlock(c) # Nil
         /\ \A s \in MySlots(c) :
              /\ data[MyBlock(c)][s] = Plus(Base(my[c].first), s)
              /\ s \notin emptied[MyBlock(c)]
  /\ pPc = "construct" =>
       \A k \in 1 .. call.n :
         LET b == Target[k][1]
         IN  /\ b \notin free \cup heap
             /\ data[b][Target[k][2]] = Raw
             /\ Target[k][2] \notin emptied[b]
  /\ pPc = "idle" /\ (\A c \in Consumers : cPc[c] = "idle") =>
       Destroyed = {x \in Blocks \X Slots : data[x[1]][x[2]] # Raw}
  /\ pPc = "gone" =>
       free = {b \in Blocks : b <= shape.pool} /\ heap = Blocks \ free

\* A condition, not a property: the code leaves it to the width of its indices.
\* They are told apart as long as they are no further apart than half a round, so
\* what was asked for must not run ahead of the head by more than that, neither
\* less what is overcommitted now nor less what a consumer that is about to claim
\* takes for overcommitted.  Consumers that make each other's claims fail without
\* end could move it further while a third one sleeps.
Ahead(over) == ((dequeueOptimisticCount - over) - headIndex) % W
Leeway == (shape.wrap \div 2) - shape.total

NobodyOversleeps ==
  /\ Ahead(dequeueOvercommit) <= Leeway
  /\ \A c \in Consumers :
       cPc[c] \in {"optimistic", "claim"} => Ahead(my[c].over) <= Leeway

\* A dequeue that had elements before it and no rival all along never comes
\* back empty: whatever went before, what was asked for in vain is given back,
\* and the loops of the blocking queue around it rely on that.
RefusalsHaveReason ==
  [][\A c \in Consumers :
       cPc[c] \in {"optimistic", "giveBack"} /\ cPc'[c] = "idle" => ~ample[c]]_vars

\* What the explicit producer's destructor asserts when it may run: the block
\* it takes for the one that is partly dequeued begins before the head.
HeadBlockIsFound ==
  /\ shape.explicit /\ tailBlock # Nil /\ Slot(headIndex) # 0
  /\ pPc = "idle" /\ \A c \in Consumers : cPc[c] = "idle"
  => circular_less_than(HalfDequeued.base, headIndex)
=============================================================================
