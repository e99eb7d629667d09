------------------------ MODULE ReaderWriterQueueProof ------------------------
(***************************************************************************)
(* The assertions of ReaderWriterQueue hold, it is a queue, and its        *)
(* refusals have reasons, for every size, every block size and every       *)
(* interleaving of the two threads.                                        *)
(*                                                                         *)
(* The invariant numbers the blocks by how far each is before the tail     *)
(* block; the numbering d is not part of the state, so that the invariant  *)
(* of the specification is that some numbering satisfies Inv(d).           *)
(***************************************************************************)
EXTENDS ReaderWriterQueue, WellFoundedInduction, SequenceTheorems, TLAPS

Values == 0 .. Numbers - 1
Item   == Values \cup {Raw}

ProducerPcs == {"idle", "write", "publish", "full", "ahead", "publishAhead",
                "link", "advance", "signal", "gone"}
ConsumerPcs == {"idle", "start", "check", "recheck", "next", "enter", "take",
                "bump", "gone"}

\* Every variable has its type, and every index is one of its block.  A block
\* that is not made yet is empty.
TypeInv ==
  /\ shape \in Shapes /\ blocking \in BOOLEAN
  /\ blocks \in Nat /\ FirstBlocks(shape) <= blocks
  /\ largestBlockSize \in Nat /\ FirstSlots(shape) <= largestBlockSize
  /\ blocks * largestBlockSize <= shape.limit
  /\ sizeMask \in [Blocks -> Nat]
  /\ \A b \in 1 .. blocks : /\ FirstSlots(shape) <= sizeMask[b] + 1
                            /\ sizeMask[b] + 1 <= largestBlockSize
  /\ next \in [Blocks -> Nat]
  /\ front \in [Blocks -> Nat] /\ localTail \in [Blocks -> Nat]
  /\ tail \in [Blocks -> Nat] /\ localFront \in [Blocks -> Nat]
  /\ \A b \in Blocks : /\ front[b] <= sizeMask[b] /\ localTail[b] <= sizeMask[b]
                       /\ tail[b] <= sizeMask[b] /\ localFront[b] <= sizeMask[b]
  /\ \A b \in Blocks : b > blocks =>
       /\ front[b] = 0 /\ localTail[b] = 0 /\ tail[b] = 0 /\ localFront[b] = 0
  /\ frontBlock \in 1 .. blocks /\ tailBlock \in 1 .. blocks
  /\ permits \in Nat
  /\ pPc \in ProducerPcs /\ cPc \in ConsumerPcs /\ cOp \in {"dequeue", "peek"}
  /\ number \in Values /\ promised \in BOOLEAN /\ waiting \in BOOLEAN

\* The blocks form a circle, and d[b] is how many blocks b is before the tail
\* block.  A block that is made but not linked yet is the farthest from it.
CircleInv(d) ==
  /\ d \in [1 .. blocks -> 0 .. blocks - 1]
  /\ \A b, c \in 1 .. blocks : d[b] = d[c] => b = c
  /\ d[tailBlock] = 0
  /\ \A b \in 1 .. blocks : next[b] \in 1 .. blocks
  /\ \A b \in 1 .. blocks : b # tailBlock => d[next[b]] = d[b] - 1
  /\ pPc # "link" => d[next[tailBlock]] = blocks - 1
  /\ pPc = "link" => d[blocks] = blocks - 1 /\ d[next[tailBlock]] = blocks - 2

\* What each thread remembers of the other's index is behind it: the consumer
\* sees no more elements than there are, the producer no fewer.
SeenInv ==
  \A b \in 1 .. blocks :
    /\ Dist(sizeMask[b], front[b], localTail[b]) <= Count(b)
    /\ Count(b) <= Dist(sizeMask[b], localFront[b], tail[b])

\* A slot has an element if it is between front and tail, but for the one being
\* moved out, or if its element is not published yet.
Occupied(b, s) ==
  \/ /\ Dist(sizeMask[b], front[b], s) < Count(b)
     /\ ~(cPc = "bump" /\ b = frontBlock /\ s = front[b])
  \/ /\ s = tail[b]
     /\ \/ pPc = "publish" /\ b = tailBlock
        \/ pPc = "publishAhead" /\ b = next[tailBlock]

SlotInv ==
  /\ DOMAIN data = Blocks
  /\ \A b \in Blocks : data[b] \in [0 .. sizeMask[b] -> Item]
  /\ \A b \in Blocks : \A s \in 0 .. sizeMask[b] :
       data[b][s] # Raw <=> Occupied(b, s)

\* From the front block to the tail block every block has elements, those
\* between the two are full, and the others are empty, but for the one the
\* producer is about to go on to.
PathInv(d) ==
  /\ \A b \in 1 .. blocks : d[b] < d[frontBlock] => front[b] # tail[b]
  /\ \A b \in 1 .. blocks :
       b # tailBlock /\ d[b] < d[frontBlock] => Count(b) = sizeMask[b]
  /\ \A b \in 1 .. blocks :
       d[b] > d[frontBlock]
         => IF d[b] = blocks - 1 /\ pPc \in {"link", "advance"}
              THEN tail[b] = After(sizeMask[b], front[b])
              ELSE tail[b] = front[b]

\* What each thread has found out, and still holds when it acts on it.
TurnInv(d) ==
  /\ pPc \in {"write", "publish"} => Room(tailBlock, localFront[tailBlock])
  /\ pPc \in {"full", "ahead", "publishAhead", "link", "advance"} =>
       frontBlock = tailBlock \/ Count(tailBlock) = sizeMask[tailBlock]
  /\ pPc \in {"ahead", "publishAhead", "link", "advance"} =>
       d[frontBlock] < blocks - 1
  /\ pPc = "publishAhead" =>
       localFront[next[tailBlock]] = front[next[tailBlock]]
  /\ cPc \in {"take", "bump"} => /\ front[frontBlock] # tail[frontBlock]
                                 /\ front[frontBlock] # localTail[frontBlock]
  /\ cPc \in {"recheck", "next", "enter"} => frontBlock # tailBlock
  /\ cPc \in {"next", "enter"} => front[frontBlock] = tail[frontBlock]
  /\ cPc = "enter" =>
       front[next[frontBlock]] # localTail[next[frontBlock]]
  /\ pPc = "gone" <=> cPc = "gone"
  /\ pPc = "gone" => \A b \in Blocks : front[b] = tail[b]

Inv(d) == TypeInv /\ CircleInv(d) /\ SeenInv /\ SlotInv /\ PathInv(d) /\ TurnInv(d)

-----------------------------------------------------------------------------
(* A ring of m + 1 slots.                                                  *)

\* The distances and the indices of a ring are those of its slots; the
\* distance is zero from a slot to itself only.
LEMMA RingTypes ==
  ASSUME NEW m \in Nat, NEW i \in 0 .. m, NEW j \in 0 .. m
  PROVE  /\ Dist(m, i, j) \in 0 .. m
         /\ Dist(m, i, j) = 0 <=> i = j
BY DEF Dist

\* The slot after one of the ring is one of it.
LEMMA RingAfter ==
  ASSUME NEW m \in Nat, NEW i \in 0 .. m PROVE After(m, i) \in 0 .. m
BY DEF After, Wrap

\* From one slot no two are equally far.
LEMMA RingSame ==
  ASSUME NEW m \in Nat, NEW i \in 0 .. m, NEW j \in 0 .. m, NEW k \in 0 .. m,
         Dist(m, i, k) = Dist(m, i, j)
  PROVE  k = j
BY DEF Dist

\* Moving the far end on adds a slot to the distance, if there is another;
\* none is left to add exactly if the far end would come around.
LEMMA RingFar ==
  ASSUME NEW m \in Nat, NEW i \in 0 .. m, NEW j \in 0 .. m
  PROVE  /\ After(m, j) # i <=> Dist(m, i, j) < m
         /\ After(m, j) # i => Dist(m, i, After(m, j)) = Dist(m, i, j) + 1
         /\ After(m, j) = i <=> Dist(m, i, j) = m
BY DEF Dist, After, Wrap

\* Moving the near end on takes a slot from it.
LEMMA RingNear ==
  ASSUME NEW m \in Nat, NEW i \in 0 .. m, NEW j \in 0 .. m, i # j
  PROVE  Dist(m, After(m, i), j) = Dist(m, i, j) - 1
BY DEF Dist, After, Wrap

\* Moving it on from a slot to itself goes all around.
LEMMA RingAround ==
  ASSUME NEW m \in Nat, NEW i \in 0 .. m
  PROVE  Dist(m, After(m, i), i) = m /\ Dist(m, i, i) = 0
BY DEF Dist, After, Wrap

\* Slot k from i on is k slots away, whether it is counted from i or from the
\* slot after i.
LEMMA RingWalk ==
  ASSUME NEW m \in Nat, NEW i \in 0 .. m, NEW k \in 0 .. m
  PROVE  /\ Wrap(m, i + k) \in 0 .. m
         /\ Dist(m, i, Wrap(m, i + k)) = k
         /\ k < m => Wrap(m, After(m, i) + k) = Wrap(m, i + (k + 1))
BY DEF Dist, After, Wrap

-----------------------------------------------------------------------------
(* Powers of two.                                                          *)

\* A set of natural numbers that is not empty has a least element: the proofs
\* about recursive functions look at the least place where they would fail.
LEMMA LeastNat ==
  ASSUME NEW S \in SUBSET Nat, S # {}
  PROVE  \E n \in S : \A m \in S : n <= m
<1>1. PICK n \in S : \A m \in S : <<m, n>> \notin OpToRel(<, Nat)
  BY NatLessThanWellFounded, WFMin, Zenon
<1>2. \A m \in S : n <= m
  <2> SUFFICES ASSUME NEW m \in S, m < n PROVE FALSE
    OBVIOUS
  <2>1. <<m, n>> \in OpToRel(<, Nat)
    BY DEF OpToRel
  <2> QED BY <2>1, <1>1
<1> QED BY <1>2

\* The equation of ceilToPow2, and a function that satisfies it up to k.
Power(f, x) == IF x = 1 THEN 1 ELSE 2 * f[(x + 1) \div 2]
PowersUpTo(f, k) == \A x \in 1 .. k : f[x] = Power(f, x)

\* The equation leads from a number to a smaller one.
LEMMA HalfIsLess ==
  ASSUME NEW x \in Nat \ {0}, x # 1
  PROVE  (x + 1) \div 2 \in 1 .. x - 1 /\ 2 * ((x + 1) \div 2) >= x
<1>1. PICK h \in Int : h = (x + 1) \div 2
  OBVIOUS
<1>2. 2 * h <= x + 1 /\ x + 1 < 2 * h + 2
  BY <1>1
<1> QED BY <1>1, <1>2

\* Up to every k there is such a function.
LEMMA PowersExist == ASSUME NEW k \in Nat PROVE \E f : PowersUpTo(f, k)
<1> DEFINE Bad == {i \in Nat : ~\E f : PowersUpTo(f, i)}
<1> SUFFICES ASSUME Bad # {} PROVE FALSE
  BY Zenon
<1>1. PICK i \in Bad : \A m \in Bad : i <= m
  BY LeastNat
<1>2. i # 0
  BY DEF PowersUpTo
<1>3. i - 1 \in Nat /\ i - 1 \notin Bad
  BY <1>1, <1>2
<1>4. PICK f : PowersUpTo(f, i - 1)
  BY <1>3
<1>5. PICK g : g = [x \in 1 .. i |-> Power(f, x)]
  OBVIOUS
<1>6. ASSUME NEW x \in 1 .. i PROVE g[x] = Power(g, x)
  <2>1. CASE x = 1
    BY <2>1, <1>5 DEF Power
  <2>2. CASE x # 1
    <3>1. (x + 1) \div 2 \in 1 .. i - 1
      BY <2>2, <1>1, HalfIsLess
    <3>2. g[(x + 1) \div 2] = f[(x + 1) \div 2]
      BY <3>1, <1>4, <1>5, <1>1 DEF PowersUpTo
    <3> QED BY <2>2, <3>2, <1>5 DEF Power
  <2> QED BY <2>1, <2>2
<1> QED BY <1>1, <1>6 DEF PowersUpTo

\* Two such functions agree as far as both go, and are at least their argument.
LEMMA PowersAgree ==
  ASSUME NEW f, NEW g, NEW k \in Nat, NEW l \in Nat, k <= l,
         PowersUpTo(f, k), PowersUpTo(g, l)
  PROVE  \A x \in 1 .. k : f[x] = g[x] /\ f[x] \in Nat /\ f[x] >= x
<1> DEFINE Bad == {x \in 1 .. k : ~(f[x] = g[x] /\ f[x] \in Nat /\ f[x] >= x)}
<1> SUFFICES ASSUME Bad # {} PROVE FALSE
  BY Zenon
<1>1. Bad \in SUBSET Nat
  OBVIOUS
<1>2. PICK x \in Bad : \A y \in Bad : x <= y
  BY <1>1, LeastNat
<1>3. x \in 1 .. k /\ f[x] = Power(f, x) /\ g[x] = Power(g, x)
  BY <1>2 DEF PowersUpTo
<1>4. CASE x = 1
  BY <1>2, <1>3, <1>4 DEF Power
<1>5. CASE x # 1
  <2>1. PICK h : h = (x + 1) \div 2
    OBVIOUS
  <2>2. h \in 1 .. x - 1 /\ 2 * h >= x
    BY <1>3, <1>5, <2>1, HalfIsLess
  <2>3. h \in 1 .. k /\ h \notin Bad
    BY <2>2, <1>2, <1>3
  <2>4. f[h] = g[h] /\ f[h] \in Nat /\ f[h] >= h
    BY <2>3
  <2>5. f[x] = 2 * f[h] /\ g[x] = 2 * g[h]
    BY <1>3, <1>5, <2>1 DEF Power
  <2> QED BY <1>2, <1>3, <2>2, <2>4, <2>5
<1> QED BY <1>4, <1>5

\* ceilToPow2 is one for every k.
LEMMA CeilToPow2Def == \A k \in Nat : PowersUpTo(ceilToPow2, k)
<1> DEFINE Is(f) == f = [x \in Nat \ {0} |-> IF x = 1 THEN 1
                                             ELSE 2 * f[(x + 1) \div 2]]
<1>1. PICK p : \A k \in Nat : PowersUpTo(p[k], k)
  <2>1. PICK p : p = [k \in Nat |-> CHOOSE f : PowersUpTo(f, k)]
    OBVIOUS
  <2> QED BY <2>1, PowersExist
<1>2. PICK f : f = [x \in Nat \ {0} |-> p[x][x]]
  OBVIOUS
<1>3. ASSUME NEW x \in Nat \ {0} PROVE f[x] = Power(f, x)
  <2>1. f[x] = p[x][x] /\ p[x][x] = Power(p[x], x)
    BY <1>1, <1>2 DEF PowersUpTo
  <2>2. CASE x = 1
    BY <2>1, <2>2 DEF Power
  <2>3. CASE x # 1
    <3>1. PICK h : h = (x + 1) \div 2
      OBVIOUS
    <3>2. h \in 1 .. x - 1
      BY <2>3, <3>1, HalfIsLess
    <3>3. h \in Nat \ {0} /\ h <= x /\ h \in 1 .. h
      BY <3>2
    <3>4. p[x][h] = p[h][h]
      BY <1>1, <3>3, PowersAgree
    <3>5. p[x][h] = f[h]
      BY <3>3, <3>4, <1>2
    <3> QED BY <2>1, <2>3, <3>1, <3>5 DEF Power
  <2> QED BY <2>2, <2>3
<1>4. Is(f)
  <2>1. f = [x \in Nat \ {0} |-> f[x]]
    BY <1>2
  <2>2. f = [x \in Nat \ {0} |-> Power(f, x)]
    BY <2>1, <1>3, Zenon
  <2> QED BY <2>2 DEF Power
<1>5. ceilToPow2 = CHOOSE g : Is(g)
  BY DEF ceilToPow2
<1>6. Is(ceilToPow2)
  BY <1>4, <1>5, Zenon
<1>7. \A x \in Nat \ {0} : ceilToPow2[x] = Power(ceilToPow2, x)
  <2> HIDE DEF Is
  <2> SUFFICES ASSUME NEW x \in Nat \ {0}
               PROVE  ceilToPow2[x] = Power(ceilToPow2, x)
    OBVIOUS
  <2> USE DEF Is
  <2> QED BY <1>6, Zenon DEF Power
<1> QED BY <1>7 DEF PowersUpTo

\* It is a number, and not below its argument.
LEMMA CeilToPow2Bound ==
  ASSUME NEW x \in Nat \ {0}
  PROVE  ceilToPow2[x] \in Nat /\ ceilToPow2[x] >= x
BY CeilToPow2Def, PowersAgree

-----------------------------------------------------------------------------
(* The inductive invariant.                                                *)

\* The constructor makes at least one block, and two slots in each.
LEMMA ShapeFacts ==
  ASSUME NEW q \in Shapes
  PROVE  /\ FirstSlots(q) \in Nat /\ FirstSlots(q) >= 2
         /\ FirstBlocks(q) \in Nat \ {0}
         /\ q.limit \in Nat /\ q.limit <= MaxSlots /\ MaxSlots \in Nat
         /\ FirstBlocks(q) * FirstSlots(q) <= q.limit
<1>1. /\ q.size \in Nat \ {0} /\ q.max \in Nat /\ q.max >= 2
      /\ q.limit \in Nat /\ q.limit <= MaxSlots /\ MaxSlots \in Nat
      /\ FirstBlocks(q) * FirstSlots(q) <= q.limit
  BY QueueConstants
<1>2. ceilToPow2[q.size + 1] \in Nat /\ ceilToPow2[q.size + 1] >= 2
  BY <1>1, CeilToPow2Bound
<1>3. FirstSlots(q) \in Nat /\ FirstSlots(q) >= 2
  BY <1>1, <1>2 DEF FirstSlots
<1>4. FirstBlocks(q) \in Nat \ {0}
  <2>1. PICK m, n : m = q.max - 1 /\ n = q.size - 1
    BY <1>1
  <2>2. m \in Nat \ {0} /\ n \in Nat
    BY <1>1, <2>1
  <2>3. q.size + q.max * 2 - 3 = n + 2 * m
    BY <1>1, <2>1
  <2>4. PICK k : k = (n + 2 * m) \div m
    OBVIOUS
  <2>5. k \in Int /\ n + 2 * m < m * k + m
    BY <2>2, <2>4, Z3
  <2>6. m * 1 < m * k
    BY <2>2, <2>5
  <2>7. k >= 1
    BY <2>2, <2>5, <2>6, Z3
  <2> QED BY <2>1, <2>3, <2>4, <2>5, <2>7 DEF FirstBlocks
<1> QED BY <1>1, <1>3, <1>4

\* Every block made has a place among Blocks and two slots at least.
LEMMA Sized ==
  ASSUME TypeInv
  PROVE  /\ \A b \in 1 .. blocks :
              b \in Blocks /\ sizeMask[b] \in Nat /\ sizeMask[b] >= 1
         /\ blocks \in Nat \ {0} /\ MaxSlots \in Nat
         /\ largestBlockSize \in Nat /\ largestBlockSize >= 2
<1>1. /\ FirstSlots(shape) \in Nat /\ FirstSlots(shape) >= 2
      /\ FirstBlocks(shape) \in Nat \ {0}
      /\ shape.limit \in Nat /\ shape.limit <= MaxSlots /\ MaxSlots \in Nat
  BY ShapeFacts DEF TypeInv
<1>2. /\ largestBlockSize \in Nat /\ largestBlockSize >= 2
      /\ blocks \in Nat \ {0} /\ blocks * largestBlockSize <= MaxSlots
  <2>1. largestBlockSize \in Nat /\ largestBlockSize >= 2 /\ blocks \in Nat \ {0}
    BY <1>1 DEF TypeInv
  <2> QED BY <2>1, <1>1 DEF TypeInv
<1>3. 2 * blocks <= MaxSlots
  BY <1>1, <1>2
<1>4. blocks <= MaxSlots \div 2
  BY <1>1, <1>2, <1>3
<1>5. \A b \in 1 .. blocks : b \in Blocks
  BY <1>2, <1>4, <1>1 DEF Blocks
<1>6. \A b \in 1 .. blocks : sizeMask[b] \in Nat /\ sizeMask[b] >= 1
  BY <1>1, <1>5 DEF TypeInv
<1> QED BY <1>1, <1>2, <1>5, <1>6

\* What the proofs need of the types, block by block.
LEMMA Known ==
  ASSUME NEW d, Inv(d)
  PROVE  /\ blocks \in Nat \ {0}
         /\ \A b \in 1 .. blocks : b \in Blocks
         /\ \A b \in Blocks :
              /\ sizeMask[b] \in Nat
              /\ front[b] \in 0 .. sizeMask[b] /\ tail[b] \in 0 .. sizeMask[b]
              /\ localFront[b] \in 0 .. sizeMask[b]
              /\ localTail[b] \in 0 .. sizeMask[b]
              /\ Count(b) \in 0 .. sizeMask[b]
              /\ Count(b) = 0 <=> front[b] = tail[b]
         /\ \A b \in 1 .. blocks :
              /\ sizeMask[b] >= 1
              /\ d[b] \in 0 .. blocks - 1 /\ next[b] \in 1 .. blocks
         /\ tailBlock \in 1 .. blocks /\ frontBlock \in 1 .. blocks
<1>1. TypeInv /\ CircleInv(d)
  BY DEF Inv
<1>2. /\ blocks \in Nat \ {0}
      /\ \A b \in 1 .. blocks : b \in Blocks /\ sizeMask[b] >= 1
  BY <1>1, Sized
<1>3. \A b \in 1 .. blocks : d[b] \in 0 .. blocks - 1 /\ next[b] \in 1 .. blocks
  BY <1>1 DEF CircleInv
<1>4. \A b \in Blocks :
        /\ sizeMask[b] \in Nat
        /\ front[b] \in 0 .. sizeMask[b] /\ tail[b] \in 0 .. sizeMask[b]
        /\ localFront[b] \in 0 .. sizeMask[b]
        /\ localTail[b] \in 0 .. sizeMask[b]
  BY <1>1 DEF TypeInv
<1>5. \A b \in Blocks :
        Count(b) \in 0 .. sizeMask[b] /\ (Count(b) = 0 <=> front[b] = tail[b])
  <2> SUFFICES ASSUME NEW b \in Blocks
               PROVE  /\ Count(b) \in 0 .. sizeMask[b]
                      /\ Count(b) = 0 <=> front[b] = tail[b]
    OBVIOUS
  <2> QED BY <1>4, RingTypes DEF Count
<1> QED BY <1>1, <1>2, <1>3, <1>4, <1>5 DEF TypeInv

\* Publishing the element the producer has written: tail moves over a slot that
\* has one.
LEMMA PublishKeeps == ASSUME NEW d, Inv(d), Publish PROVE Inv(d)'
<1>1. /\ TypeInv /\ CircleInv(d) /\ SeenInv /\ SlotInv /\ PathInv(d)
      /\ TurnInv(d)
  BY DEF Inv
<1> DEFINE t == tailBlock
           m == sizeMask[t]
           f == front[t]
           g == tail[t]
           e == After(m, g)
<1>2. /\ t \in 1 .. blocks /\ t \in Blocks /\ m \in Nat
      /\ f \in 0 .. m /\ g \in 0 .. m /\ localFront[t] \in 0 .. m
      /\ localTail[t] \in 0 .. m /\ Count(t) = Dist(m, f, g)
      /\ Count(t) \in 0 .. m /\ (Count(t) = 0 <=> f = g)
  BY Known DEF Count
<1> USE DEF Publish, PGoes, UnchangedByProducer, shapeVars, fixedVars,
            consumerVars
<1>3. e \in 0 .. m /\ e # localFront[t] /\ Dist(m, localFront[t], g) < m
      /\ Dist(m, localFront[t], e) = Dist(m, localFront[t], g) + 1
  <2>1. e \in 0 .. m /\ e # localFront[t]
    BY <1>1, <1>2, RingAfter DEF TurnInv, Room
  <2> HIDE DEF m, g
  <2> QED BY <1>2, <2>1, RingFar
<1>4. /\ Count(t) <= Dist(m, localFront[t], g)
      /\ Dist(m, f, localTail[t]) <= Count(t)
  BY <1>1, <1>2 DEF SeenInv
<1>5. Count(t) < m /\ e # f /\ Dist(m, f, e) = Count(t) + 1
  <2>1. Count(t) < m
    <3>1. Dist(m, localFront[t], g) \in 0 .. m
      BY <1>2, RingTypes
    <3> QED BY <3>1, <1>2, <1>3, <1>4
  <2> HIDE DEF m, f, g
  <2> QED BY <2>1, <1>2, RingFar
<1>6. /\ tail' = [tail EXCEPT ![t] = e] /\ tail'[t] = e
      /\ \A b \in Blocks : b # t => tail'[b] = tail[b]
      /\ pPc = "publish" /\ pPc' \in {"signal", "idle"}
  BY <1>1, <1>2 DEF TypeInv, Enqueued
<1>7. /\ Count(t)' = Count(t) + 1
      /\ \A b \in Blocks : b # t => Count(b)' = Count(b)
  BY <1>5, <1>6 DEF Count
<1> HIDE DEF m, f, g, e
<1>8. TypeInv'
  BY <1>1, <1>2, <1>3, <1>6 DEF TypeInv, ProducerPcs, m
<1>9. CircleInv(d)'
  BY <1>1, <1>6 DEF CircleInv
<1>10. SeenInv'
  <2> SUFFICES ASSUME NEW b \in 1 .. blocks
               PROVE /\ Dist(sizeMask[b], front[b], localTail[b]) <= Count(b)'
                     /\ Count(b)' <= Dist(sizeMask[b], localFront[b], tail'[b])
    BY DEF SeenInv
  <2>1. CASE b = t
    <3>1. Dist(m, f, localTail[t]) \in 0 .. m
          /\ Dist(m, localFront[t], g) \in 0 .. m
      BY <1>2, RingTypes
    <3> QED BY <2>1, <3>1, <1>2, <1>3, <1>4, <1>6, <1>7 DEF m, f
  <2>2. CASE b # t
    BY <2>2, <1>1, <1>6, <1>7, Known DEF SeenInv
  <2> QED BY <2>1, <2>2
<1>11. SlotInv'
  <2> SUFFICES ASSUME NEW b \in Blocks, NEW s \in 0 .. sizeMask[b]
               PROVE  Occupied(b, s)' <=> Occupied(b, s)
    BY <1>1 DEF SlotInv
  <2>1. CASE b = t
    <3>1. s \in 0 .. m /\ Dist(m, f, s) \in 0 .. m
      BY <2>1, <1>2, RingTypes DEF m
    <3>2. Dist(m, f, s) = Count(t) <=> s = g
      BY <3>1, <1>2, RingSame
    <3>3. Dist(m, f, s) < Count(t)' <=> Dist(m, f, s) < Count(t) \/ s = g
      BY <3>1, <3>2, <1>2, <1>7
    <3>4. cPc = "bump" /\ t = frontBlock => f # g
      BY <1>1 DEF TurnInv, f, g
    <3> QED BY <2>1, <3>3, <3>4, <1>6 DEF Occupied, m, f, g
  <2>2. CASE b # t
    BY <2>2, <1>6, <1>7 DEF Occupied
  <2> QED BY <2>1, <2>2
<1>12. PathInv(d)'
  <2>1. \A b \in 1 .. blocks : d[b] > d[frontBlock] => b # t
    BY <1>1, Known DEF CircleInv
  <2>2. \A b \in 1 .. blocks : d[b] < d[frontBlock] => front[b] # tail'[b]
    BY <1>1, <1>5, <1>6, Known DEF PathInv, f
  <2>3. \A b \in 1 .. blocks : b # t => b \in Blocks /\ Count(b)' = Count(b)
    BY <1>7, Known
  <2> QED BY <2>1, <2>2, <2>3, <1>1, <1>6 DEF PathInv
<1>13. TurnInv(d)'
  BY <1>1, <1>2, <1>5, <1>6 DEF TurnInv, f
<1> QED BY <1>8, <1>9, <1>10, <1>11, <1>12, <1>13 DEF Inv

placeVars == <<blocks, sizeMask, next, front, tail, frontBlock, tailBlock>>

\* A step that moves no index and neither makes, links nor enters a block
\* leaves the circle and the path as they are ...
LEMMA FramePath ==
  ASSUME NEW d, Inv(d), UNCHANGED placeVars,
         pPc' = pPc \/ {pPc, pPc'} \cap {"link", "advance"} = {}
  PROVE  CircleInv(d)' /\ PathInv(d)' /\ \A b \in Blocks : Count(b)' = Count(b)
<1> USE DEF placeVars
<1>1. CircleInv(d)'
  BY DEF Inv, CircleInv
<1>2. \A b \in Blocks : Count(b)' = Count(b)
  BY DEF Count
<1>3. PathInv(d)'
  BY Known, <1>2 DEF Inv, PathInv
<1> QED BY <1>1, <1>2, <1>3

\* ... and the slots as well, unless it constructs, publishes or moves out.
LEMMA Frame ==
  ASSUME NEW d, Inv(d), UNCHANGED placeVars, UNCHANGED data,
         \/ pPc' = pPc
         \/ /\ pPc \in {"idle", "write", "full", "ahead", "signal"}
            /\ pPc' \in {"idle", "write", "full", "ahead", "signal"},
         cPc' = cPc \/ (cPc # "bump" /\ cPc' # "bump")
  PROVE  CircleInv(d)' /\ SlotInv' /\ PathInv(d)'
<1>1. CircleInv(d)' /\ PathInv(d)' /\ \A b \in Blocks : Count(b)' = Count(b)
  BY FramePath
<1>2. SlotInv'
  <2>1. \A b \in Blocks : \A s \in 0 .. sizeMask[b] :
          Occupied(b, s)' <=> Occupied(b, s)
    BY <1>1 DEF Occupied, placeVars
  <2> QED BY <2>1 DEF Inv, SlotInv, placeVars
<1> QED BY <1>1, <1>2

\* A call of the producer begins, and finds room by the front it saw before.
LEMMA EnqueueRoomKeeps == ASSUME NEW d, Inv(d), EnqueueRoom PROVE Inv(d)'
<1> USE DEF EnqueueRoom, PGoes, UnchangedByProducer, shapeVars, fixedVars,
            consumerVars
<1>1. CircleInv(d)' /\ SlotInv' /\ PathInv(d)'
  BY Frame DEF placeVars
<1>2. TypeInv' /\ SeenInv'
  BY DEF Inv, TypeInv, ProducerPcs, SeenInv, Count
<1>3. TurnInv(d)'
  BY DEF Inv, TurnInv, Room
<1> QED BY <1>1, <1>2, <1>3 DEF Inv

\* The producer reads front, and learns of all the room there is.
LEMMA EnqueueReadFrontKeeps ==
  ASSUME NEW d, Inv(d), EnqueueReadFront PROVE Inv(d)'
<1> USE DEF EnqueueReadFront, PGoes, UnchangedByProducer, shapeVars, fixedVars,
            consumerVars
<1> DEFINE t == tailBlock
           m == sizeMask[t]
<1>1. CircleInv(d)' /\ SlotInv' /\ PathInv(d)'
  BY Frame DEF placeVars
<1>2. /\ localFront \in [Blocks -> Nat] /\ t \in Blocks /\ m \in Nat
      /\ front[t] \in 0 .. m /\ tail[t] \in 0 .. m /\ t \in 1 .. blocks
  BY Known DEF Inv, TypeInv
<1>3. /\ localFront' \in [Blocks -> Nat] /\ localFront'[t] = front[t]
      /\ \A b \in Blocks : b # t => localFront'[b] = localFront[b]
  BY <1>2
<1>4. TypeInv'
  <2>1. pPc' \in ProducerPcs /\ promised' \in BOOLEAN
    BY DEF ProducerPcs
  <2>2. \A b \in Blocks : localFront'[b] <= sizeMask[b]
          /\ (b > blocks => localFront'[b] = 0)
    BY <1>2, <1>3 DEF Inv, TypeInv
  <2> QED BY <1>3, <2>1, <2>2 DEF Inv, TypeInv
<1>5. SeenInv'
  BY <1>3, Known DEF Inv, SeenInv, Count
<1>6. TurnInv(d)'
  <2>1. CASE Room(t, front[t])
    <3>1. pPc' = "write" /\ Room(t, localFront[t])'
      BY <2>1, <1>3 DEF Room
    <3> QED BY <3>1 DEF Inv, TurnInv
  <2>2. CASE ~Room(t, front[t])
    <3>1. pPc' = "full" /\ Count(t) = m
      BY <2>2, <1>2, RingFar DEF Room, Count
    <3> QED BY <3>1 DEF Inv, TurnInv, Count
  <2> QED BY <2>1, <2>2
<1> QED BY <1>1, <1>4, <1>5, <1>6 DEF Inv

\* The block ahead is free: then the consumer is not in the farthest one.
LEMMA NextIsFreeKeeps == ASSUME NEW d, Inv(d), NextIsFree PROVE Inv(d)'
<1> USE DEF NextIsFree, PGoes, UnchangedByProducer, shapeVars, fixedVars,
            consumerVars
<1>1. CircleInv(d)' /\ SlotInv' /\ PathInv(d)'
  BY Frame DEF placeVars
<1>2. TypeInv' /\ SeenInv'
  BY DEF Inv, TypeInv, ProducerPcs, SeenInv, Count
<1>3. d[frontBlock] < blocks - 1
  <2>1. d[next[tailBlock]] = blocks - 1 /\ next[tailBlock] # frontBlock
    BY DEF Inv, CircleInv
  <2>2. next[tailBlock] \in 1 .. blocks /\ frontBlock \in 1 .. blocks
    BY Known
  <2>3. d[frontBlock] # d[next[tailBlock]]
    BY <2>1, <2>2 DEF Inv, CircleInv
  <2> QED BY <2>1, <2>2, <2>3, Known
<1>4. TurnInv(d)'
  BY <1>3 DEF Inv, TurnInv, Count
<1> QED BY <1>1, <1>2, <1>4 DEF Inv

\* The producer gives up, or signals.
LEMMA RefuseEnqueueKeeps ==
  ASSUME NEW d, Inv(d), RefuseEnqueue \/ SignalOne PROVE Inv(d)'
<1> USE DEF RefuseEnqueue, SignalOne, PGoes, UnchangedByProducer, shapeVars,
            fixedVars, consumerVars
<1>1. CircleInv(d)' /\ SlotInv' /\ PathInv(d)'
  BY Frame DEF placeVars
<1>2. TypeInv' /\ SeenInv'
  BY DEF Inv, TypeInv, ProducerPcs, SeenInv, Count
<1>3. TurnInv(d)'
  BY DEF Inv, TurnInv
<1> QED BY <1>1, <1>2, <1>3 DEF Inv

\* A call of the consumer begins.
LEMMA CallConsumerKeeps == ASSUME NEW d, Inv(d), CallConsumer PROVE Inv(d)'
<1> USE DEF CallConsumer, CGoes, UnchangedByConsumer, shapeVars, fixedVars,
            producerVars
<1>1. CircleInv(d)' /\ SlotInv' /\ PathInv(d)'
  BY Frame DEF placeVars
<1>2. TypeInv' /\ SeenInv'
  <2>1. permits' \in Nat
    BY DEF Inv, TypeInv
  <2>2. waiting' \in BOOLEAN
    OBVIOUS
  <2> QED BY <2>1, <2>2 DEF Inv, TypeInv, ConsumerPcs, SeenInv, Count
<1>3. TurnInv(d)'
  BY DEF Inv, TurnInv, Count, Room
<1> QED BY <1>1, <1>2, <1>3 DEF Inv

\* The consumer finds an element by the tail it saw before.
LEMMA StartLocalKeeps == ASSUME NEW d, Inv(d), StartLocal PROVE Inv(d)'
<1> USE DEF StartLocal, CGoes, UnchangedByConsumer, shapeVars, fixedVars,
            producerVars, Found
<1>1. CircleInv(d)' /\ SlotInv' /\ PathInv(d)'
  BY Frame DEF placeVars
<1>2. TypeInv' /\ SeenInv'
  BY DEF Inv, TypeInv, ConsumerPcs, SeenInv, Count
<1>3. front[frontBlock] # tail[frontBlock]
  <2> DEFINE h == frontBlock
  <2>1. /\ h \in 1 .. blocks /\ sizeMask[h] \in Nat
        /\ front[h] \in 0 .. sizeMask[h] /\ localTail[h] \in 0 .. sizeMask[h]
        /\ Count(h) = 0 <=> front[h] = tail[h]
    BY Known
  <2>2. front[h] # localTail[h]
    OBVIOUS
  <2>3. Dist(sizeMask[h], front[h], localTail[h]) <= Count(h)
    BY <2>1 DEF Inv, SeenInv
  <2>4. /\ Dist(sizeMask[h], front[h], localTail[h]) \in 0 .. sizeMask[h]
        /\ Dist(sizeMask[h], front[h], localTail[h]) # 0
    <3> HIDE DEF h
    <3> QED BY <2>1, <2>2, RingTypes, SMTT(30)
  <2> QED BY <2>1, <2>3, <2>4
<1>4. TurnInv(d)'
  BY <1>3 DEF Inv, TurnInv, Count, Room
<1> QED BY <1>1, <1>2, <1>4 DEF Inv

\* The consumer reads tail, once or again: what it remembers is then exact.
LEMMA ReadTailKeeps ==
  ASSUME NEW d, Inv(d), StartReadTail \/ Recheck PROVE Inv(d)'
<1> USE DEF StartReadTail, Recheck, CGoes, UnchangedByConsumer, shapeVars,
            fixedVars, producerVars, Found
<1> DEFINE h == frontBlock
           m == sizeMask[h]
<1>1. CircleInv(d)' /\ SlotInv' /\ PathInv(d)'
  BY Frame DEF placeVars
<1>2. /\ localTail \in [Blocks -> Nat] /\ h \in Blocks /\ m \in Nat
      /\ front[h] \in 0 .. m /\ tail[h] \in 0 .. m /\ h \in 1 .. blocks
  BY Known DEF Inv, TypeInv
<1>3. /\ localTail' \in [Blocks -> Nat] /\ localTail'[h] = tail[h]
      /\ \A b \in Blocks : b # h => localTail'[b] = localTail[b]
  BY <1>2
<1>4. TypeInv'
  <2>1. cPc' \in ConsumerPcs
    BY DEF ConsumerPcs
  <2>2. \A b \in Blocks : localTail'[b] <= sizeMask[b]
          /\ (b > blocks => localTail'[b] = 0)
    BY <1>2, <1>3 DEF Inv, TypeInv
  <2> QED BY <1>3, <2>1, <2>2 DEF Inv, TypeInv
<1>5. SeenInv'
  BY <1>3, Known DEF Inv, SeenInv, Count
<1>6. TurnInv(d)'
  BY <1>3 DEF Inv, TurnInv, Count, Room
<1> QED BY <1>1, <1>4, <1>5, <1>6 DEF Inv

\* The consumer compares the two blocks, gives up, or has peeked at the next
\* block.
LEMMA CheckKeeps ==
  ASSUME NEW d, Inv(d), CheckTailBlock \/ RefuseDequeue \/ PeekNext
  PROVE  Inv(d)'
<1> USE DEF CheckTailBlock, RefuseDequeue, PeekNext, CGoes,
            UnchangedByConsumer, shapeVars, fixedVars, producerVars
<1>1. CircleInv(d)' /\ SlotInv' /\ PathInv(d)'
  BY Frame DEF placeVars
<1>2. TypeInv' /\ SeenInv'
  BY DEF Inv, TypeInv, ConsumerPcs, SeenInv, Count
<1>3. TurnInv(d)'
  BY DEF Inv, TurnInv, Count, Room
<1> QED BY <1>1, <1>2, <1>3 DEF Inv

\* The consumer reads tail of the block it is about to enter, which has an
\* element.
LEMMA ReadNextKeeps == ASSUME NEW d, Inv(d), ReadNext PROVE Inv(d)'
<1> USE DEF ReadNext, CGoes, UnchangedByConsumer, shapeVars, fixedVars,
            producerVars
<1> DEFINE h == next[frontBlock]
           m == sizeMask[h]
<1>1. CircleInv(d)' /\ SlotInv' /\ PathInv(d)'
  BY Frame DEF placeVars
<1>2. /\ localTail \in [Blocks -> Nat] /\ h \in Blocks /\ m \in Nat
      /\ front[h] \in 0 .. m /\ tail[h] \in 0 .. m /\ h \in 1 .. blocks
  BY Known DEF Inv, TypeInv
<1>3. /\ localTail' \in [Blocks -> Nat] /\ localTail'[h] = tail[h]
      /\ \A b \in Blocks : b # h => localTail'[b] = localTail[b]
  BY <1>2
<1>4. TypeInv'
  <2>1. cPc' \in ConsumerPcs
    BY DEF ConsumerPcs
  <2>2. \A b \in Blocks : localTail'[b] <= sizeMask[b]
          /\ (b > blocks => localTail'[b] = 0)
    BY <1>2, <1>3 DEF Inv, TypeInv
  <2> QED BY <1>3, <2>1, <2>2 DEF Inv, TypeInv
<1>5. SeenInv'
  BY <1>3, Known DEF Inv, SeenInv, Count
<1>6. TurnInv(d)'
  <2>1. front[h] # localTail'[h]
    <3>1. frontBlock # tailBlock /\ frontBlock \in 1 .. blocks
      BY Known DEF Inv, TurnInv
    <3>2. d[h] < d[frontBlock]
      BY <3>1, Known DEF Inv, CircleInv
    <3> QED BY <3>2, <1>2, <1>3 DEF Inv, PathInv
  <2> QED BY <2>1 DEF Inv, TurnInv, Count, Room
<1> QED BY <1>1, <1>4, <1>5, <1>6 DEF Inv

\* Constructing an element in a slot that is free.
LEMMA Constructed ==
  ASSUME NEW d, Inv(d), NEW b \in Blocks, NEW s \in 0 .. sizeMask[b],
         ConstructIn(b, s), UNCHANGED sizeMask
  PROVE  /\ number' \in Values
         /\ DOMAIN data' = Blocks
         /\ \A c \in Blocks : data'[c] \in [0 .. sizeMask[c] -> Item]
         /\ \A c \in Blocks : \A r \in 0 .. sizeMask[c] :
              data'[c][r] # Raw <=> data[c][r] # Raw \/ (c = b /\ r = s)
<1>1. number \in Values /\ number # Raw
  BY QueueConstants DEF Inv, TypeInv, Values
<1>2. number' \in Values
  BY <1>1, QueueConstants DEF ConstructIn, Values
<1>3. data' = [data EXCEPT ![b] = [data[b] EXCEPT ![s] = number]]
  BY DEF ConstructIn
<1>4. DOMAIN data = Blocks /\ \A c \in Blocks : data[c] \in [0 .. sizeMask[c] -> Item]
  BY DEF Inv, SlotInv
<1>5. /\ DOMAIN data' = Blocks
      /\ data'[b] = [data[b] EXCEPT ![s] = number]
      /\ \A c \in Blocks : c # b => data'[c] = data[c]
  BY <1>3, <1>4
<1>6. /\ data'[b] \in [0 .. sizeMask[b] -> Item] /\ data'[b][s] = number
      /\ \A r \in 0 .. sizeMask[b] : r # s => data'[b][r] = data[b][r]
  BY <1>1, <1>4, <1>5 DEF Item
<1> QED BY <1>1, <1>2, <1>4, <1>5, <1>6

\* The producer constructs an element in the tail block, in a slot that is
\* free.
LEMMA WriteKeeps == ASSUME NEW d, Inv(d), Write PROVE Inv(d)'
<1> USE DEF Write, PGoes, UnchangedByProducer, shapeVars, fixedVars,
            consumerVars
<1> DEFINE t == tailBlock
<1>1. CircleInv(d)' /\ PathInv(d)' /\ \A b \in Blocks : Count(b)' = Count(b)
  BY FramePath DEF placeVars
<1>2. t \in Blocks /\ tail[t] \in 0 .. sizeMask[t]
  BY Known
<1>3. /\ number' \in Values
      /\ DOMAIN data' = Blocks
      /\ \A c \in Blocks : data'[c] \in [0 .. sizeMask[c] -> Item]
      /\ \A c \in Blocks : \A r \in 0 .. sizeMask[c] :
           data'[c][r] # Raw <=> data[c][r] # Raw \/ (c = t /\ r = tail[t])
  <2> HIDE DEF t
  <2> QED BY <1>2, Constructed DEF t
<1>4. TypeInv' /\ SeenInv'
  BY <1>3 DEF Inv, TypeInv, ProducerPcs, SeenInv, Count
<1>5. SlotInv'
  BY <1>1, <1>3 DEF Inv, SlotInv, Occupied
<1>6. TurnInv(d)'
  BY DEF Inv, TurnInv, Room
<1> QED BY <1>1, <1>4, <1>5, <1>6 DEF Inv

\* The block ahead is empty, and neither thread's own.
LEMMA AheadIsEmpty ==
  ASSUME NEW d, Inv(d), pPc \in {"ahead", "publishAhead"}
  PROVE  LET b == next[tailBlock]
         IN  /\ b \in 1 .. blocks /\ b \in Blocks /\ d[b] = blocks - 1
             /\ d[b] > d[frontBlock] /\ b # tailBlock /\ b # frontBlock
             /\ front[b] = tail[b]
             /\ \A c \in 1 .. blocks : d[c] = d[b] => c = b
<1> DEFINE b == next[tailBlock]
<1>1. /\ b \in 1 .. blocks /\ b \in Blocks /\ frontBlock \in 1 .. blocks
      /\ tailBlock \in 1 .. blocks
  BY Known
<1>2. d[b] = blocks - 1
  BY DEF Inv, CircleInv
<1>3. d[b] > d[frontBlock] /\ d[frontBlock] >= 0 /\ d[tailBlock] = 0
  BY <1>1, <1>2, Known DEF Inv, TurnInv, CircleInv
<1>4. front[b] = tail[b]
  BY <1>1, <1>3 DEF Inv, PathInv
<1>5. \A c \in 1 .. blocks : d[c] = d[b] => c = b
  BY <1>1 DEF Inv, CircleInv
<1>6. b # tailBlock /\ b # frontBlock
  <2>1. d[frontBlock] \in Nat
    BY <1>1, Known
  <2> QED BY <1>3, <2>1
<1> QED BY <1>1, <1>2, <1>3, <1>4, <1>5, <1>6

\* The producer constructs an element in the block ahead, and knows its front.
LEMMA WriteAheadKeeps == ASSUME NEW d, Inv(d), WriteAhead PROVE Inv(d)'
<1> USE DEF WriteAhead, PGoes, UnchangedByProducer, shapeVars, fixedVars,
            consumerVars
<1> DEFINE b == next[tailBlock]
           m == sizeMask[b]
<1>1. CircleInv(d)' /\ PathInv(d)' /\ \A c \in Blocks : Count(c)' = Count(c)
  BY FramePath DEF placeVars
<1>2. /\ b \in 1 .. blocks /\ b \in Blocks /\ b # tailBlock /\ b # frontBlock
      /\ front[b] = tail[b]
  BY AheadIsEmpty
<1>3. m \in Nat /\ front[b] \in 0 .. m /\ tail[b] \in 0 .. m
  BY <1>2, Known
<1>4. /\ number' \in Values
      /\ DOMAIN data' = Blocks
      /\ \A c \in Blocks : data'[c] \in [0 .. sizeMask[c] -> Item]
      /\ \A c \in Blocks : \A r \in 0 .. sizeMask[c] :
           data'[c][r] # Raw <=> data[c][r] # Raw \/ (c = b /\ r = tail[b])
  <2>1. ConstructIn(b, tail[b])
    OBVIOUS
  <2> HIDE DEF b
  <2> QED BY <2>1, <1>2, <1>3, Constructed
<1>5. /\ localFront' \in [Blocks -> Nat] /\ localFront'[b] = front[b]
      /\ \A c \in Blocks : c # b => localFront'[c] = localFront[c]
  <2>1. localFront \in [Blocks -> Nat]
    BY DEF Inv, TypeInv
  <2> QED BY <2>1, <1>2, <1>3
<1>6. TypeInv'
  <2>1. \A c \in Blocks : localFront'[c] <= sizeMask[c]
          /\ (c > blocks => localFront'[c] = 0)
    BY <1>2, <1>3, <1>5 DEF Inv, TypeInv
  <2> QED BY <1>4, <1>5, <2>1 DEF Inv, TypeInv, ProducerPcs
<1>7. SeenInv'
  BY <1>1, <1>5, Known DEF Inv, SeenInv, Count
<1>8. SlotInv'
  BY <1>1, <1>4 DEF Inv, SlotInv, Occupied
<1>9. TurnInv(d)'
  <2>1. Count(tailBlock)' = Count(tailBlock)
    BY <1>1, Known
  <2> QED BY <2>1, <1>5 DEF Inv, TurnInv
<1> QED BY <1>1, <1>6, <1>7, <1>8, <1>9 DEF Inv

\* The producer publishes an element in the block ahead: that is then the one
\* block beyond the consumer's that is not empty.
LEMMA PublishAheadKeeps == ASSUME NEW d, Inv(d), PublishAhead PROVE Inv(d)'
<1> USE DEF PublishAhead, PGoes, UnchangedByProducer, shapeVars, fixedVars,
            consumerVars
<1> DEFINE b == next[tailBlock]
           m == sizeMask[b]
           f == front[b]
           e == After(m, f)
<1>1. /\ b \in 1 .. blocks /\ b \in Blocks /\ b # tailBlock /\ b # frontBlock
      /\ tail[b] = f /\ d[b] = blocks - 1 /\ d[b] > d[frontBlock]
      /\ \A c \in 1 .. blocks : d[c] = d[b] => c = b
  BY AheadIsEmpty
<1>2. /\ m \in Nat /\ m >= 1 /\ f \in 0 .. m /\ localFront[b] \in 0 .. m
      /\ localTail[b] \in 0 .. m /\ Count(b) = 0 /\ tailBlock \in 1 .. blocks
  BY <1>1, Known
<1>3. e \in 0 .. m /\ Dist(m, f, e) = 1 /\ e # f
  <2> HIDE DEF m, f
  <2> QED BY <1>2 DEF After, Wrap, Dist
<1>4. /\ tail' = [tail EXCEPT ![b] = e] /\ tail'[b] = e
      /\ \A c \in Blocks : c # b => tail'[c] = tail[c]
      /\ pPc = "publishAhead" /\ pPc' = "advance"
  BY <1>1 DEF Inv, TypeInv
<1>5. /\ Count(b)' = 1
      /\ \A c \in Blocks : c # b => Count(c)' = Count(c)
  BY <1>3, <1>4 DEF Count
<1> HIDE DEF b, m, f, e
<1>6. TypeInv'
  BY <1>1, <1>2, <1>3, <1>4 DEF Inv, TypeInv, ProducerPcs, m
<1>7. CircleInv(d)'
  BY <1>4 DEF Inv, CircleInv
<1>8. SeenInv'
  <2> SUFFICES ASSUME NEW c \in 1 .. blocks
               PROVE /\ Dist(sizeMask[c], front[c], localTail[c]) <= Count(c)'
                     /\ Count(c)' <= Dist(sizeMask[c], localFront[c], tail'[c])
    BY DEF SeenInv
  <2>1. CASE c = b
    <3>1. /\ Dist(m, f, localTail[b]) <= 0
          /\ Dist(m, f, localTail[b]) \in 0 .. m
      BY <1>1, <1>2, RingTypes DEF Inv, SeenInv, m, f
    <3>2. Dist(m, localFront[b], e) >= 1
      <4>1. localFront[b] = f
        BY <1>4 DEF Inv, TurnInv, b, f
      <4> QED BY <4>1, <1>3
    <3> QED BY <2>1, <3>1, <3>2, <1>4, <1>5 DEF m, f, b
  <2>2. CASE c # b
    BY <2>2, <1>4, <1>5, Known DEF Inv, SeenInv
  <2> QED BY <2>1, <2>2
<1>9. SlotInv'
  <2> SUFFICES ASSUME NEW c \in Blocks, NEW s \in 0 .. sizeMask[c]
               PROVE  Occupied(c, s)' <=> Occupied(c, s)
    BY DEF Inv, SlotInv
  <2>1. CASE c = b
    <3>1. s \in 0 .. m /\ Dist(m, f, s) \in 0 .. m
          /\ (Dist(m, f, s) = 0 <=> f = s)
      BY <2>1, <1>2, RingTypes DEF m
    <3> QED BY <2>1, <3>1, <1>1, <1>2, <1>4, <1>5 DEF Occupied, m, f, b
  <2>2. CASE c # b
    BY <2>2, <1>4, <1>5 DEF Occupied, b
  <2> QED BY <2>1, <2>2
<1>10. PathInv(d)'
  <2>1. \A c \in 1 .. blocks : d[c] < d[frontBlock] => front[c] # tail'[c]
    BY <1>1, <1>4, Known DEF Inv, PathInv
  <2>2. \A c \in 1 .. blocks : c # tailBlock /\ d[c] < d[frontBlock] =>
          Count(c)' = sizeMask[c]
    BY <1>1, <1>5, Known DEF Inv, PathInv
  <2>3. \A c \in 1 .. blocks : d[c] > d[frontBlock] =>
          IF d[c] = blocks - 1 THEN tail'[c] = After(sizeMask[c], front[c])
                               ELSE tail'[c] = front[c]
    BY <1>1, <1>4, Known DEF Inv, PathInv, e, m, f
  <2> QED BY <2>1, <2>2, <2>3, <1>4 DEF PathInv
<1>11. TurnInv(d)'
  BY <1>1, <1>2, <1>4, <1>5, Known DEF Inv, TurnInv
<1> QED BY <1>6, <1>7, <1>8, <1>9, <1>10, <1>11 DEF Inv

\* A new block with an element in it is the farthest, and all others keep
\* their distance.
LEMMA MakeBlockKeeps ==
  ASSUME NEW d, Inv(d), MakeBlock PROVE \E e : Inv(e)'
<1>0. PICK n, slots :
        /\ n = blocks
        /\ slots = IF largestBlockSize >= shape.max THEN largestBlockSize
                                                    ELSE largestBlockSize * 2
  OBVIOUS
<1> DEFINE b == n + 1
           D == [c \in 1 .. b |-> IF c = b THEN n ELSE d[c]]
<1>1. /\ pPc = "full" /\ pPc' = "link" /\ next[tailBlock] = frontBlock
      /\ b * slots <= shape.limit
      /\ blocks' = b /\ largestBlockSize' = slots
      /\ sizeMask' = [sizeMask EXCEPT ![b] = slots - 1]
      /\ data' = [data EXCEPT ![b] =
                    [s \in 0 .. slots - 1 |-> IF s = 0 THEN number ELSE Raw]]
      /\ number' = (number + 1) % Numbers
      /\ tail' = [tail EXCEPT ![b] = 1]
      /\ localTail' = [localTail EXCEPT ![b] = 1]
      /\ next' = [next EXCEPT ![b] = next[tailBlock]]
      /\ UNCHANGED <<shape, blocking, front, localFront, frontBlock, tailBlock,
                     permits, promised, cPc, cOp, item, waiting>>
  BY <1>0 DEF MakeBlock, PGoes, fixedVars, consumerVars
<1>2. /\ n = blocks /\ n \in Nat \ {0} /\ largestBlockSize \in Nat
      /\ largestBlockSize >= 2 /\ MaxSlots \in Nat
      /\ FirstSlots(shape) \in Nat /\ FirstSlots(shape) <= largestBlockSize
      /\ FirstBlocks(shape) \in Nat /\ FirstBlocks(shape) <= blocks
      /\ shape.limit \in Nat /\ shape.limit <= MaxSlots
      /\ shape \in Shapes /\ FirstSlots(shape) >= 2
  BY <1>0, Sized, ShapeFacts DEF Inv, TypeInv
<1>3. slots \in Nat /\ slots >= 2 /\ slots >= largestBlockSize
  BY <1>0, <1>2
<1>4. b \in Nat /\ b \in Blocks
  <2>1. b \in Nat /\ b * slots <= MaxSlots
    BY <1>1, <1>2, <1>3
  <2>2. 2 * b <= b * slots
    BY <2>1, <1>3
  <2>3. 2 * b <= MaxSlots
    <3>1. b * slots \in Nat
      BY <2>1, <1>3
    <3> HIDE DEF b
    <3> QED BY <2>1, <2>2, <3>1, <1>2
  <2>4. b <= MaxSlots \div 2
    BY <2>1, <2>3, <1>2
  <2> QED BY <2>1, <2>4, <1>2 DEF Blocks
<1>5. /\ front[b] = 0 /\ localFront[b] = 0 /\ tail[b] = 0 /\ localTail[b] = 0
      /\ \A c \in 1 .. n : c \in Blocks /\ c # b
      /\ \A c \in 1 .. b : c \in 1 .. n \/ c = b
      /\ frontBlock \in 1 .. n /\ tailBlock \in 1 .. n /\ n = blocks
  BY <1>2, <1>4, Known DEF Inv, TypeInv
<1>6. /\ sizeMask' \in [Blocks -> Nat] /\ tail' \in [Blocks -> Nat]
      /\ localTail' \in [Blocks -> Nat] /\ next' \in [Blocks -> Nat]
      /\ sizeMask'[b] = slots - 1 /\ tail'[b] = 1 /\ localTail'[b] = 1
      /\ next'[b] = frontBlock
      /\ \A c \in Blocks : c # b =>
           /\ sizeMask'[c] = sizeMask[c] /\ tail'[c] = tail[c]
           /\ localTail'[c] = localTail[c] /\ next'[c] = next[c]
  <2>1. /\ sizeMask \in [Blocks -> Nat] /\ tail \in [Blocks -> Nat]
        /\ localTail \in [Blocks -> Nat] /\ next \in [Blocks -> Nat]
    BY DEF Inv, TypeInv
  <2>2. slots - 1 \in Nat /\ frontBlock \in Nat
    BY <1>3, <1>5
  <2> HIDE DEF b
  <2> QED BY <2>1, <2>2, <1>1, <1>4
<1>7. /\ \A c \in Blocks : c # b => Count(c)' = Count(c)
      /\ Count(b)' = 1
  <2>1. \A c \in Blocks : c # b => Count(c)' = Count(c)
    BY <1>1, <1>6 DEF Count
  <2>2. Dist(slots - 1, 0, 1) = 1
    BY <1>3 DEF Dist
  <2>3. Dist(sizeMask[b], front[b], tail[b])' = 1
    BY <2>2, <1>1, <1>5, <1>6
  <2> QED BY <2>1, <2>3 DEF Count
<1> HIDE DEF b
<1>8. number' \in Values /\ number \in Values /\ number # Raw
  BY <1>1, QueueConstants, SMTT(30) DEF Inv, TypeInv, Values
<1>9. TypeInv'
  <2>1. \A c \in 1 .. b : /\ FirstSlots(shape) <= sizeMask'[c] + 1
                          /\ sizeMask'[c] + 1 <= slots
    <3> TAKE c \in 1 .. b
    <3>1. CASE c = b
      BY <3>1, <1>2, <1>3, <1>6
    <3>2. CASE c \in 1 .. n
      BY <3>2, <1>2, <1>3, <1>5, <1>6 DEF Inv, TypeInv
    <3> QED BY <3>1, <3>2, <1>5
  <2>2. \A c \in Blocks :
          /\ front[c] <= sizeMask'[c] /\ localTail'[c] <= sizeMask'[c]
          /\ tail'[c] <= sizeMask'[c] /\ localFront[c] <= sizeMask'[c]
    <3> TAKE c \in Blocks
    <3>1. CASE c = b
      BY <3>1, <1>3, <1>5, <1>6
    <3>2. CASE c # b
      BY <3>2, <1>6 DEF Inv, TypeInv
    <3> QED BY <3>1, <3>2
  <2>3. \A c \in Blocks : c > b => c > n /\ c # b
    BY <1>2 DEF b, Blocks
  <2>4. \A c \in Blocks : c > b =>
          front[c] = 0 /\ localTail'[c] = 0 /\ tail'[c] = 0 /\ localFront[c] = 0
    BY <2>3, <1>5, <1>6 DEF Inv, TypeInv
  <2>5. /\ frontBlock \in 1 .. b /\ tailBlock \in 1 .. b
        /\ FirstBlocks(shape) <= b
    BY <1>2, <1>5 DEF b
  <2>6. FirstSlots(shape) <= slots
    BY <1>2, <1>3
  <2>7. /\ shape' \in Shapes /\ blocking' \in BOOLEAN
        /\ blocks' \in Nat /\ FirstBlocks(shape') <= blocks'
        /\ largestBlockSize' \in Nat /\ FirstSlots(shape') <= largestBlockSize'
        /\ blocks' * largestBlockSize' <= shape'.limit
        /\ frontBlock' \in 1 .. blocks' /\ tailBlock' \in 1 .. blocks'
    BY <1>1, <1>3, <1>4, <2>5, <2>6 DEF Inv, TypeInv
  <2>8. /\ permits' \in Nat /\ pPc' \in ProducerPcs /\ cPc' \in ConsumerPcs
        /\ cOp' \in {"dequeue", "peek"} /\ number' \in Values
        /\ promised' \in BOOLEAN /\ waiting' \in BOOLEAN
    BY <1>1, <1>8 DEF Inv, TypeInv, ProducerPcs
  <2>9. /\ front' = front /\ localFront' = localFront /\ Blocks' = Blocks
        /\ front \in [Blocks -> Nat] /\ localFront \in [Blocks -> Nat]
        /\ blocks' = b /\ largestBlockSize' = slots /\ shape' = shape
    BY <1>1 DEF Inv, TypeInv, Blocks
  <2> QED BY <1>6, <2>1, <2>2, <2>4, <2>7, <2>8, <2>9 DEF TypeInv
<1>10. /\ D[b] = n /\ \A c \in 1 .. n : D[c] = d[c]
       /\ \A c \in 1 .. n : d[c] \in 0 .. n - 1
  BY <1>2, <1>5, Known DEF b
<1>11. D \in [1 .. b -> 0 .. b - 1]
  BY <1>2, <1>5, <1>10 DEF b
<1> HIDE DEF D
<1>12. CircleInv(D)'
  <2>1. \A c, e \in 1 .. b : D[c] = D[e] => c = e
    <3> SUFFICES ASSUME NEW c \in 1 .. b, NEW e \in 1 .. b, D[c] = D[e]
                 PROVE  c = e
      OBVIOUS
    <3>1. CASE c \in 1 .. n /\ e \in 1 .. n
      BY <3>1, <1>5, <1>10 DEF Inv, CircleInv
    <3>2. CASE c = b \/ e = b
      BY <3>2, <1>2, <1>5, <1>10
    <3> QED BY <3>1, <3>2, <1>5
  <2>2. D[tailBlock] = 0
    BY <1>5, <1>10 DEF Inv, CircleInv
  <2>3. \A c \in 1 .. b : next'[c] \in 1 .. b
    <3> TAKE c \in 1 .. b
    <3>1. CASE c = b
      BY <3>1, <1>2, <1>5, <1>6 DEF b
    <3>2. CASE c \in 1 .. n
      <4>1. next'[c] \in 1 .. n
        BY <3>2, <1>5, <1>6 DEF Inv, CircleInv
      <4> QED BY <4>1, <1>2 DEF b
    <3> QED BY <3>1, <3>2, <1>5
  <2>4. d[frontBlock] = n - 1
    BY <1>1, <1>5 DEF Inv, CircleInv
  <2>5. \A c \in 1 .. b : c # tailBlock => D[next'[c]] = D[c] - 1
    <3> TAKE c \in 1 .. b
    <3>1. CASE c = b
      BY <3>1, <2>4, <1>5, <1>6, <1>10
    <3>2. CASE c \in 1 .. n /\ c # tailBlock
      <4>1. next'[c] = next[c] /\ next[c] \in 1 .. n
            /\ d[next[c]] = d[c] - 1
        BY <3>2, <1>5, <1>6 DEF Inv, CircleInv
      <4> QED BY <4>1, <3>2, <1>10
    <3> QED BY <3>1, <3>2, <1>5
  <2>6. next'[tailBlock] = frontBlock
    BY <1>1, <1>5, <1>6
  <2>7. b - 1 = n /\ b - 2 = n - 1
    BY <1>2 DEF b
  <2>8. D[next'[tailBlock]] = b - 2 /\ D[b] = b - 1
    BY <2>4, <2>6, <2>7, <1>5, <1>10
  <2> QED BY <1>1, <1>11, <2>1, <2>2, <2>3, <2>5, <2>8 DEF CircleInv
<1>13. SeenInv'
  <2> SUFFICES ASSUME NEW c \in 1 .. b
               PROVE /\ Dist(sizeMask'[c], front[c], localTail'[c]) <= Count(c)'
                     /\ Count(c)' <= Dist(sizeMask'[c], localFront[c], tail'[c])
    BY <1>1 DEF SeenInv
  <2>1. CASE c = b
    <3>1. Dist(slots - 1, 0, 1) = 1
      BY <1>3 DEF Dist
    <3> QED BY <2>1, <3>1, <1>1, <1>5, <1>6, <1>7 DEF b
  <2>2. CASE c \in 1 .. n
    BY <2>2, <1>5, <1>6, <1>7 DEF Inv, SeenInv
  <2> QED BY <2>1, <2>2, <1>5
<1>14. SlotInv'
  <2>1. DOMAIN data = Blocks /\ \A c \in Blocks : data[c] \in [0 .. sizeMask[c] -> Item]
    BY DEF Inv, SlotInv
  <2>2. /\ DOMAIN data' = Blocks /\ \A c \in Blocks : c # b => data'[c] = data[c]
        /\ data'[b] = [s \in 0 .. slots - 1 |-> IF s = 0 THEN number ELSE Raw]
    BY <2>1, <1>1, <1>4
  <2>3. ASSUME NEW c \in Blocks PROVE data'[c] \in [0 .. sizeMask'[c] -> Item]
    <3>1. CASE c = b
      BY <3>1, <2>2, <1>6, <1>8 DEF Item
    <3>2. CASE c # b
      BY <3>2, <2>1, <2>2, <1>6
    <3> QED BY <3>1, <3>2
  <2>4. ASSUME NEW c \in Blocks, NEW s \in 0 .. sizeMask'[c]
        PROVE  data'[c][s] # Raw <=> Occupied(c, s)'
    <3>1. CASE c = b
      <4>1. s \in 0 .. slots - 1 /\ (data'[b][s] # Raw <=> s = 0)
        BY <2>2, <2>4, <3>1, <1>6, <1>8
      <4>2. Dist(slots - 1, 0, s) = s
        BY <4>1, <1>3 DEF Dist
      <4>3. frontBlock # b
        BY <1>5
      <4>4. sizeMask'[c] = slots - 1 /\ front'[c] = 0 /\ Count(c)' = 1
        BY <3>1, <1>1, <1>5, <1>6, <1>7 DEF b
      <4>5. Occupied(c, s)' <=> s < 1
        BY <3>1, <4>2, <4>3, <4>4, <1>1 DEF Occupied
      <4> QED BY <3>1, <4>1, <4>5
    <3>2. CASE c # b
      <4>1. s \in 0 .. sizeMask[c] /\ data'[c] = data[c]
        BY <3>2, <2>2, <2>4, <1>6
      <4>2. Occupied(c, s)' <=> Occupied(c, s)
        BY <3>2, <1>1, <1>6, <1>7 DEF Occupied
      <4> QED BY <4>1, <4>2 DEF Inv, SlotInv
    <3> QED BY <3>1, <3>2
  <2> QED BY <2>2, <2>3, <2>4 DEF SlotInv, Blocks
<1>15. d[frontBlock] = n - 1 /\ D[frontBlock] = n - 1
  BY <1>1, <1>5, <1>10 DEF Inv, CircleInv
<1>16. PathInv(D)'
  <2>1. ASSUME NEW c \in 1 .. b, D[c] < D[frontBlock]
        PROVE  /\ front[c] # tail'[c]
               /\ c # tailBlock => Count(c)' = sizeMask'[c]
    <3>1. c \in 1 .. n
      BY <2>1, <1>2, <1>5, <1>10, <1>15
    <3> QED BY <2>1, <3>1, <1>5, <1>6, <1>7, <1>10 DEF Inv, PathInv
  <2>2. ASSUME NEW c \in 1 .. b, D[c] > D[frontBlock]
        PROVE  /\ D[c] = b - 1
               /\ tail'[c] = After(sizeMask'[c], front[c])
    <3>1. c = b
      BY <2>2, <1>2, <1>5, <1>10, <1>15
    <3>2. After(slots - 1, 0) = 1
      BY <1>3 DEF After, Wrap
    <3> QED BY <3>1, <3>2, <1>2, <1>5, <1>6, <1>10 DEF b
  <2> QED BY <1>1, <2>1, <2>2 DEF PathInv
<1>17. TurnInv(D)'
  <2>1. Count(tailBlock)' = Count(tailBlock) /\ sizeMask'[tailBlock] = sizeMask[tailBlock]
    BY <1>1, <1>5, <1>6, <1>7
  <2>2. tail'[frontBlock] = tail[frontBlock]
    BY <1>5, <1>6
  <2>3. D[frontBlock] < b - 1
    BY <1>2, <1>15 DEF b
  <2>4. /\ localTail'[frontBlock] = localTail[frontBlock]
        /\ next'[frontBlock] = next[frontBlock]
        /\ localTail'[next[frontBlock]] = localTail[next[frontBlock]]
    <3>1. next[frontBlock] \in 1 .. n
      BY <1>5 DEF Inv, CircleInv
    <3> QED BY <3>1, <1>5, <1>6
  <2> QED BY <1>1, <2>1, <2>2, <2>3, <2>4 DEF Inv, TurnInv
<1> QED BY <1>9, <1>12, <1>13, <1>14, <1>16, <1>17 DEF Inv

\* d measures a circle of n blocks by how far each is before block s.
Circle(n, d, s, succ) ==
  /\ n \in Nat /\ n > 1 /\ s \in 1 .. n /\ d \in [1 .. n -> 0 .. n - 1]
  /\ \A b \in 1 .. n : succ[b] \in 1 .. n
  /\ \A b, c \in 1 .. n : d[b] = d[c] => b = c
  /\ d[s] = 0 /\ d[succ[s]] = n - 1
  /\ \A b \in 1 .. n : b # s => d[succ[b]] = d[b] - 1

\* When the tail block goes on to the farthest block, every other block is one
\* block farther before it.
LEMMA CircleTurns ==
  ASSUME NEW n, NEW d, NEW s, NEW succ, Circle(n, d, s, succ)
  PROVE  \E e : /\ Circle(n, e, succ[s], succ)
                /\ \A b \in 1 .. n : b # succ[s] => e[b] = d[b] + 1
<1> DEFINE t == succ[s]
<1> USE DEF Circle
<1>0. n \in Nat /\ n > 1 /\ t \in 1 .. n /\ d[t] = n - 1 /\ d[s] = 0
  OBVIOUS
<1> HIDE DEF t
<1>1. \A b \in 1 .. n : d[b] \in 0 .. n - 1
  OBVIOUS
<1>2. ASSUME NEW b \in 1 .. n, b # t PROVE d[b] < n - 1
  <2>1. d[b] # n - 1
    BY <1>0, <1>2
  <2> QED BY <2>1, <1>0, <1>1
<1>3. PICK e : e = [b \in 1 .. n |-> IF b = t THEN 0 ELSE d[b] + 1]
  OBVIOUS
<1>4. e[t] = 0 /\ \A b \in 1 .. n : b # t => e[b] = d[b] + 1
  BY <1>0, <1>3
<1>5. e \in [1 .. n -> 0 .. n - 1]
  BY <1>1, <1>2, <1>3
<1>6. ASSUME NEW b \in 1 .. n, NEW c \in 1 .. n, e[b] = e[c] PROVE b = c
  <2>0. d[b] \in Int /\ d[c] \in Int /\ d[b] >= 0 /\ d[c] >= 0
    BY <1>1
  <2>1. CASE b # t /\ c # t
    <3>1. d[b] + 1 = d[c] + 1
      BY <2>1, <1>4, <1>6
    <3>2. d[b] = d[c]
      BY <3>1, <2>0
    <3> QED BY <3>2
  <2>2. CASE b = t /\ c # t
    <3>1. d[c] + 1 = 0
      BY <2>2, <1>4, <1>6
    <3> QED BY <3>1, <2>0
  <2>3. CASE c = t /\ b # t
    <3>1. d[b] + 1 = 0
      BY <2>3, <1>4, <1>6
    <3> QED BY <3>1, <2>0
  <2> QED BY <2>1, <2>2, <2>3
<1>7. ASSUME NEW b \in 1 .. n, b # t PROVE e[succ[b]] = e[b] - 1
  <2>0. d[b] \in Int /\ d[b] <= n - 1 /\ e[b] = d[b] + 1 /\ succ[b] \in 1 .. n
    BY <1>1, <1>4, <1>7
  <2>1. CASE b = s
    <3>1. e[succ[b]] = 0 /\ e[b] = 0 + 1
      BY <1>0, <2>0, <2>1, <1>4 DEF t
    <3> QED BY <3>1
  <2>2. CASE b # s
    <3>1. d[succ[b]] = d[b] - 1
      BY <2>2
    <3>2. succ[b] # t
      BY <3>1, <2>0, <1>0
    <3>3. e[succ[b]] = d[succ[b]] + 1
      BY <3>2, <2>0, <1>4
    <3> QED BY <3>1, <3>3, <2>0
  <2> QED BY <2>1, <2>2
<1>8. e[succ[t]] = n - 1
  <2>0. t # s
    BY <1>0
  <2>1. d[succ[t]] = (n - 1) - 1
    BY <2>0, <1>0
  <2>2. succ[t] # t
    BY <2>1, <1>0
  <2>3. e[succ[t]] = d[succ[t]] + 1
    BY <2>2, <1>0, <1>4
  <2> QED BY <2>1, <2>3, <1>0
<1> QED
  <2>1. Circle(n, e, t, succ)
    BY <1>0, <1>4, <1>5, <1>6, <1>7, <1>8
  <2> QED BY <2>1, <1>4 DEF t

\* Linking the new block puts it after the tail block.
LEMMA LinkKeeps == ASSUME NEW d, Inv(d), Link PROVE Inv(d)'
<1> USE DEF Link, PGoes, UnchangedByProducer, fixedVars, consumerVars
<1> DEFINE t == tailBlock
<1>1. /\ t \in 1 .. blocks /\ t \in Blocks /\ blocks \in Nat \ {0}
      /\ next \in [Blocks -> Nat] /\ frontBlock \in 1 .. blocks
      /\ \A b \in 1 .. blocks : b \in Blocks
  BY Known DEF Inv, TypeInv
<1>2. /\ next' \in [Blocks -> Nat] /\ next'[t] = blocks
      /\ \A b \in Blocks : b # t => next'[b] = next[b]
  BY <1>1
<1>3. TypeInv'
  BY <1>2 DEF Inv, TypeInv, ProducerPcs
<1>4. CircleInv(d)'
  <2>1. \A b \in 1 .. blocks : next'[b] \in 1 .. blocks
    BY <1>1, <1>2 DEF Inv, CircleInv
  <2>2. \A b \in 1 .. blocks : b # t => d[next'[b]] = d[b] - 1
    BY <1>1, <1>2 DEF Inv, CircleInv
  <2>3. d[next'[t]] = blocks - 1
    BY <1>2 DEF Inv, CircleInv
  <2> QED BY <2>1, <2>2, <2>3 DEF Inv, CircleInv
<1>5. SeenInv' /\ SlotInv'
  BY DEF Inv, SeenInv, SlotInv, Occupied, Count, Blocks
<1>6. PathInv(d)'
  BY DEF Inv, PathInv, Count
<1>7. TurnInv(d)'
  BY <1>1, <1>2 DEF Inv, TurnInv, Count, Blocks
<1> QED BY <1>3, <1>4, <1>5, <1>6, <1>7 DEF Inv

\* The producer goes on to the block ahead, which has an element.
LEMMA AdvanceKeeps == ASSUME NEW d, Inv(d), Advance PROVE \E e : Inv(e)'
<1>1. PICK n, t : n = blocks /\ t = next[tailBlock]
  OBVIOUS
<1>2. /\ n = blocks /\ t = next[tailBlock] /\ n \in Nat \ {0} /\ t \in 1 .. n
      /\ tailBlock \in 1 .. n /\ frontBlock \in 1 .. n
      /\ \A b \in 1 .. n : d[b] \in 0 .. n - 1 /\ b \in Blocks
      /\ d[t] = n - 1 /\ d[tailBlock] = 0 /\ d[frontBlock] < n - 1
  BY <1>1, Known DEF Inv, CircleInv, TurnInv, Advance, PGoes
<1>3. \A b \in 1 .. n : b # t => d[b] < n - 1
  <2> SUFFICES ASSUME NEW b \in 1 .. n, b # t PROVE d[b] # n - 1
    BY <1>2
  <2> QED BY <1>2 DEF Inv, CircleInv
<1>4. PICK e : /\ Circle(n, e, t, next)
               /\ \A b \in 1 .. n : b # t => e[b] = d[b] + 1
  <2>1. n > 1
    BY <1>2
  <2>2. Circle(n, d, tailBlock, next)
    BY <1>2, <2>1 DEF Inv, CircleInv, Circle
  <2>3. \E e : /\ Circle(n, e, next[tailBlock], next)
               /\ \A b \in 1 .. n : b # next[tailBlock] => e[b] = d[b] + 1
    BY <2>2, CircleTurns
  <2> QED BY <2>3, <1>2
<1>50. e \in [1 .. n -> 0 .. n - 1] /\ e[t] = 0
  BY <1>4 DEF Circle
<1> USE DEF Advance, PGoes, UnchangedByProducer, shapeVars, fixedVars,
            consumerVars
<1>5. TypeInv'
  BY <1>2 DEF Inv, TypeInv, ProducerPcs, Enqueued
<1>6. CircleInv(e)'
  BY <1>2, <1>4 DEF Circle, CircleInv, Enqueued
<1>7. SeenInv' /\ SlotInv'
  BY DEF Inv, SeenInv, SlotInv, Occupied, Count, Blocks, Enqueued
<1>8. \A b \in Blocks : Count(b)' = Count(b)
  BY DEF Count
<1>9. PathInv(e)'
  <2>1. ASSUME NEW b \in 1 .. n, b # t
        PROVE  /\ e[b] < e[frontBlock] <=> d[b] < d[frontBlock]
               /\ e[b] > e[frontBlock] <=> d[b] > d[frontBlock]
    <3>1. e[b] = d[b] + 1 /\ e[frontBlock] = d[frontBlock] + 1
      BY <2>1, <1>2, <1>4, <1>50
    <3>2. d[b] \in Int /\ d[frontBlock] \in Int
      BY <1>2
    <3> QED BY <3>1, <3>2
  <2>2. front[t] # tail[t]
    <3>1. tail[t] = After(sizeMask[t], front[t])
      BY <1>2 DEF Inv, PathInv
    <3>2. /\ sizeMask[t] \in Nat /\ sizeMask[t] >= 1
          /\ front[t] \in 0 .. sizeMask[t]
      BY <1>1, Known
    <3> QED BY <3>1, <3>2 DEF After, Wrap
  <2>3. ASSUME NEW b \in 1 .. n, e[b] < e[frontBlock]
        PROVE  front[b] # tail[b]
    <3>1. CASE b = tailBlock /\ b # frontBlock
      <4>1. Count(b) # 0
        BY <3>1, <1>1, Known DEF Inv, TurnInv
      <4> QED BY <4>1, <1>2, Known
    <3>2. CASE b # t /\ b # tailBlock
      BY <2>1, <2>3, <3>2, <1>2, <1>4, <1>50 DEF Inv, PathInv
    <3>3. b # t => b # frontBlock
      BY <2>1, <2>3, <1>4, <1>50
    <3> QED BY <3>1, <3>2, <3>3, <2>2
  <2>4. ASSUME NEW b \in 1 .. n, b # t, e[b] < e[frontBlock]
        PROVE  Count(b) = sizeMask[b]
    <3>1. d[b] < d[frontBlock]
      BY <2>1, <2>4
    <3>2. CASE b = tailBlock
      BY <3>1, <3>2, <1>2 DEF Inv, TurnInv
    <3>3. CASE b # tailBlock
      BY <3>1, <3>3, <1>2 DEF Inv, PathInv
    <3> QED BY <3>2, <3>3
  <2>5. ASSUME NEW b \in 1 .. n, e[b] > e[frontBlock]
        PROVE  tail[b] = front[b]
    <3>0. b # t
      <4>1. e[frontBlock] \in Nat
        BY <1>2, <1>50
      <4> QED BY <4>1, <2>5, <1>4, <1>50
    <3>1. b # t /\ d[b] > d[frontBlock]
      BY <3>0, <2>1, <2>5
    <3>2. d[b] # n - 1
      BY <3>1, <1>2, <1>3
    <3> QED BY <3>1, <3>2, <1>2 DEF Inv, PathInv
  <2>6. pPc' \notin {"link", "advance"}
    BY DEF Enqueued
  <2> QED BY <1>1, <1>2, <1>8, <2>3, <2>4, <2>5, <2>6 DEF PathInv
<1>10. TurnInv(e)'
  <2>1. pPc' \in {"signal", "idle"} /\ pPc = "advance"
    BY DEF Enqueued
  <2>2. t # frontBlock /\ tailBlock' = t
    BY <1>2
  <2> QED BY <2>1, <2>2 DEF Inv, TurnInv, Count, Blocks
<1> QED BY <1>5, <1>6, <1>7, <1>9, <1>10 DEF Inv

\* The consumer leaves an empty block for the one after it.
LEMMA EnterNextKeeps == ASSUME NEW d, Inv(d), EnterNext PROVE Inv(d)'
<1> USE DEF EnterNext, CGoes, UnchangedByConsumer, shapeVars, fixedVars,
            producerVars
<1> DEFINE h == next[frontBlock]
<1>1. /\ frontBlock # tailBlock /\ front[frontBlock] = tail[frontBlock]
      /\ front[h] # localTail[h]
  BY DEF Inv, TurnInv
<1>2. /\ h \in 1 .. blocks /\ frontBlock \in 1 .. blocks /\ blocks \in Nat
      /\ h \in Blocks /\ d[h] = d[frontBlock] - 1
      /\ \A b \in 1 .. blocks : d[b] \in 0 .. blocks - 1
  BY <1>1, Known DEF Inv, CircleInv
<1>3. front[h] # tail[h]
  BY <1>2 DEF Inv, PathInv
<1>4. TypeInv'
  BY <1>2 DEF Inv, TypeInv, ConsumerPcs
<1>5. CircleInv(d)' /\ SeenInv'
  BY DEF Inv, CircleInv, SeenInv, Count
<1>6. SlotInv'
  BY DEF Inv, SlotInv, Occupied, Count, Blocks
<1>7. PathInv(d)'
  <2>1. ASSUME NEW b \in 1 .. blocks, d[b] < d[h]
        PROVE  front[b] # tail[b] /\ (b # tailBlock => Count(b) = sizeMask[b])
    <3>1. d[b] < d[frontBlock]
      BY <2>1, <1>2
    <3> QED BY <3>1 DEF Inv, PathInv
  <2>2. ASSUME NEW b \in 1 .. blocks, d[b] > d[h]
        PROVE  IF d[b] = blocks - 1 /\ pPc \in {"link", "advance"}
                 THEN tail[b] = After(sizeMask[b], front[b])
                 ELSE tail[b] = front[b]
    <3>1. CASE b = frontBlock
      <4>1. ~(d[b] = blocks - 1 /\ pPc \in {"link", "advance"})
        BY <3>1, <1>2 DEF Inv, TurnInv
      <4> QED BY <3>1, <4>1, <1>1
    <3>2. CASE b # frontBlock
      <4>1. d[b] # d[frontBlock]
        BY <3>2, <1>2 DEF Inv, CircleInv
      <4>2. d[b] > d[frontBlock]
        BY <4>1, <2>2, <1>2
      <4> QED BY <4>2 DEF Inv, PathInv
    <3> QED BY <3>1, <3>2
  <2> QED BY <2>1, <2>2 DEF PathInv, Count
<1>8. TurnInv(d)'
  <2>1. d[frontBlock] < blocks - 1 => d[h] < blocks - 1
    BY <1>2
  <2> QED BY <2>1, <1>1, <1>3 DEF Inv, TurnInv, Count, Room
<1> QED BY <1>4, <1>5, <1>6, <1>7, <1>8 DEF Inv

\* The consumer moves an element out: its slot is between front and tail
\* still, and free.
LEMMA TakeOutKeeps == ASSUME NEW d, Inv(d), TakeOut PROVE Inv(d)'
<1> USE DEF TakeOut, CGoes, UnchangedByConsumer, shapeVars, fixedVars,
            producerVars
<1> DEFINE h == frontBlock
           f == front[h]
<1>1. CircleInv(d)' /\ PathInv(d)' /\ \A b \in Blocks : Count(b)' = Count(b)
  BY FramePath DEF placeVars
<1>2. /\ h \in Blocks /\ f \in 0 .. sizeMask[h] /\ f # tail[h]
      /\ sizeMask[h] \in Nat /\ Count(h) \in 0 .. sizeMask[h] /\ Count(h) # 0
  BY Known DEF Inv, TurnInv
<1>3. /\ DOMAIN data = Blocks
      /\ \A b \in Blocks : data[b] \in [0 .. sizeMask[b] -> Item]
      /\ data' = [data EXCEPT ![h] = [data[h] EXCEPT ![f] = Raw]]
  BY DEF Inv, SlotInv
<1>4. /\ DOMAIN data' = Blocks
      /\ \A b \in Blocks : b # h => data'[b] = data[b]
      /\ data'[h] = [data[h] EXCEPT ![f] = Raw]
  BY <1>2, <1>3
<1>5. /\ \A b \in Blocks : data'[b] \in [0 .. sizeMask[b] -> Item]
      /\ data'[h][f] = Raw
      /\ \A s \in 0 .. sizeMask[h] : s # f => data'[h][s] = data[h][s]
  BY <1>2, <1>3, <1>4 DEF Item
<1>6. SlotInv'
  <2> SUFFICES ASSUME NEW b \in Blocks, NEW s \in 0 .. sizeMask[b]
               PROVE  data'[b][s] # Raw <=> Occupied(b, s)'
    BY <1>4, <1>5 DEF SlotInv, Blocks
  <2>1. CASE b = h /\ s = f
    BY <2>1, <1>2, <1>5 DEF Occupied
  <2>2. CASE ~(b = h /\ s = f)
    <3>1. Occupied(b, s)' <=> Occupied(b, s)
      BY <2>2, <1>1 DEF Occupied
    <3> QED BY <2>2, <3>1, <1>4, <1>5 DEF Inv, SlotInv
  <2> QED BY <2>1, <2>2
<1>7. TypeInv' /\ SeenInv'
  BY DEF Inv, TypeInv, ConsumerPcs, SeenInv, Count
<1>8. TurnInv(d)'
  BY DEF Inv, TurnInv, Count, Room
<1> QED BY <1>1, <1>6, <1>7, <1>8 DEF Inv

\* The consumer gives the slot back: the producer may construct there again.
LEMMA BumpKeeps == ASSUME NEW d, Inv(d), Bump PROVE Inv(d)'
<1> USE DEF Bump, CGoes, UnchangedByConsumer, shapeVars, fixedVars,
            producerVars
<1> DEFINE h == frontBlock
           m == sizeMask[h]
           f == front[h]
           e == After(m, f)
<1>1. /\ h \in 1 .. blocks /\ h \in Blocks /\ m \in Nat /\ f \in 0 .. m
      /\ tail[h] \in 0 .. m /\ localTail[h] \in 0 .. m
      /\ localFront[h] \in 0 .. m /\ f # tail[h] /\ f # localTail[h]
      /\ Count(h) = Dist(m, f, tail[h]) /\ Count(h) \in 0 .. m
  BY Known DEF Inv, TurnInv, Count
<1>2. /\ e \in 0 .. m
      /\ Dist(m, e, tail[h]) = Count(h) - 1
      /\ Dist(m, e, localTail[h]) = Dist(m, f, localTail[h]) - 1
  <2> HIDE DEF m, f
  <2> QED BY <1>1, RingAfter, RingNear
<1>3. /\ front' = [front EXCEPT ![h] = e] /\ front'[h] = e
      /\ \A b \in Blocks : b # h => front'[b] = front[b]
  BY <1>1 DEF Inv, TypeInv
<1>4. /\ Count(h)' = Count(h) - 1
      /\ \A b \in Blocks : b # h => Count(b)' = Count(b)
  BY <1>2, <1>3 DEF Count
<1> HIDE DEF m, f, e
<1>5. TypeInv'
  BY <1>1, <1>2, <1>3 DEF Inv, TypeInv, ConsumerPcs, m
<1>6. CircleInv(d)'
  BY DEF Inv, CircleInv
<1>7. SeenInv'
  <2> SUFFICES ASSUME NEW b \in 1 .. blocks
               PROVE /\ Dist(sizeMask[b], front'[b], localTail[b]) <= Count(b)'
                     /\ Count(b)' <= Dist(sizeMask[b], localFront[b], tail[b])
    BY DEF SeenInv
  <2>1. CASE b = h
    <3>1. /\ Dist(m, f, localTail[h]) \in 0 .. m
          /\ Dist(m, localFront[h], tail[h]) \in 0 .. m
      BY <1>1, RingTypes
    <3>2. /\ Dist(m, f, localTail[h]) <= Count(h)
          /\ Count(h) <= Dist(m, localFront[h], tail[h])
      BY <1>1 DEF Inv, SeenInv, m, f
    <3> QED BY <2>1, <3>1, <3>2, <1>1, <1>2, <1>3, <1>4 DEF m
  <2>2. CASE b # h
    BY <2>2, <1>3, <1>4, Known DEF Inv, SeenInv
  <2> QED BY <2>1, <2>2
<1>8. SlotInv'
  <2> SUFFICES ASSUME NEW b \in Blocks, NEW s \in 0 .. sizeMask[b]
               PROVE  Occupied(b, s)' <=> Occupied(b, s)
    BY DEF Inv, SlotInv
  <2>1. CASE b = h
    <3>1. s \in 0 .. m
      BY <2>1 DEF m
    <3>2. CASE s = f
      <4>1. Dist(m, e, s) = m
        BY <3>2, <1>1, RingAround DEF e
      <4> QED BY <2>1, <3>2, <4>1, <1>1, <1>3, <1>4 DEF Occupied, m, f
    <3>3. CASE s # f
      <4>1. Dist(m, e, s) = Dist(m, f, s) - 1 /\ Dist(m, f, s) \in 0 .. m
        BY <3>1, <3>3, <1>1, RingNear, RingTypes DEF e
      <4>2. Dist(m, e, s) < Count(h)' <=> Dist(m, f, s) < Count(h)
        BY <4>1, <1>1, <1>4
      <4> QED BY <2>1, <3>3, <4>2, <1>3 DEF Occupied, m, f
    <3> QED BY <3>2, <3>3
  <2>2. CASE b # h
    BY <2>2, <1>3, <1>4 DEF Occupied
  <2> QED BY <2>1, <2>2
<1>9. PathInv(d)'
  <2>1. \A b \in 1 .. blocks : d[b] # d[h] => b # h /\ b \in Blocks
    BY Known
  <2>2. \A b \in 1 .. blocks :
          d[b] < d[h] \/ d[b] > d[h] => d[b] # d[h]
    BY Known
  <2>3. \A b \in 1 .. blocks :
          d[b] # d[h] => front'[b] = front[b] /\ Count(b)' = Count(b)
    BY <2>1, <1>3, <1>4
  <2> QED BY <2>2, <2>3 DEF Inv, PathInv
<1>10. TurnInv(d)'
  <2>1. Count(tailBlock)' = Count(tailBlock) \/ tailBlock = h
    BY <1>4, Known
  <2>2. pPc = "publishAhead" => front'[next[tailBlock]] = front[next[tailBlock]]
    BY AheadIsEmpty, <1>3
  <2> QED BY <2>1, <2>2 DEF Inv, TurnInv, Room
<1> QED BY <1>5, <1>6, <1>7, <1>8, <1>9, <1>10 DEF Inv

\* The destructor empties every block.
LEMMA DestroyKeeps == ASSUME NEW d, Inv(d), Destroy PROVE Inv(d)'
<1>0. ASSUME NEW b \in Blocks
      PROVE  /\ Dist(sizeMask[b], tail[b], tail[b]) = 0
             /\ Dist(sizeMask[b], localFront[b], tail[b]) \in Nat
             /\ \A s \in 0 .. sizeMask[b] :
                  Dist(sizeMask[b], tail[b], s) \in Nat
  <2>1. /\ sizeMask[b] \in Nat /\ tail[b] \in 0 .. sizeMask[b]
        /\ localFront[b] \in 0 .. sizeMask[b]
    BY Known
  <2> QED BY <2>1 DEF Dist
<1> USE DEF Destroy, PGoes, CGoes, fixedVars, shapeVars
<1>1. TypeInv'
  BY DEF Inv, TypeInv, ConsumerPcs, ProducerPcs
<1>2. CircleInv(d)'
  BY DEF Inv, CircleInv
<1>3. \A b \in Blocks : /\ Count(b)' = 0
                        /\ Dist(sizeMask[b], tail[b], tail[b]) = 0
                        /\ Dist(sizeMask[b], localFront[b], tail[b]) \in Nat
  BY <1>0 DEF Count
<1>4. SeenInv'
  BY <1>3, Known DEF SeenInv
<1>5. SlotInv'
  <2>1. /\ DOMAIN data' = Blocks
        /\ \A b \in Blocks : data'[b] = [s \in 0 .. sizeMask[b] |->
             IF Dist(sizeMask[b], front[b], s) < Count(b) THEN Raw
                                                          ELSE data[b][s]]
    OBVIOUS
  <2>2. ASSUME NEW b \in Blocks, NEW s \in 0 .. sizeMask[b]
        PROVE  data'[b][s] = Raw /\ ~Occupied(b, s)'
    <3>1. data'[b][s] = Raw
      BY <2>1 DEF Inv, SlotInv, Occupied
    <3>2. Dist(sizeMask[b], tail[b], s) \in Nat
      BY <1>0
    <3>3. ~(Dist(sizeMask[b], tail[b], s) < Count(b)')
      BY <1>3, <3>2
    <3> QED BY <3>1, <3>3 DEF Occupied
  <2>3. \A b \in Blocks : data'[b] \in [0 .. sizeMask[b] -> Item]
    BY <2>1, <2>2 DEF Item
  <2> QED BY <2>1, <2>2, <2>3 DEF SlotInv, Blocks
<1>6. PathInv(d)'
  <2>1. \A b \in 1 .. blocks : ~(d[b] < d[tailBlock])
    BY Known DEF Inv, CircleInv
  <2> QED BY <2>1 DEF PathInv
<1>7. TurnInv(d)'
  BY DEF TurnInv
<1> QED BY <1>1, <1>2, <1>4, <1>5, <1>6, <1>7 DEF Inv

\* The constructor links the blocks in the order it makes them.
LEMMA InitHolds == Init => \E d : Inv(d)
<1> SUFFICES ASSUME Init PROVE \E d : Inv(d)
  OBVIOUS
<1>1. PICK n : n = blocks
  OBVIOUS
<1>2. PICK d : d = [b \in 1 .. n |-> IF b = 1 THEN 0 ELSE n - b + 1]
  OBVIOUS
<1>3. /\ FirstSlots(shape) \in Nat /\ FirstSlots(shape) >= 2
      /\ n = FirstBlocks(shape) /\ n \in Nat \ {0}
      /\ largestBlockSize = FirstSlots(shape)
      /\ blocks * largestBlockSize <= shape.limit
      /\ shape.limit <= MaxSlots /\ MaxSlots \in Nat /\ shape.limit \in Nat
  BY <1>1, ShapeFacts DEF Init
<1>4. TypeInv
  <2>1. \A b \in Blocks : /\ b \in Nat
                          /\ sizeMask[b] = IF b <= n THEN largestBlockSize - 1 ELSE 0
                          /\ next[b] = IF b < n THEN b + 1 ELSE 1
                          /\ front[b] = 0 /\ localTail[b] = 0
                          /\ tail[b] = 0 /\ localFront[b] = 0
    BY <1>1, <1>3 DEF Init, Blocks
  <2>2. 2 * n <= MaxSlots
    <3>1. n * 2 <= n * largestBlockSize
      BY <1>3
    <3>2. n * largestBlockSize \in Nat
      BY <1>3
    <3> QED BY <1>1, <1>3, <3>1, <3>2
  <2>3. \A b \in 1 .. n : b \in Blocks
    BY <1>3, <2>2 DEF Blocks
  <2>4. /\ sizeMask \in [Blocks -> Nat] /\ next \in [Blocks -> Nat]
        /\ front \in [Blocks -> Nat] /\ localTail \in [Blocks -> Nat]
        /\ tail \in [Blocks -> Nat] /\ localFront \in [Blocks -> Nat]
    BY <1>1, <1>3 DEF Init, Blocks
  <2>5. 0 \in Values
    BY QueueConstants DEF Values
  <2>6. /\ \A b \in 1 .. blocks : /\ FirstSlots(shape) <= sizeMask[b] + 1
                                  /\ sizeMask[b] + 1 <= largestBlockSize
        /\ \A b \in Blocks : /\ front[b] <= sizeMask[b] /\ localTail[b] <= sizeMask[b]
                            /\ tail[b] <= sizeMask[b] /\ localFront[b] <= sizeMask[b]
    BY <1>1, <1>3, <2>1, <2>3
  <2>7. \A b \in Blocks : /\ front[b] = 0 /\ localTail[b] = 0
                         /\ tail[b] = 0 /\ localFront[b] = 0
    BY <2>1
  <2>8. /\ shape \in Shapes /\ blocking \in BOOLEAN
        /\ frontBlock \in 1 .. blocks /\ tailBlock \in 1 .. blocks
        /\ permits \in Nat /\ number \in Values
    BY <1>1, <1>3, <2>5 DEF Init
  <2>10. /\ pPc \in ProducerPcs /\ cPc \in ConsumerPcs
         /\ cOp \in {"dequeue", "peek"}
         /\ promised \in BOOLEAN /\ waiting \in BOOLEAN
    BY DEF Init, ProducerPcs, ConsumerPcs
  <2>9. /\ blocks \in Nat /\ FirstBlocks(shape) <= blocks
        /\ largestBlockSize \in Nat /\ FirstSlots(shape) <= largestBlockSize
    BY <1>1, <1>3
  <2> QED BY <1>3, <2>4, <2>6, <2>7, <2>8, <2>9, <2>10 DEF TypeInv
<1>5. /\ \A b \in 1 .. blocks : b \in Blocks
      /\ \A b \in Blocks : Count(b) = 0 /\ front[b] = 0 /\ tail[b] = 0
      /\ pPc = "idle" /\ cPc = "idle" /\ tailBlock = 1 /\ frontBlock = 1
  BY <1>4, Sized DEF Init, Count, Dist
<1>6. CircleInv(d)
  <2>1. \A b \in 1 .. n : next[b] = IF b < n THEN b + 1 ELSE 1
    BY <1>1, <1>5 DEF Init
  <2>2. d \in [1 .. n -> 0 .. n - 1]
    BY <1>2, <1>3
  <2>3. \A b \in 1 .. n : next[b] \in 1 .. n
    BY <2>1, <1>3
  <2>4. \A b \in 1 .. n : b # 1 => d[next[b]] = d[b] - 1
    BY <2>1, <2>3, <1>2, <1>3
  <2>5. d[1] = 0 /\ d[next[1]] = n - 1
    BY <2>1, <2>3, <1>2, <1>3
  <2>6. \A b, c \in 1 .. n : d[b] = d[c] => b = c
    BY <1>2, <1>3
  <2> QED BY <1>1, <1>5, <2>2, <2>3, <2>4, <2>5, <2>6 DEF CircleInv
<1>7. SeenInv
  BY <1>5 DEF Init, SeenInv, Dist
<1>8. SlotInv
  <2>1. ASSUME NEW b \in Blocks, NEW s \in 0 .. sizeMask[b]
        PROVE  data[b][s] = Raw /\ ~Occupied(b, s)
    <3>1. data[b][s] = Raw
      BY DEF Init
    <3>2. ~(Dist(sizeMask[b], front[b], s) < 0)
      BY <1>5 DEF Dist
    <3> QED BY <3>1, <3>2, <1>5 DEF Occupied
  <2>2. DOMAIN data = Blocks /\ \A b \in Blocks : data[b] \in [0 .. sizeMask[b] -> Item]
    BY DEF Init, Item
  <2> QED BY <2>1, <2>2 DEF SlotInv
<1>9. PathInv(d)
  <2>1. d \in [1 .. n -> 0 .. n - 1] /\ d[1] = 0
    BY <1>1, <1>5, <1>6 DEF CircleInv
  <2>2. \A b \in 1 .. n : ~(d[b] < d[1])
    BY <2>1, <1>3
  <2> QED BY <2>2, <1>1, <1>5 DEF PathInv
<1>10. TurnInv(d)
  BY <1>5 DEF TurnInv
<1> QED BY <1>4, <1>6, <1>7, <1>8, <1>9, <1>10 DEF Inv

\* Every step keeps the invariant, some with another numbering of the blocks.
LEMMA StepKeeps ==
  ASSUME NEW d, Inv(d), [Next]_vars PROVE \E e : Inv(e)'
<1>1. CASE Produce
  BY <1>1, EnqueueRoomKeeps, EnqueueReadFrontKeeps, WriteKeeps, PublishKeeps,
     NextIsFreeKeeps, WriteAheadKeeps, PublishAheadKeeps, MakeBlockKeeps,
     LinkKeeps, AdvanceKeeps, RefuseEnqueueKeeps, Zenon DEF Produce
<1>2. CASE Consume
  BY <1>2, CallConsumerKeeps, StartLocalKeeps, ReadTailKeeps, CheckKeeps,
     ReadNextKeeps, EnterNextKeeps, TakeOutKeeps, BumpKeeps, Zenon DEF Consume
<1>3. CASE Destroy
  BY <1>3, DestroyKeeps, Zenon
<1>4. CASE Done \/ UNCHANGED vars
  <2>1. UNCHANGED vars
    BY <1>4 DEF Done
  <2> USE DEF vars, shapeVars, fixedVars, producerVars, consumerVars
  <2>2. CircleInv(d)' /\ SlotInv' /\ PathInv(d)'
    BY <2>1, Frame DEF placeVars
  <2>3. TypeInv'
    BY <2>1 DEF Inv, TypeInv
  <2>4. SeenInv' /\ TurnInv(d)'
    BY <2>1 DEF Inv, SeenInv, TurnInv, Count, Room
  <2> QED BY <2>2, <2>3, <2>4 DEF Inv
<1> QED BY <1>1, <1>2, <1>3, <1>4 DEF Next

\* What Inv says is true of every queue, at every moment, with some numbering
\* of its blocks.
LEMMA Always == Spec => [](\E d : Inv(d))
<1>1. (\E d : Inv(d)) /\ [Next]_vars => (\E d : Inv(d))'
  BY StepKeeps
<1> QED BY InitHolds, <1>1, PTL DEF Spec

\* The assertions follow from the invariant.
LEMMA AssertionsFollow == ASSUME NEW d, Inv(d) PROVE AssertionsHold
<1>1. ASSUME cPc = "next" PROVE front[next[frontBlock]] # tail[next[frontBlock]]
  <2>1. frontBlock # tailBlock
    BY <1>1 DEF Inv, TurnInv
  <2>2. /\ next[frontBlock] \in 1 .. blocks /\ frontBlock \in 1 .. blocks
        /\ d[frontBlock] \in Int /\ d[next[frontBlock]] \in Int
    BY Known
  <2>3. d[next[frontBlock]] = d[frontBlock] - 1
    BY <2>1, <2>2 DEF Inv, CircleInv
  <2> QED BY <2>2, <2>3 DEF Inv, PathInv
<1>2. ASSUME pPc = "ahead"
      PROVE  LET b == next[tailBlock]
             IN  front[b] = tail[b] /\ data[b][tail[b]] = Raw
  <2> DEFINE b == next[tailBlock]
  <2>1. b \in Blocks /\ b # frontBlock /\ front[b] = tail[b]
    BY <1>2, AheadIsEmpty
  <2>2. tail[b] \in 0 .. sizeMask[b] /\ Count(b) = 0 /\ sizeMask[b] \in Nat
    BY <2>1, Known
  <2>3. ~(Dist(sizeMask[b], front[b], tail[b]) < 0)
    BY <2>2 DEF Count
  <2>4. ~Occupied(b, tail[b])
    BY <1>2, <2>2, <2>3 DEF Occupied
  <2> QED BY <2>1, <2>2, <2>4 DEF Inv, SlotInv
<1>3. ASSUME pPc = "write" PROVE data[tailBlock][tail[tailBlock]] = Raw
  <2> DEFINE b == tailBlock
  <2>1. b \in Blocks /\ tail[b] \in 0 .. sizeMask[b]
    BY Known
  <2>2. ~(Dist(sizeMask[b], front[b], tail[b]) < Count(b))
    <3>1. Count(b) \in Int
      BY <2>1, Known
    <3> QED BY <3>1 DEF Count
  <2>3. ~Occupied(b, tail[b])
    BY <1>3, <2>2 DEF Occupied
  <2> QED BY <2>1, <2>3 DEF Inv, SlotInv
<1>4. ASSUME cPc = "take" PROVE data[frontBlock][front[frontBlock]] # Raw
  <2> DEFINE b == frontBlock
  <2>1. /\ b \in Blocks /\ front[b] \in 0 .. sizeMask[b] /\ sizeMask[b] \in Nat
        /\ Count(b) \in 0 .. sizeMask[b] /\ Count(b) # 0
    BY <1>4, Known DEF Inv, TurnInv
  <2>2. Dist(sizeMask[b], front[b], front[b]) = 0
    BY <2>1 DEF Dist
  <2>3. Occupied(b, front[b])
    BY <1>4, <2>1, <2>2 DEF Occupied
  <2> QED BY <2>1, <2>3 DEF Inv, SlotInv
<1>5. ASSUME pPc = "gone", NEW b \in Blocks, NEW s \in 0 .. sizeMask[b]
      PROVE  data[b][s] = Raw
  <2>1. /\ sizeMask[b] \in Nat /\ front[b] \in 0 .. sizeMask[b]
        /\ front[b] = tail[b] /\ Count(b) = 0
    BY <1>5, Known DEF Inv, TurnInv
  <2>2. ~(Dist(sizeMask[b], front[b], s) < Count(b))
    BY <2>1 DEF Dist
  <2>3. ~Occupied(b, s)
    BY <1>5, <2>2 DEF Occupied
  <2> QED BY <2>3 DEF Inv, SlotInv
<1> QED BY <1>1, <1>2, <1>3, <1>4, <1>5 DEF AssertionsHold, ElementAhead

\* The assertions of inner_enqueue and inner_dequeue, and what the code relies
\* on without one, hold: the next block has an element when the consumer is
\* sent there, the block ahead is empty, an element is constructed in a free
\* slot and moved out of a used one, and the destructor leaves none behind.
THEOREM AssertionsAreKept == Spec => []AssertionsHold
<1>1. (\E d : Inv(d)) => AssertionsHold
  BY AssertionsFollow
<1> QED BY <1>1, Always, PTL

-----------------------------------------------------------------------------
(* What a chain of blocks holds.                                           *)

\* d decreases along succ, from every block to the last one.
Leads(d, n, last, succ) ==
  /\ n \in Nat /\ d \in [1 .. n -> Nat]
  /\ \A b \in 1 .. n : b # last => succ[b] \in 1 .. n /\ d[succ[b]] < d[b]

\* The equation of Joined.
Join(f, b, last, succ, part) ==
  IF b = last THEN part[b] ELSE part[b] \o f[succ[b]]

\* f satisfies it on the blocks less than k from the last one.
JoinsUpTo(f, n, last, succ, part, d, k) ==
  \A b \in 1 .. n : d[b] < k => f[b] = Join(f, b, last, succ, part)

\* There is such a function for every k.
LEMMA JoinsExist ==
  ASSUME NEW n, NEW last, NEW succ, NEW part, NEW d, Leads(d, n, last, succ),
         NEW k \in Nat
  PROVE  \E f : JoinsUpTo(f, n, last, succ, part, d, k)
<1> DEFINE Good(i) == \E f : JoinsUpTo(f, n, last, succ, part, d, i)
           Bad == {i \in Nat : ~Good(i)}
<1> SUFFICES ASSUME Bad # {} PROVE FALSE
  BY Zenon
<1>1. PICK i \in Bad : \A m \in Bad : i <= m
  BY LeastNat
<1>2. i # 0
  BY DEF Leads, JoinsUpTo
<1>3. i - 1 \in Nat /\ Good(i - 1)
  BY <1>1, <1>2
<1>4. PICK f : JoinsUpTo(f, n, last, succ, part, d, i - 1)
  BY <1>3
<1>5. PICK g : g = [b \in 1 .. n |-> Join(f, b, last, succ, part)]
  OBVIOUS
<1>6. ASSUME NEW b \in 1 .. n, d[b] < i PROVE g[b] = Join(g, b, last, succ, part)
  <2>1. CASE b = last
    BY <2>1, <1>5 DEF Join
  <2>2. CASE b # last
    <3>1. succ[b] \in 1 .. n /\ d[succ[b]] < i - 1
      <4>1. d[b] \in Nat /\ succ[b] \in 1 .. n /\ d[succ[b]] < d[b]
        BY <2>2 DEF Leads
      <4>2. d[succ[b]] \in Nat
        BY <4>1 DEF Leads
      <4> QED BY <4>1, <4>2, <1>3, <1>6
    <3>2. g[succ[b]] = f[succ[b]]
      BY <3>1, <1>4, <1>5 DEF JoinsUpTo
    <3> QED BY <2>2, <3>2, <1>5 DEF Join
  <2> QED BY <2>1, <2>2
<1> QED BY <1>1, <1>6 DEF JoinsUpTo

\* Two such functions agree as far as both go.
LEMMA JoinsAgree ==
  ASSUME NEW n, NEW last, NEW succ, NEW part, NEW d, Leads(d, n, last, succ),
         NEW k \in Nat, NEW l \in Nat, k <= l, NEW f, NEW g,
         JoinsUpTo(f, n, last, succ, part, d, k),
         JoinsUpTo(g, n, last, succ, part, d, l)
  PROVE  \A b \in 1 .. n : d[b] < k => f[b] = g[b]
<1> DEFINE Bad == {i \in Nat : \E b \in 1 .. n : d[b] = i /\ i < k /\ f[b] # g[b]}
<1> SUFFICES ASSUME NEW b \in 1 .. n, d[b] < k, f[b] # g[b] PROVE FALSE
  OBVIOUS
<1>1. d[b] \in Bad
  BY DEF Leads
<1>2. PICK i \in Bad : \A m \in Bad : i <= m
  BY <1>1, LeastNat
<1>3. PICK c \in 1 .. n : d[c] = i /\ i < k /\ f[c] # g[c]
  BY <1>2
<1>4. f[c] = Join(f, c, last, succ, part) /\ g[c] = Join(g, c, last, succ, part)
  <2>1. d[c] < l
    BY <1>2, <1>3
  <2> QED BY <1>3, <2>1 DEF JoinsUpTo
<1>5. c # last
  BY <1>3, <1>4 DEF Join
<1>6. succ[c] \in 1 .. n /\ d[succ[c]] \in Nat /\ d[succ[c]] < i
  BY <1>3, <1>5 DEF Leads
<1>7. f[succ[c]] = g[succ[c]]
  BY <1>2, <1>3, <1>6
<1> QED BY <1>3, <1>4, <1>7 DEF Join

\* So Joined is the one that satisfies it everywhere.
LEMMA JoinedDef ==
  ASSUME NEW n, NEW last, NEW succ, NEW part, NEW d, Leads(d, n, last, succ)
  PROVE  \A b \in 1 .. n :
           Joined(n, last, succ, part)[b] =
             Join(Joined(n, last, succ, part), b, last, succ, part)
<1> DEFINE Is(f) == f = [b \in 1 .. n |-> IF b = last THEN part[b]
                                          ELSE part[b] \o f[succ[b]]]
<1>1. PICK p : \A k \in Nat : JoinsUpTo(p[k], n, last, succ, part, d, k)
  <2>1. PICK p : p = [k \in Nat |->
                        CHOOSE f : JoinsUpTo(f, n, last, succ, part, d, k)]
    OBVIOUS
  <2>2. ASSUME NEW k \in Nat PROVE JoinsUpTo(p[k], n, last, succ, part, d, k)
    <3>1. \E f : JoinsUpTo(f, n, last, succ, part, d, k)
      BY JoinsExist
    <3> QED BY <2>1, <3>1
  <2> QED BY <2>2
<1>2. PICK f : f = [b \in 1 .. n |-> p[d[b] + 1][b]]
  OBVIOUS
<1>3. ASSUME NEW b \in 1 .. n PROVE f[b] = Join(f, b, last, succ, part)
  <2>0. d[b] \in Nat /\ d[b] + 1 \in Nat /\ d[b] < d[b] + 1
    BY DEF Leads
  <2>1. f[b] = p[d[b] + 1][b] /\ f[b] = Join(p[d[b] + 1], b, last, succ, part)
    BY <2>0, <1>1, <1>2 DEF JoinsUpTo
  <2>2. CASE b = last
    BY <2>1, <2>2 DEF Join
  <2>3. CASE b # last
    <3>1. PICK c \in 1 .. n : c = succ[b] /\ d[c] \in Nat /\ d[c] < d[b]
      BY <2>3 DEF Leads
    <3>2. PICK k, l : k = d[c] + 1 /\ l = d[b] + 1
      OBVIOUS
    <3>3. k \in Nat /\ l \in Nat /\ k <= l /\ d[c] < k
      BY <2>0, <3>1, <3>2
    <3>4. /\ JoinsUpTo(p[k], n, last, succ, part, d, k)
          /\ JoinsUpTo(p[l], n, last, succ, part, d, l)
      BY <3>3, <1>1
    <3>5. p[k][c] = p[l][c]
      BY <3>3, <3>4, JoinsAgree
    <3>6. f[c] = p[d[b] + 1][c]
      BY <3>2, <3>5, <1>2
    <3> QED BY <2>1, <2>3, <3>1, <3>6 DEF Join
  <2> QED BY <2>2, <2>3
<1>4. Is(f)
  <2>1. f = [b \in 1 .. n |-> f[b]]
    BY <1>2
  <2>2. f = [b \in 1 .. n |-> Join(f, b, last, succ, part)]
    BY <2>1, <1>3, Zenon
  <2> QED BY <2>2 DEF Join
<1>5. Joined(n, last, succ, part) = CHOOSE g : Is(g)
  BY DEF Joined
<1>6. Is(Joined(n, last, succ, part))
  BY <1>4, <1>5, Zenon
<1>7. SUFFICES ASSUME NEW b \in 1 .. n
               PROVE  Joined(n, last, succ, part)[b] =
                        Join(Joined(n, last, succ, part), b, last, succ, part)
  OBVIOUS
<1> QED BY <1>6, Zenon DEF Join

\* i + 1 rows of m are m more than i rows ...
LEMMA Rows ==
  ASSUME NEW i \in Nat, NEW m \in Nat
  PROVE  /\ i * m \in Nat /\ (i + 1) * m \in Nat
         /\ (i + 1) * m = i * m + m /\ m <= (i + 1) * m
<1>1. i * m \in Nat
  OBVIOUS
<1>2. (i + 1) * m = i * m + m
  OBVIOUS
<1> QED BY <1>1, <1>2

\* ... and no more than any greater number of rows.
LEMMA MoreRows ==
  ASSUME NEW i \in Nat, NEW j \in Nat, NEW m \in Nat, i < j
  PROVE  (i + 1) * m <= j * m
<1>1. PICK k \in Nat : j = (i + 1) + k
  <2>1. j - (i + 1) \in Nat /\ j = (i + 1) + (j - (i + 1))
    OBVIOUS
  <2> QED BY <2>1
<1>2. j * m = (i + 1) * m + k * m
  BY <1>1
<1>3. k * m \in Nat /\ (i + 1) * m \in Nat
  OBVIOUS
<1> QED BY <1>2, <1>3

\* What is joined are sequences of the same elements, with at most m from each
\* block.
LEMMA JoinedSeq ==
  ASSUME NEW n, NEW last, NEW succ, NEW part, NEW d, Leads(d, n, last, succ),
         NEW m \in Nat,
         \A b \in 1 .. n : part[b] \in Seq(Item) /\ Len(part[b]) <= m
  PROVE  \A b \in 1 .. n : /\ Joined(n, last, succ, part)[b] \in Seq(Item)
                           /\ Len(Joined(n, last, succ, part)[b]) <= (d[b] + 1) * m
<1> PICK f : f = Joined(n, last, succ, part)
  OBVIOUS
<1> DEFINE Good(b) == f[b] \in Seq(Item) /\ Len(f[b]) <= (d[b] + 1) * m
           Bad == {i \in Nat : \E b \in 1 .. n : d[b] = i /\ ~Good(b)}
<1> SUFFICES ASSUME NEW b \in 1 .. n, ~Good(b) PROVE FALSE
  OBVIOUS
<1>1. d[b] \in Bad
  BY DEF Leads
<1>2. PICK i \in Bad : \A j \in Bad : i <= j
  BY <1>1, LeastNat
<1>3. PICK c \in 1 .. n : d[c] = i /\ ~Good(c)
  BY <1>2
<1>4. f[c] = Join(f, c, last, succ, part)
  BY JoinedDef
<1>5. i \in Nat /\ part[c] \in Seq(Item) /\ Len(part[c]) <= m /\ Len(part[c]) \in Nat
  BY <1>2
<1>6. PICK u, v : u = (i + 1) * m /\ v = i * m
  OBVIOUS
<1>7. u \in Nat /\ v \in Nat /\ u = v + m /\ m <= u
  BY <1>5, <1>6, Rows
<1> HIDE DEF Good, Bad
<1>8. CASE c = last
  <2>1. f[c] = part[c]
    BY <1>4, <1>8 DEF Join
  <2>2. f[c] \in Seq(Item) /\ Len(f[c]) <= u
    BY <2>1, <1>5, <1>7
  <2> QED BY <2>2, <1>3, <1>6 DEF Good
<1>9. CASE c # last
  <2>1. PICK s \in 1 .. n : s = succ[c] /\ d[s] \in Nat /\ d[s] < i
    BY <1>3, <1>9 DEF Leads
  <2>2. f[s] \in Seq(Item) /\ Len(f[s]) <= (d[s] + 1) * m /\ Len(f[s]) \in Nat
    BY <2>1, <1>2, SMTT(30) DEF Good, Bad
  <2>3. f[c] = part[c] \o f[s]
    BY <1>4, <1>9, <2>1 DEF Join
  <2>4. f[c] \in Seq(Item) /\ Len(f[c]) = Len(part[c]) + Len(f[s])
    BY <2>2, <2>3, <1>5
  <2>5. Len(f[s]) <= v /\ Len(f[s]) \in Nat
    <3>1. (d[s] + 1) * m <= i * m /\ (d[s] + 1) * m \in Nat
      BY <2>1, <1>5, MoreRows, Rows
    <3> QED BY <2>2, <3>1, <1>6, <1>7
  <2>6. Len(f[c]) <= u
    <3>1. PICK x, y : x = Len(part[c]) /\ y = Len(f[s])
      OBVIOUS
    <3>2. x \in Nat /\ y \in Nat /\ x <= m /\ y <= v
      BY <3>1, <2>5, <1>5
    <3>3. x + y <= u
      BY <3>2, <1>7
    <3> QED BY <3>1, <3>3, <2>4
  <2> QED BY <2>4, <2>6, <1>3, <1>6 DEF Good
<1> QED BY <1>3, <1>8, <1>9

\* They need no bound for that.
LEMMA JoinedIn ==
  ASSUME NEW n, NEW last, NEW succ, NEW part, NEW d, Leads(d, n, last, succ),
         \A b \in 1 .. n : part[b] \in Seq(Item)
  PROVE  \A b \in 1 .. n : Joined(n, last, succ, part)[b] \in Seq(Item)
<1> PICK f : f = Joined(n, last, succ, part)
  OBVIOUS
<1> DEFINE Bad == {i \in Nat : \E b \in 1 .. n : d[b] = i /\ f[b] \notin Seq(Item)}
<1> SUFFICES ASSUME NEW b \in 1 .. n, f[b] \notin Seq(Item) PROVE FALSE
  OBVIOUS
<1>1. d[b] \in Bad
  BY DEF Leads
<1>2. PICK i \in Bad : \A j \in Bad : i <= j
  <2>1. Bad \in SUBSET Nat /\ Bad # {}
    BY <1>1
  <2> HIDE DEF Bad
  <2> QED BY <2>1, LeastNat
<1>3. PICK c \in 1 .. n : d[c] = i /\ f[c] \notin Seq(Item)
  BY <1>2
<1>4. f[c] = Join(f, c, last, succ, part)
  BY JoinedDef
<1>5. c # last
  BY <1>3, <1>4 DEF Join
<1>6. PICK s \in 1 .. n : s = succ[c] /\ d[s] \in Nat /\ d[s] < i
  BY <1>3, <1>5 DEF Leads
<1>7. f[s] \in Seq(Item)
  BY <1>2, <1>6
<1>8. part[c] \o f[s] \in Seq(Item)
  BY <1>7, ConcatProperties
<1> QED BY <1>3, <1>4, <1>5, <1>6, <1>8 DEF Join

-----------------------------------------------------------------------------
(* What one block holds.                                                   *)

\* n elements of a ring of m + 1 slots with these data, from slot f on.
Slice(m, f, n, slots) == [k \in 1 .. n |-> slots[Wrap(m, f + k - 1)]]

\* They are a sequence of n of what is in the slots.
LEMMA SliceSeq ==
  ASSUME NEW m \in Nat, NEW f \in 0 .. m, NEW n \in 0 .. m,
         NEW slots \in [0 .. m -> Item]
  PROVE  Slice(m, f, n, slots) \in Seq(Item) /\ Len(Slice(m, f, n, slots)) = n
<1>1. ASSUME NEW k \in 1 .. n PROVE slots[Wrap(m, f + k - 1)] \in Item
  <2>1. Wrap(m, f + k - 1) \in 0 .. m
    BY DEF Wrap
  <2> QED BY <2>1
<1>2. Slice(m, f, n, slots) \in [1 .. n -> Item]
  BY <1>1 DEF Slice
<1> QED BY <1>2

\* They depend on the slots they are in only.
LEMMA SliceSame ==
  ASSUME NEW m \in Nat, NEW f \in 0 .. m, NEW n \in 0 .. m,
         NEW slots, NEW others,
         \A i \in 0 .. m : Dist(m, f, i) < n => others[i] = slots[i]
  PROVE  Slice(m, f, n, others) = Slice(m, f, n, slots)
<1>1. ASSUME NEW k \in 1 .. n
      PROVE  others[Wrap(m, f + k - 1)] = slots[Wrap(m, f + k - 1)]
  <2>1. Wrap(m, f + k - 1) \in 0 .. m /\ Dist(m, f, Wrap(m, f + k - 1)) = k - 1
    BY DEF Wrap, Dist
  <2> QED BY <2>1
<1> QED BY <1>1 DEF Slice

\* One more is appended.
LEMMA SlicePut ==
  ASSUME NEW m \in Nat, NEW f \in 0 .. m, NEW n \in 0 .. m, n < m,
         NEW t \in 0 .. m, Dist(m, f, t) = n, NEW slots \in [0 .. m -> Item]
  PROVE  Slice(m, f, n + 1, slots) = Slice(m, f, n, slots) \o <<slots[t]>>
<1> DEFINE s == Slice(m, f, n, slots)
           r == Slice(m, f, n + 1, slots)
<1>1. s \in Seq(Item) /\ Len(s) = n /\ r \in Seq(Item) /\ Len(r) = n + 1
  <2>1. s \in Seq(Item) /\ Len(s) = n
    BY SliceSeq
  <2>2. PICK l \in 0 .. m : l = n + 1
    OBVIOUS
  <2>3. Slice(m, f, l, slots) \in Seq(Item) /\ Len(Slice(m, f, l, slots)) = l
    BY SliceSeq
  <2> QED BY <2>1, <2>2, <2>3
<1>2. <<slots[t]>> \in Seq(Item) /\ Len(<<slots[t]>>) = 1
  OBVIOUS
<1>3. t = Wrap(m, f + (n + 1) - 1)
  BY DEF Wrap, Dist
<1>4. ASSUME NEW k \in 1 .. n + 1 PROVE r[k] = (s \o <<slots[t]>>)[k]
  <2>1. CASE k = n + 1
    <3>1. (s \o <<slots[t]>>)[k] = slots[t]
      BY <1>1, <1>2, <2>1, SMTT(30)
    <3> QED BY <1>3, <2>1, <3>1 DEF Slice
  <2>2. CASE k # n + 1
    <3>1. k \in 1 .. n
      BY <2>2
    <3>2. (s \o <<slots[t]>>)[k] = s[k]
      BY <1>1, <1>2, <3>1
    <3> QED BY <3>1, <3>2 DEF Slice
  <2> QED BY <2>1, <2>2
<1>5. s \o <<slots[t]>> \in Seq(Item) /\ Len(s \o <<slots[t]>>) = n + 1
  BY <1>1, <1>2, ConcatProperties
<1>6. r = s \o <<slots[t]>>
  <2> HIDE DEF s, r
  <2> QED BY <1>1, <1>4, <1>5, SeqEqual
<1> QED BY <1>6

\* The first is taken.
LEMMA SliceTake ==
  ASSUME NEW m \in Nat, NEW f \in 0 .. m, NEW n \in 1 .. m,
         NEW slots \in [0 .. m -> Item]
  PROVE  /\ Slice(m, f, n, slots) # <<>>
         /\ Head(Slice(m, f, n, slots)) = slots[f]
         /\ Tail(Slice(m, f, n, slots)) = Slice(m, After(m, f), n - 1, slots)
<1> DEFINE s == Slice(m, f, n, slots)
           r == Slice(m, After(m, f), n - 1, slots)
<1>1. s \in Seq(Item) /\ Len(s) = n /\ r \in Seq(Item) /\ Len(r) = n - 1
  <2>1. After(m, f) \in 0 .. m /\ n - 1 \in 0 .. m /\ n \in 0 .. m
    BY RingAfter, SMTT(30)
  <2>2. s \in Seq(Item) /\ Len(s) = n
    BY <2>1, SliceSeq
  <2>3. PICK g, l : g = After(m, f) /\ l = n - 1
    OBVIOUS
  <2>4. Slice(m, g, l, slots) \in Seq(Item) /\ Len(Slice(m, g, l, slots)) = l
    BY <2>1, <2>3, SliceSeq
  <2> QED BY <2>2, <2>3, <2>4
<1>2. s # <<>> /\ Head(s) = s[1] /\ s[1] = slots[f]
  <2>1. s # <<>> /\ Head(s) = s[1]
    BY <1>1
  <2> QED BY <2>1 DEF Slice, Wrap
<1>3. Tail(s) \in Seq(Item) /\ Len(Tail(s)) = n - 1
  BY <1>1, <1>2, HeadTailProperties
<1>4. ASSUME NEW k \in 1 .. n - 1 PROVE Tail(s)[k] = r[k]
  <2>1. Tail(s)[k] = s[k + 1]
    BY <1>1, <1>2, <1>3, HeadTailProperties
  <2>2. Wrap(m, f + (k + 1) - 1) = Wrap(m, After(m, f) + k - 1)
    BY DEF Wrap, After
  <2> QED BY <2>1, <2>2 DEF Slice
<1>5. Tail(s) = r
  <2> HIDE DEF s, r
  <2> QED BY <1>1, <1>3, <1>4, SeqEqual
<1> QED BY <1>2, <1>5

\* Taking the first of two sequences one after the other.
LEMMA TailOfBoth ==
  ASSUME NEW s \in Seq(Item), NEW r \in Seq(Item), s # <<>>
  PROVE  /\ s \o r # <<>> /\ Head(s \o r) = Head(s)
         /\ Tail(s \o r) = Tail(s) \o r
<1>1. s \o r \in Seq(Item) /\ Len(s \o r) = Len(s) + Len(r) /\ Len(s) > 0
      /\ Len(s) \in Nat /\ Len(r) \in Nat
  OBVIOUS
<1>2. s \o r # <<>> /\ Head(s \o r) = Head(s)
  <2>1. s \o r # <<>>
    BY <1>1
  <2>2. (s \o r)[1] = s[1]
    BY <1>1, ConcatProperties
  <2> QED BY <2>1, <2>2, <1>1
<1>3. /\ Tail(s \o r) \in Seq(Item) /\ Len(Tail(s \o r)) = Len(s) + Len(r) - 1
      /\ \A i \in 1 .. Len(Tail(s \o r)) : Tail(s \o r)[i] = (s \o r)[i + 1]
  BY <1>1, <1>2, HeadTailProperties
<1>4. /\ Tail(s) \in Seq(Item) /\ Len(Tail(s)) = Len(s) - 1
      /\ \A i \in 1 .. Len(Tail(s)) : Tail(s)[i] = s[i + 1]
  BY HeadTailProperties
<1>5. /\ Tail(s) \o r \in Seq(Item) /\ Len(Tail(s) \o r) = Len(s) - 1 + Len(r)
  BY <1>4, ConcatProperties
<1>6. ASSUME NEW i \in 1 .. Len(s) + Len(r) - 1
      PROVE  Tail(s \o r)[i] = (Tail(s) \o r)[i]
  <2>1. Tail(s \o r)[i] = IF i + 1 <= Len(s) THEN s[i + 1] ELSE r[i + 1 - Len(s)]
    BY <1>1, <1>3, ConcatProperties
  <2>2. (Tail(s) \o r)[i] = IF i <= Len(s) - 1 THEN Tail(s)[i]
                                               ELSE r[i - (Len(s) - 1)]
    BY <1>1, <1>4, ConcatProperties
  <2> QED BY <2>1, <2>2, <1>1, <1>4
<1>7. Tail(s \o r) = Tail(s) \o r
  BY <1>1, <1>3, <1>5, <1>6, SeqEqual
<1> QED BY <1>2, <1>7

-----------------------------------------------------------------------------
(* The queue's elements.                                                   *)

\* What each block holds, and what the blocks hold from each on.
Parts == [b \in 1 .. blocks |-> Content(b)]
Chain == Joined(blocks, tailBlock, next, Parts)

\* All the blocks hold from the front block on: the element being moved out is
\* still the first of it.
All == Chain[frontBlock]

\* The circle leads from every block to the tail block.
LEMMA ChainLeads ==
  ASSUME NEW d, Inv(d) PROVE Leads(d, blocks, tailBlock, next)
<1>1. ASSUME NEW b \in 1 .. blocks, b # tailBlock
      PROVE  next[b] \in 1 .. blocks /\ d[next[b]] < d[b]
  <2>1. next[b] \in 1 .. blocks /\ d[b] \in 0 .. blocks - 1
    BY Known
  <2>2. d[next[b]] = d[b] - 1
    BY <1>1 DEF Inv, CircleInv
  <2> QED BY <2>1, <2>2
<1>2. d \in [1 .. blocks -> Nat] /\ blocks \in Nat
  <2>1. d \in [1 .. blocks -> 0 .. blocks - 1] /\ blocks \in Nat
    BY Known DEF Inv, CircleInv
  <2> QED BY <2>1
<1> QED BY <1>1, <1>2 DEF Leads

\* So does the circle after a step.
LEMMA ChainLeadsOn ==
  ASSUME NEW e, Inv(e)' PROVE Leads(e, blocks', tailBlock', next')
<1>1. /\ blocks' \in Nat
      /\ e \in [1 .. blocks' -> 0 .. blocks' - 1]
      /\ \A b \in 1 .. blocks' : next'[b] \in 1 .. blocks'
      /\ \A b \in 1 .. blocks' : b # tailBlock' => e[next'[b]] = e[b] - 1
  BY DEF Inv, TypeInv, CircleInv
<1>2. ASSUME NEW b \in 1 .. blocks', b # tailBlock'
      PROVE  next'[b] \in 1 .. blocks' /\ e[next'[b]] < e[b]
  <2>1. e[b] \in Nat /\ next'[b] \in 1 .. blocks' /\ e[next'[b]] = e[b] - 1
    BY <1>1, <1>2
  <2> QED BY <2>1
<1> QED BY <1>1, <1>2 DEF Leads

\* What a block holds is the slice of it between front and tail.
LEMMA ContentIsSlice ==
  ASSUME NEW d, Inv(d), NEW b \in Blocks
  PROVE  /\ Content(b) = Slice(sizeMask[b], front[b], Count(b), data[b])
         /\ Content(b) \in Seq(Item) /\ Len(Content(b)) = Count(b)
         /\ data[b] \in [0 .. sizeMask[b] -> Item]
<1>1. Content(b) = Slice(sizeMask[b], front[b], Count(b), data[b])
  BY DEF Content, Slice
<1>2. /\ sizeMask[b] \in Nat /\ front[b] \in 0 .. sizeMask[b]
      /\ Count(b) \in 0 .. sizeMask[b]
  BY Known
<1>3. data[b] \in [0 .. sizeMask[b] -> Item]
  BY DEF Inv, SlotInv
<1>4. PICK m, f, n, s : /\ m = sizeMask[b] /\ f = front[b] /\ n = Count(b)
                        /\ s = data[b]
  OBVIOUS
<1>5. Slice(m, f, n, s) \in Seq(Item) /\ Len(Slice(m, f, n, s)) = n
  BY <1>2, <1>3, <1>4, SliceSeq
<1> QED BY <1>1, <1>3, <1>4, <1>5

\* Each block's part is what it holds, and the chain joins them.
LEMMA ChainDef ==
  ASSUME NEW d, Inv(d)
  PROVE  /\ \A b \in 1 .. blocks : /\ Parts[b] = Content(b)
                                   /\ Parts[b] \in Seq(Item)
                                   /\ Chain[b] \in Seq(Item)
                                   /\ Chain[b] = IF b = tailBlock THEN Content(b)
                                                 ELSE Content(b) \o Chain[next[b]]
         /\ All \in Seq(Item) /\ ContentFrom(frontBlock) = All
<1>1. \A b \in 1 .. blocks : Parts[b] = Content(b) /\ Parts[b] \in Seq(Item)
  BY Known, ContentIsSlice DEF Parts
<1>2. Leads(d, blocks, tailBlock, next)
  BY ChainLeads
<1>3. \A b \in 1 .. blocks : Chain[b] \in Seq(Item)
  BY <1>1, <1>2, JoinedIn DEF Chain
<1>4. \A b \in 1 .. blocks : Chain[b] = Join(Chain, b, tailBlock, next, Parts)
  BY <1>2, JoinedDef DEF Chain
<1>5. frontBlock \in 1 .. blocks
  BY Known
<1> QED BY <1>1, <1>3, <1>4, <1>5 DEF Join, All, ContentFrom, Chain, Parts

\* Joining three sequences, it does not matter which two are joined first.
LEMMA ConcatThree ==
  ASSUME NEW p \in Seq(Item), NEW q \in Seq(Item), NEW r \in Seq(Item)
  PROVE  (p \o q) \o r = p \o (q \o r)
<1>1. /\ p \o (q \o r) \in Seq(Item) /\ (p \o q) \o r \in Seq(Item)
      /\ p \o q \in Seq(Item) /\ q \o r \in Seq(Item)
  BY ConcatProperties
<1>2. Len(p \o (q \o r)) = Len((p \o q) \o r)
  BY <1>1
<1>3. ASSUME NEW i \in 1 .. Len(p \o (q \o r))
      PROVE  (p \o (q \o r))[i] = ((p \o q) \o r)[i]
  OBVIOUS
<1> QED BY <1>1, <1>2, <1>3, SeqEqual

\* A step after which the tail block is followed by x more, and that leaves
\* the blocks up to distance k before it as they are ...
Grows(d, x, k) ==
  /\ x \in Seq(Item) /\ k \in Int
  /\ \A b \in 1 .. blocks : d[b] <= k => b \in 1 .. blocks'
  /\ Chain'[tailBlock] = Chain[tailBlock] \o x
  /\ \A b \in 1 .. blocks : d[b] <= k /\ b # tailBlock =>
       b # tailBlock' /\ next'[b] = next[b] /\ Parts'[b] = Parts[b]

\* ... leaves what those blocks hold but that it appends x.
LEMMA ChainGrows ==
  ASSUME NEW d, Inv(d), NEW e, Inv(e)', NEW x, NEW k, Grows(d, x, k)
  PROVE  \A b \in 1 .. blocks : d[b] <= k => Chain'[b] = Chain[b] \o x
<1> PICK f, g : f = Chain /\ g = Chain'
  OBVIOUS
<1> DEFINE Bad == {i \in Nat : \E b \in 1 .. blocks :
                     d[b] = i /\ i <= k /\ g[b] # f[b] \o x}
<1> SUFFICES ASSUME NEW b \in 1 .. blocks, d[b] <= k, g[b] # f[b] \o x
             PROVE  FALSE
  OBVIOUS
<1>1. d[b] \in Bad
  BY Known
<1>2. PICK i \in Bad : \A j \in Bad : i <= j
  BY <1>1, LeastNat
<1>0. /\ x \in Seq(Item) /\ k \in Int
      /\ \A c \in 1 .. blocks : d[c] <= k => c \in 1 .. blocks'
      /\ Chain'[tailBlock] = Chain[tailBlock] \o x
      /\ \A c \in 1 .. blocks : d[c] <= k /\ c # tailBlock =>
           c # tailBlock' /\ next'[c] = next[c] /\ Parts'[c] = Parts[c]
  BY DEF Grows
<1>3. PICK c \in 1 .. blocks : d[c] = i /\ i <= k /\ g[c] # f[c] \o x
  BY <1>2
<1>4. c # tailBlock
  BY <1>0, <1>3
<1>5. PICK s \in 1 .. blocks : s = next[c] /\ d[s] \in Nat /\ d[s] < i
  BY <1>3, <1>4, ChainLeads DEF Leads
<1>6. d[s] <= k
  BY <1>0, <1>2, <1>3, <1>5
<1>7. g[s] = f[s] \o x
  <2>1. d[s] \notin Bad
    <3>1. i \in Nat /\ \A j \in Bad : i <= j
      BY <1>2
    <3> HIDE DEF Bad
    <3> QED BY <3>1, <1>5
  <2> QED BY <2>1, <1>5, <1>6
<1>8. f[c] = Content(c) \o f[s] /\ f[s] \in Seq(Item) /\ Content(c) \in Seq(Item)
      /\ Parts[c] = Content(c)
  BY <1>4, <1>5, ChainDef
<1>9. g[c] = Content(c) \o g[s]
  <2>1. /\ c \in 1 .. blocks' /\ c # tailBlock' /\ next'[c] = next[c]
        /\ Parts'[c] = Parts[c]
    BY <1>0, <1>3, <1>4
  <2>2. g[c] = Join(g, c, tailBlock', next', Parts')
    BY <2>1, ChainLeadsOn, JoinedDef DEF Chain
  <2> QED BY <2>1, <2>2, <1>5, <1>8 DEF Join
<1>10. (Content(c) \o f[s]) \o x = Content(c) \o (f[s] \o x)
  BY <1>0, <1>8, ConcatThree
<1> QED BY <1>3, <1>7, <1>8, <1>9, <1>10

\* The limit of malloc bounds the elements: one slot of every block is unused.
LEMMA AllFit == ASSUME NEW d, Inv(d) PROVE Len(All) < MaxSlots
<1>1. PICK m, n, k : m = largestBlockSize - 1 /\ n = blocks /\ k = d[frontBlock]
  OBVIOUS
<1>2. /\ m \in Nat /\ n \in Nat \ {0} /\ k \in 0 .. n - 1
      /\ largestBlockSize = m + 1 /\ frontBlock \in 1 .. n
  BY <1>1, Known, Sized DEF Inv
<1>3. \A b \in 1 .. n : Parts[b] \in Seq(Item) /\ Len(Parts[b]) <= m
  <2> SUFFICES ASSUME NEW b \in 1 .. n
               PROVE  Parts[b] \in Seq(Item) /\ Len(Parts[b]) <= m
    OBVIOUS
  <2>1. b \in Blocks /\ Count(b) \in 0 .. sizeMask[b] /\ sizeMask[b] \in Nat
    BY <1>1, Known
  <2>2. sizeMask[b] <= m
    BY <1>1, <1>2, <2>1 DEF Inv, TypeInv
  <2>3. Parts[b] = Content(b)
    BY <1>1 DEF Parts
  <2> QED BY <2>1, <2>2, <2>3, ContentIsSlice, <1>2
<1>4. Len(All) <= (k + 1) * m
  BY <1>1, <1>2, <1>3, ChainLeads, JoinedSeq DEF All, Chain
<1>5. (k + 1) * m <= n * m /\ (k + 1) * m \in Nat /\ n * m \in Nat
  BY <1>2, MoreRows, Rows
<1>6. n * (m + 1) = n * m + n
  BY <1>2
<1>7. n * (m + 1) <= MaxSlots
  <2>1. n * (m + 1) <= shape.limit
    BY <1>1, <1>2 DEF Inv, TypeInv
  <2>2. shape.limit \in Nat /\ shape.limit <= MaxSlots /\ MaxSlots \in Nat
    BY ShapeFacts DEF Inv, TypeInv
  <2> QED BY <2>1, <2>2, <1>5, <1>6, <1>2
<1>8. Len(All) \in Nat
  BY ChainDef
<1>9. MaxSlots \in Nat
  BY QueueConstants
<1> QED BY <1>2, <1>4, <1>5, <1>6, <1>7, <1>8, <1>9

-----------------------------------------------------------------------------
(* What a step does to the elements.                                       *)

\* A step that leaves what every block holds, and the way through them, leaves
\* all.
LEMMA AllStays ==
  ASSUME UNCHANGED <<blocks, next, tailBlock, frontBlock>>,
         \A b \in 1 .. blocks : Content(b)' = Content(b)
  PROVE  All' = All
<1>1. Parts' = Parts
  BY DEF Parts
<1> QED BY <1>1 DEF All, Chain

\* Most steps do not touch what the blocks hold at all.
LEMMA QuietKeepsAll ==
  ASSUME UNCHANGED <<blocks, sizeMask, next, front, tail, data, tailBlock,
                     frontBlock>>
  PROVE  All' = All
BY AllStays DEF Content, Count

\* An element constructed beyond tail is not seen yet.
LEMMA ConstructKeepsAll ==
  ASSUME NEW d, Inv(d), NEW t \in Blocks,
         UNCHANGED <<blocks, sizeMask, next, front, tail, tailBlock, frontBlock>>,
         ConstructIn(t, tail[t])
  PROVE  All' = All
<1>1. ASSUME NEW b \in 1 .. blocks PROVE Content(b)' = Content(b)
  <2>1. /\ b \in Blocks /\ sizeMask[b] \in Nat /\ front[b] \in 0 .. sizeMask[b]
        /\ Count(b) \in 0 .. sizeMask[b]
    BY Known
  <2>2. DOMAIN data = Blocks
    BY DEF Inv, SlotInv
  <2>3. ASSUME NEW i \in 0 .. sizeMask[b], Dist(sizeMask[b], front[b], i) < Count(b)
        PROVE  data'[b][i] = data[b][i]
    <3>1. ~(b = t /\ i = tail[t])
      BY <2>1, <2>3 DEF Count
    <3>2. data[t] \in [0 .. sizeMask[t] -> Item]
      BY DEF Inv, SlotInv
    <3> QED BY <2>1, <2>2, <3>1, <3>2 DEF ConstructIn
  <2>4. Slice(sizeMask[b], front[b], Count(b), data'[b])
          = Slice(sizeMask[b], front[b], Count(b), data[b])
    <3>1. PICK m, f, n, s, o : /\ m = sizeMask[b] /\ f = front[b] /\ n = Count(b)
                               /\ s = data[b] /\ o = data'[b]
      OBVIOUS
    <3>2. m \in Nat /\ f \in 0 .. m /\ n \in 0 .. m
      BY <2>1, <3>1
    <3>3. \A i \in 0 .. m : Dist(m, f, i) < n => o[i] = s[i]
      BY <2>3, <3>1
    <3>4. Slice(m, f, n, o) = Slice(m, f, n, s)
      BY <3>2, <3>3, SliceSame
    <3> QED BY <3>1, <3>4
  <2>5. Content(b)' = Slice(sizeMask[b], front[b], Count(b), data'[b])
    BY DEF Content, Count, Slice
  <2> QED BY <2>1, <2>4, <2>5, ContentIsSlice
<1> QED BY <1>1, AllStays

\* Publishing appends the element in the tail block's next slot.
LEMMA PublishAppends ==
  ASSUME NEW d, Inv(d), NEW e, Inv(e)', Publish
  PROVE  \E v \in Values : All' = All \o <<v>>
<1> DEFINE t == tailBlock
           v == data[t][tail[t]]
<1>1. /\ t \in 1 .. blocks /\ t \in Blocks /\ sizeMask[t] \in Nat
      /\ front[t] \in 0 .. sizeMask[t] /\ tail[t] \in 0 .. sizeMask[t]
      /\ Count(t) \in 0 .. sizeMask[t] /\ blocks \in Nat
      /\ frontBlock \in 1 .. blocks
  BY Known
<1>2. v \in Values
  <2>1. Occupied(t, tail[t])
    BY DEF Occupied, Publish, PGoes
  <2>2. v # Raw /\ v \in Item
    BY <1>1, <2>1 DEF Inv, SlotInv
  <2> QED BY <2>2 DEF Item
<1>3. /\ \A b \in Blocks : b # t => tail'[b] = tail[b]
      /\ tail'[t] = After(sizeMask[t], tail[t])
      /\ UNCHANGED <<blocks, sizeMask, next, front, data, tailBlock, frontBlock>>
  BY <1>1 DEF Publish, UnchangedByProducer, shapeVars, Inv, TypeInv
<1>4. ASSUME NEW b \in 1 .. blocks, b # t PROVE Parts'[b] = Parts[b]
  BY <1>3, <1>4, Known DEF Parts, Content, Count
<1>5. Parts'[t] = Parts[t] \o <<v>>
  <2>1. After(sizeMask[t], tail[t]) # front[t]
    <3>1. Room(t, localFront[t]) /\ localFront[t] \in 0 .. sizeMask[t]
      BY <1>1, Known DEF Publish, PGoes, Inv, TurnInv
    <3>2. Dist(sizeMask[t], localFront[t], tail[t]) < sizeMask[t]
      BY <1>1, <3>1, RingFar DEF Room
    <3>3. Dist(sizeMask[t], front[t], tail[t]) < sizeMask[t]
      <4>1. Count(t) <= Dist(sizeMask[t], localFront[t], tail[t])
        BY <1>1 DEF Inv, SeenInv
      <4>2. Dist(sizeMask[t], localFront[t], tail[t]) \in 0 .. sizeMask[t]
        BY <1>1, <3>1, RingTypes
      <4> QED BY <1>1, <3>2, <4>1, <4>2 DEF Count
    <3> QED BY <1>1, <3>3, RingFar
  <2>2. Count(t)' = Count(t) + 1 /\ Count(t) < sizeMask[t]
    BY <1>1, <1>3, <2>1, RingFar DEF Count
  <2>3. Content(t)' = Slice(sizeMask[t], front[t], Count(t) + 1, data[t])
    BY <1>3, <2>2 DEF Content, Slice
  <2>4. Slice(sizeMask[t], front[t], Count(t) + 1, data[t])
          = Slice(sizeMask[t], front[t], Count(t), data[t]) \o <<v>>
    <3>1. data[t] \in [0 .. sizeMask[t] -> Item]
      BY <1>1, ContentIsSlice
    <3>2. Dist(sizeMask[t], front[t], tail[t]) = Count(t)
      BY DEF Count
    <3>3. PICK m, f, n, i, s : /\ m = sizeMask[t] /\ f = front[t] /\ n = Count(t)
                               /\ i = tail[t] /\ s = data[t]
      OBVIOUS
    <3>4. /\ m \in Nat /\ f \in 0 .. m /\ n \in 0 .. m /\ n < m /\ i \in 0 .. m
          /\ Dist(m, f, i) = n /\ s \in [0 .. m -> Item]
      BY <1>1, <2>2, <3>1, <3>2, <3>3
    <3>5. Slice(m, f, n + 1, s) = Slice(m, f, n, s) \o <<s[i]>>
      BY <3>4, SlicePut
    <3> QED BY <3>3, <3>5
  <2> QED BY <1>1, <1>3, <2>3, <2>4, ContentIsSlice DEF Parts
<1>6. Leads(d, blocks, t, next)
  BY ChainLeads
<1>7. Chain'[t] = Chain[t] \o <<v>>
  <2>1. Chain'[t] = Parts'[t] /\ Chain[t] = Parts[t]
    BY <1>1, <1>3, <1>6, JoinedDef DEF Chain, Join
  <2> QED BY <2>1, <1>5
<1>8. All' = All \o <<v>>
  <2>1. d[frontBlock] \in Int
    BY Known
  <2>2. <<v>> \in Seq(Item)
    BY <1>2 DEF Item
  <2>4. \A b \in 1 .. blocks : b # t =>
          b # tailBlock' /\ next'[b] = next[b] /\ Parts'[b] = Parts[b]
    BY <1>3, <1>4
  <2>5. Chain'[frontBlock] = Chain[frontBlock] \o <<v>>
    <3>1. \A b \in 1 .. blocks : b \in 1 .. blocks'
      BY <1>3
    <3> HIDE DEF v
    <3>2. Grows(d, <<v>>, d[frontBlock])
      BY <1>7, <2>1, <2>2, <2>4, <3>1 DEF Grows
    <3>3. d[frontBlock] <= d[frontBlock]
      BY <2>1
    <3> QED BY <1>1, <3>2, <3>3, ChainGrows
  <2> QED BY <1>3, <2>5 DEF All
<1> QED BY <1>2, <1>8

\* A step beyond the front block leaves all.
LEMMA AheadKeepsAll ==
  ASSUME NEW d, Inv(d), NEW e, Inv(e)', UNCHANGED <<tailBlock, frontBlock>>,
         \A b \in 1 .. blocks : d[b] <= d[frontBlock] =>
           /\ b \in 1 .. blocks' /\ Parts'[b] = Parts[b]
           /\ b # tailBlock => next'[b] = next[b]
  PROVE  All' = All
<1>1. /\ d[frontBlock] \in Nat /\ d[tailBlock] = 0 /\ d[tailBlock] <= d[frontBlock]
      /\ frontBlock \in 1 .. blocks /\ tailBlock \in 1 .. blocks
  <2>1. frontBlock \in 1 .. blocks /\ tailBlock \in 1 .. blocks
    BY Known
  <2>2. d[frontBlock] \in 0 .. blocks - 1
    BY <2>1, Known
  <2>3. d[tailBlock] = 0
    BY DEF Inv, CircleInv
  <2> QED BY <2>1, <2>2, <2>3
<1>2. /\ Chain'[tailBlock] = Parts'[tailBlock] /\ Chain[tailBlock] = Parts[tailBlock]
      /\ Parts'[tailBlock] = Parts[tailBlock]
  <2>1. tailBlock \in 1 .. blocks' /\ tailBlock' = tailBlock
    BY <1>1
  <2>2. Chain'[tailBlock] = Join(Chain', tailBlock, tailBlock', next', Parts')
    BY <2>1, ChainLeadsOn, JoinedDef DEF Chain
  <2>3. Chain[tailBlock] = Join(Chain, tailBlock, tailBlock, next, Parts)
    BY <1>1, ChainLeads, JoinedDef DEF Chain
  <2> QED BY <1>1, <2>1, <2>2, <2>3 DEF Join
<1>3. /\ <<>> \in Seq(Item) /\ \A b \in 1 .. blocks : Chain[b] \in Seq(Item)
      /\ \A s \in Seq(Item) : s \o <<>> = s
  BY ChainDef
<1>4. Chain'[tailBlock] = Chain[tailBlock] \o <<>>
  BY <1>1, <1>2, <1>3
<1>5. Grows(d, <<>>, d[frontBlock])
  BY <1>1, <1>3, <1>4 DEF Grows
<1>6. Chain'[frontBlock] = Chain[frontBlock] \o <<>>
  <2>1. d[frontBlock] <= d[frontBlock]
    BY <1>1
  <2> QED BY <1>1, <1>5, <2>1, ChainGrows
<1> QED BY <1>1, <1>3, <1>6 DEF All

\* So do publishing in the block ahead ...
LEMMA PublishAheadKeepsAll ==
  ASSUME NEW d, Inv(d), NEW e, Inv(e)', PublishAhead PROVE All' = All
<1>1. PICK t : t = next[tailBlock]
  OBVIOUS
<1>2. t \in Blocks /\ d[t] > d[frontBlock]
  BY <1>1, AheadIsEmpty DEF PublishAhead, PGoes
<1>3. /\ \A b \in Blocks : b # t => tail'[b] = tail[b]
      /\ UNCHANGED <<blocks, sizeMask, next, front, data, tailBlock, frontBlock>>
  BY <1>1, <1>2 DEF PublishAhead, UnchangedByProducer, shapeVars, Inv, TypeInv
<1>4. ASSUME NEW b \in 1 .. blocks, d[b] <= d[frontBlock] PROVE Parts'[b] = Parts[b]
  <2>1. b # t /\ b \in Blocks
    BY <1>2, <1>4, Known
  <2> QED BY <1>3, <2>1 DEF Parts, Content, Count
<1> QED BY <1>3, <1>4, AheadKeepsAll

\* ... making a block ...
LEMMA MakeBlockKeepsAll ==
  ASSUME NEW d, Inv(d), NEW e, Inv(e)', MakeBlock PROVE All' = All
<1>1. blocks' = blocks + 1 /\ blocks \in Nat /\ UNCHANGED <<front, tailBlock, frontBlock>>
  BY Known DEF MakeBlock
<1>2. ASSUME NEW b \in 1 .. blocks
      PROVE  /\ b \in 1 .. blocks' /\ sizeMask'[b] = sizeMask[b]
             /\ data'[b] = data[b] /\ tail'[b] = tail[b] /\ next'[b] = next[b]
  <2>1. b \in Blocks /\ b # blocks + 1 /\ b \in 1 .. blocks'
    BY <1>1, Known
  <2> QED BY <2>1 DEF MakeBlock, Inv, TypeInv, SlotInv
<1>3. \A b \in 1 .. blocks : Parts'[b] = Parts[b]
  BY <1>1, <1>2 DEF Parts, Content, Count
<1> QED BY <1>1, <1>2, <1>3, AheadKeepsAll

\* ... and linking it.
LEMMA LinkKeepsAll ==
  ASSUME NEW d, Inv(d), NEW e, Inv(e)', Link PROVE All' = All
<1>1. /\ UNCHANGED <<blocks, sizeMask, front, tail, data, tailBlock, frontBlock>>
      /\ \A b \in Blocks : b # tailBlock => next'[b] = next[b]
  BY DEF Link, UnchangedByProducer, Inv, TypeInv
<1>2. Parts' = Parts
  BY <1>1 DEF Parts, Content, Count
<1>3. \A b \in 1 .. blocks : b # tailBlock => next'[b] = next[b]
  BY <1>1, Known
<1> QED BY <1>1, <1>2, <1>3, AheadKeepsAll

\* Going on to the block ahead appends the element in it.
LEMMA AdvanceAppends ==
  ASSUME NEW d, Inv(d), NEW e, Inv(e)', Advance
  PROVE  \E v \in Values : All' = All \o <<v>>
<1>1. PICK t : t = next[tailBlock]
  OBVIOUS
<1>2. /\ t \in 1 .. blocks /\ t \in Blocks /\ sizeMask[t] \in Nat /\ sizeMask[t] >= 1
      /\ front[t] \in 0 .. sizeMask[t] /\ tailBlock \in 1 .. blocks
      /\ frontBlock \in 1 .. blocks /\ d[frontBlock] \in Nat
      /\ blocks \in Nat \ {0}
  BY <1>1, Known
<1>3. /\ d[t] = blocks - 1 /\ d[frontBlock] < blocks - 1 /\ d[tailBlock] = 0
      /\ tail[t] = After(sizeMask[t], front[t])
  <2>1. d[t] = blocks - 1 /\ d[frontBlock] < blocks - 1 /\ d[tailBlock] = 0
    BY <1>1 DEF Advance, PGoes, Inv, CircleInv, TurnInv
  <2> QED BY <1>2, <2>1 DEF Advance, PGoes, Inv, PathInv
<1>4. t # tailBlock /\ t # frontBlock
  BY <1>2, <1>3
<1>5. /\ UNCHANGED <<blocks, sizeMask, next, front, tail, data, frontBlock>>
      /\ tailBlock' = t
  BY <1>1 DEF Advance, UnchangedByProducer, shapeVars
<1>6. Parts' = Parts
  BY <1>5 DEF Parts, Content, Count
<1>7. PICK v : v = data[t][front[t]]
  OBVIOUS
<1>8. Count(t) = 1
  <2>1. After(sizeMask[t], front[t]) # front[t]
    BY <1>2 DEF After, Wrap
  <2>2. Dist(sizeMask[t], front[t], front[t]) = 0
    BY <1>2, RingAround
  <2> QED BY <1>2, <1>3, <2>1, <2>2, RingFar DEF Count
<1>9. v \in Values
  <2>1. Dist(sizeMask[t], front[t], front[t]) = 0
    BY <1>2, RingAround
  <2>2. Occupied(t, front[t])
    BY <1>4, <1>8, <2>1 DEF Occupied
  <2>3. v # Raw /\ v \in Item
    BY <1>2, <1>7, <2>2 DEF Inv, SlotInv
  <2> QED BY <2>3 DEF Item
<1>10. Content(t) = <<v>>
  <2>1. Wrap(sizeMask[t], front[t] + 1 - 1) = front[t]
    BY <1>2 DEF Wrap
  <2> QED BY <1>7, <1>8, <2>1 DEF Content
<1>11. Chain'[tailBlock] = Chain[tailBlock] \o <<v>>
  <2>1. Leads(e, blocks, t, next) /\ Leads(d, blocks, tailBlock, next)
    BY <1>5, ChainLeads, ChainLeadsOn
  <2>2. Chain' = Joined(blocks, t, next, Parts)
    BY <1>5, <1>6 DEF Chain
  <2>3. Chain'[tailBlock] = Parts[tailBlock] \o Chain'[t] /\ Chain'[t] = Parts[t]
    <3>1. /\ Chain'[tailBlock] = Join(Chain', tailBlock, t, next, Parts)
          /\ Chain'[t] = Join(Chain', t, t, next, Parts)
      BY <1>2, <2>1, <2>2, JoinedDef
    <3> QED BY <3>1, <1>1, <1>4 DEF Join
  <2>4. Chain[tailBlock] = Parts[tailBlock]
    BY <1>2, <2>1, JoinedDef DEF Join, Chain
  <2>5. Parts[t] = Content(t)
    BY <1>2 DEF Parts
  <2> QED BY <1>10, <2>3, <2>4, <2>5
<1>12. Grows(d, <<v>>, d[frontBlock])
  <2>1. <<v>> \in Seq(Item)
    BY <1>9 DEF Item
  <2>2. \A b \in 1 .. blocks : d[b] <= d[frontBlock] => b # t
    BY <1>2, <1>3
  <2> QED BY <1>2, <1>5, <1>6, <1>11, <2>1, <2>2 DEF Grows
<1>13. Chain'[frontBlock] = Chain[frontBlock] \o <<v>>
  <2>1. d[frontBlock] <= d[frontBlock]
    BY <1>2
  <2> QED BY <1>2, <1>12, <2>1, ChainGrows
<1> QED BY <1>5, <1>9, <1>13 DEF All

\* The front block the consumer leaves is empty.
LEMMA EnterNextKeepsAll ==
  ASSUME NEW d, Inv(d), EnterNext PROVE All' = All
<1>1. /\ UNCHANGED <<blocks, sizeMask, next, front, tail, data, tailBlock>>
      /\ frontBlock' = next[frontBlock]
  BY DEF EnterNext, UnchangedByConsumer, shapeVars
<1>2. Chain' = Chain
  BY <1>1 DEF Chain, Parts, Content, Count
<1>3. frontBlock # tailBlock /\ front[frontBlock] = tail[frontBlock]
  BY DEF EnterNext, CGoes, Inv, TurnInv
<1>4. frontBlock \in 1 .. blocks /\ next[frontBlock] \in 1 .. blocks /\ Count(frontBlock) = 0
  BY <1>3, Known
<1>5. Content(frontBlock) = <<>>
  BY <1>4 DEF Content
<1>6. All = Content(frontBlock) \o Chain[next[frontBlock]]
  BY <1>3, <1>4, ChainDef DEF All
<1>7. Chain[next[frontBlock]] \in Seq(Item)
  BY <1>4, ChainDef
<1> QED BY <1>1, <1>2, <1>5, <1>6, <1>7 DEF All

\* The front block's first element, and what is behind it.
LEMMA FrontOfAll ==
  ASSUME NEW d, Inv(d), front[frontBlock] # tail[frontBlock]
  PROVE  \E r \in Seq(Item) :
           /\ All = Content(frontBlock) \o r
           /\ IF frontBlock = tailBlock THEN r = <<>>
                                        ELSE r = Chain[next[frontBlock]]
           /\ All # <<>> /\ Head(All) = data[frontBlock][front[frontBlock]]
           /\ Tail(All) = Tail(Content(frontBlock)) \o r
           /\ Tail(Content(frontBlock)) =
                Slice(sizeMask[frontBlock],
                      After(sizeMask[frontBlock], front[frontBlock]),
                      Count(frontBlock) - 1, data[frontBlock])
<1> DEFINE h == frontBlock
<1>1. /\ h \in 1 .. blocks /\ h \in Blocks /\ sizeMask[h] \in Nat
      /\ front[h] \in 0 .. sizeMask[h] /\ Count(h) \in 1 .. sizeMask[h]
      /\ next[h] \in 1 .. blocks
  <2>1. h \in 1 .. blocks /\ h \in Blocks
    BY Known
  <2> QED BY <2>1, Known
<1>2. PICK r \in Seq(Item) :
        /\ All = Content(h) \o r
        /\ IF h = tailBlock THEN r = <<>> ELSE r = Chain[next[h]]
  <2>1. CASE h = tailBlock
    <3>1. All = Content(h) /\ Content(h) \in Seq(Item)
      BY <1>1, <2>1, ChainDef DEF All
    <3>2. Content(h) \o <<>> = Content(h) /\ <<>> \in Seq(Item)
      BY <3>1
    <3> QED BY <2>1, <3>1, <3>2
  <2>2. CASE h # tailBlock
    <3>1. All = Content(h) \o Chain[next[h]] /\ Chain[next[h]] \in Seq(Item)
      BY <1>1, <2>2, ChainDef DEF All
    <3> QED BY <2>2, <3>1
  <2> QED BY <2>1, <2>2
<1>3. PICK m, f, n, s : m = sizeMask[h] /\ f = front[h] /\ n = Count(h) /\ s = data[h]
  OBVIOUS
<1>4. /\ m \in Nat /\ f \in 0 .. m /\ n \in 1 .. m /\ s \in [0 .. m -> Item]
      /\ Content(h) = Slice(m, f, n, s) /\ Content(h) \in Seq(Item)
  BY <1>1, <1>3, ContentIsSlice
<1>5. /\ Content(h) # <<>> /\ Head(Content(h)) = s[f]
      /\ Tail(Content(h)) = Slice(m, After(m, f), n - 1, s)
  <2>1. /\ Slice(m, f, n, s) # <<>> /\ Head(Slice(m, f, n, s)) = s[f]
        /\ Tail(Slice(m, f, n, s)) = Slice(m, After(m, f), n - 1, s)
    <3>1. m \in Nat /\ f \in 0 .. m /\ n \in 1 .. m /\ s \in [0 .. m -> Item]
      BY <1>4
    <3> QED BY <3>1, SliceTake
  <2> QED BY <2>1, <1>4
<1>6. /\ Content(h) \o r # <<>> /\ Head(Content(h) \o r) = Head(Content(h))
      /\ Tail(Content(h) \o r) = Tail(Content(h)) \o r
  BY <1>4, <1>5, TailOfBoth
<1> QED BY <1>2, <1>3, <1>5, <1>6

\* Beyond the front block nothing changes when the consumer takes an element.
LEMMA BehindFrontStays ==
  ASSUME NEW d, Inv(d), NEW e, Inv(e)',
         UNCHANGED <<blocks, next, tailBlock, frontBlock>>,
         frontBlock # tailBlock,
         \A b \in 1 .. blocks : b # frontBlock => Parts'[b] = Parts[b]
  PROVE  Chain'[next[frontBlock]] = Chain[next[frontBlock]]
<1>1. PICK h, s : h = frontBlock /\ s = next[frontBlock]
  OBVIOUS
<1>2. /\ h \in 1 .. blocks /\ s \in 1 .. blocks /\ tailBlock \in 1 .. blocks
      /\ d[s] = d[h] - 1 /\ d[h] \in Int /\ d[s] \in Int
  <2>1. h \in 1 .. blocks /\ s \in 1 .. blocks /\ tailBlock \in 1 .. blocks
    BY <1>1, Known
  <2>2. d[h] \in Int /\ d[s] \in Int
    BY <2>1, Known
  <2>3. d[s] = d[h] - 1
    BY <1>1, <2>1 DEF Inv, CircleInv
  <2> QED BY <2>1, <2>2, <2>3
<1>3. ASSUME NEW b \in 1 .. blocks, d[b] <= d[s] PROVE Parts'[b] = Parts[b]
  <2>1. b # h
    BY <1>2, <1>3
  <2> QED BY <1>1, <2>1
<1>4. /\ <<>> \in Seq(Item) /\ \A b \in 1 .. blocks : Chain[b] \in Seq(Item)
      /\ \A r \in Seq(Item) : r \o <<>> = r
  BY ChainDef
<1>5. Chain'[tailBlock] = Chain[tailBlock] \o <<>>
  <2>1. Parts'[tailBlock] = Parts[tailBlock]
    BY <1>2
  <2>2. Chain'[tailBlock] = Join(Chain', tailBlock, tailBlock', next', Parts')
    BY <1>2, ChainLeadsOn, JoinedDef DEF Chain
  <2>3. Chain[tailBlock] = Join(Chain, tailBlock, tailBlock, next, Parts)
    BY <1>2, ChainLeads, JoinedDef DEF Chain
  <2> QED BY <1>2, <1>4, <2>1, <2>2, <2>3 DEF Join
<1>6. Grows(d, <<>>, d[s])
  BY <1>2, <1>3, <1>4, <1>5 DEF Grows
<1>7. Chain'[s] = Chain[s] \o <<>>
  <2>1. d[s] <= d[s]
    BY <1>2
  <2> QED BY <1>2, <1>6, <2>1, ChainGrows
<1> QED BY <1>1, <1>2, <1>4, <1>7

\* After a step of the consumer in the front block the chain is what that block
\* holds then, followed by what was behind it.
LEMMA AllAfter ==
  ASSUME NEW d, Inv(d), NEW e, Inv(e)',
         UNCHANGED <<blocks, next, tailBlock, frontBlock>>,
         \A b \in 1 .. blocks : b # frontBlock => Parts'[b] = Parts[b],
         NEW r \in Seq(Item),
         IF frontBlock = tailBlock THEN r = <<>> ELSE r = Chain[next[frontBlock]],
         Content(frontBlock)' \in Seq(Item)
  PROVE  All' = Content(frontBlock)' \o r
<1> PICK h, p : h = frontBlock /\ p = Content(frontBlock)'
  OBVIOUS
<1>1. h \in 1 .. blocks /\ frontBlock' = h /\ blocks' = blocks
  BY Known
<1>2. Parts'[h] = p
  BY <1>1 DEF Parts
<1>3. All' = Chain'[h]
  BY <1>1 DEF All
<1>4. Chain'[h] = Join(Chain', h, tailBlock', next', Parts')
  BY <1>1, ChainLeadsOn, JoinedDef DEF Chain
<1>5. CASE h = tailBlock
  BY <1>1, <1>2, <1>3, <1>4, <1>5 DEF Join
<1>6. CASE h # tailBlock
  <2>1. Chain'[next[h]] = r
    BY <1>6, BehindFrontStays
  <2> QED BY <1>1, <1>2, <1>3, <1>4, <1>6, <2>1 DEF Join
<1> QED BY <1>5, <1>6

\* Moving an element out leaves a slot without one at the head.
LEMMA TakeOutTakes ==
  ASSUME NEW d, Inv(d), NEW e, Inv(e)', TakeOut
  PROVE  All # <<>> /\ item' = Head(All) /\ Tail(All') = Tail(All)
<1> PICK h : h = frontBlock
  OBVIOUS
<1>1. /\ UNCHANGED <<blocks, sizeMask, next, front, tail, tailBlock, frontBlock>>
      /\ item' = data[h][front[h]]
      /\ data' = [data EXCEPT ![h][front[h]] = Raw]
  BY DEF TakeOut, UnchangedByConsumer, shapeVars
<1>2. front[frontBlock] # tail[frontBlock]
  BY DEF TakeOut, CGoes, Inv, TurnInv
<1>3. PICK r \in Seq(Item) :
        /\ All = Content(h) \o r
        /\ IF h = tailBlock THEN r = <<>> ELSE r = Chain[next[h]]
        /\ All # <<>> /\ Head(All) = data[h][front[h]]
        /\ Tail(All) = Tail(Content(h)) \o r
        /\ Tail(Content(h)) = Slice(sizeMask[h], After(sizeMask[h], front[h]),
                                    Count(h) - 1, data[h])
  BY <1>2, FrontOfAll
<1>4. /\ h \in 1 .. blocks /\ h \in Blocks /\ sizeMask[h] \in Nat
      /\ front[h] \in 0 .. sizeMask[h] /\ Count(h) \in 1 .. sizeMask[h]
  <2>1. h \in 1 .. blocks /\ h \in Blocks
    BY Known
  <2> QED BY <2>1, <1>2, Known
<1>5. DOMAIN data = Blocks /\ data[h] \in [0 .. sizeMask[h] -> Item]
  BY <1>4 DEF Inv, SlotInv
<1>6. /\ \A b \in Blocks : b # h => data'[b] = data[b]
      /\ data'[h] = [data[h] EXCEPT ![front[h]] = Raw]
  BY <1>1, <1>4, <1>5
<1>7. \A b \in 1 .. blocks : b # h => Parts'[b] = Parts[b]
  BY <1>1, <1>6, Known DEF Parts, Content, Count
<1>8. PICK m, f, n, s, t : /\ m = sizeMask[h] /\ f = front[h] /\ n = Count(h)
                           /\ s = data[h] /\ t = data'[h]
  OBVIOUS
<1>9. /\ m \in Nat /\ f \in 0 .. m /\ n \in 1 .. m
      /\ s \in [0 .. m -> Item] /\ t = [s EXCEPT ![f] = Raw]
  BY <1>4, <1>5, <1>6, <1>8
<1>10. t \in [0 .. m -> Item] /\ \A i \in 0 .. m : i # f => t[i] = s[i]
  BY <1>9 DEF Item
<1>11. Content(h)' = Slice(m, f, n, t)
  BY <1>1, <1>8 DEF Content, Slice, Count
<1>12. Content(h)' \in Seq(Item) /\ Content(h)' # <<>>
       /\ Tail(Content(h)') = Slice(m, After(m, f), n - 1, t)
  <2>1. /\ m \in Nat /\ f \in 0 .. m /\ n \in 1 .. m /\ n \in 0 .. m
        /\ t \in [0 .. m -> Item]
    BY <1>9, <1>10
  <2>2. Slice(m, f, n, t) \in Seq(Item)
    BY <2>1, SliceSeq
  <2>3. /\ Slice(m, f, n, t) # <<>>
        /\ Tail(Slice(m, f, n, t)) = Slice(m, After(m, f), n - 1, t)
    BY <2>1, SliceTake
  <2> QED BY <2>2, <2>3, <1>11
<1>13. Slice(m, After(m, f), n - 1, t) = Slice(m, After(m, f), n - 1, s)
  <2>1. PICK g, l : g = After(m, f) /\ l = n - 1
    OBVIOUS
  <2>2. g \in 0 .. m /\ l \in 0 .. m /\ Dist(m, g, f) = m
    BY <1>9, <2>1, RingAfter, RingAround
  <2>3. \A i \in 0 .. m : Dist(m, g, i) < l => t[i] = s[i]
    BY <1>9, <1>10, <2>1, <2>2
  <2>4. Slice(m, g, l, t) = Slice(m, g, l, s)
    <3>1. m \in Nat /\ g \in 0 .. m /\ l \in 0 .. m
      BY <1>9, <2>2
    <3> QED BY <3>1, <2>3, SliceSame
  <2> QED BY <2>1, <2>4
<1>14. All' = Content(h)' \o r
  BY <1>1, <1>3, <1>7, <1>12, AllAfter
<1>15. Tail(All') = Tail(Content(h)') \o r
  BY <1>12, <1>14, TailOfBoth
<1> QED BY <1>1, <1>3, <1>8, <1>12, <1>13, <1>15

\* Giving its slot back leaves the others.
LEMMA BumpTakes ==
  ASSUME NEW d, Inv(d), NEW e, Inv(e)', Bump
  PROVE  All' = Tail(All)
<1> PICK h : h = frontBlock
  OBVIOUS
<1>1. /\ UNCHANGED <<blocks, sizeMask, next, data, tail, tailBlock, frontBlock>>
      /\ front' = [front EXCEPT ![h] = After(sizeMask[h], @)]
  BY DEF Bump, UnchangedByConsumer, shapeVars
<1>2. front[frontBlock] # tail[frontBlock]
  BY DEF Bump, CGoes, Inv, TurnInv
<1>3. PICK r \in Seq(Item) :
        /\ All = Content(h) \o r
        /\ IF h = tailBlock THEN r = <<>> ELSE r = Chain[next[h]]
        /\ Tail(All) = Tail(Content(h)) \o r
        /\ Tail(Content(h)) = Slice(sizeMask[h], After(sizeMask[h], front[h]),
                                    Count(h) - 1, data[h])
  BY <1>2, FrontOfAll
<1>4. /\ h \in 1 .. blocks /\ h \in Blocks /\ sizeMask[h] \in Nat
      /\ front[h] \in 0 .. sizeMask[h] /\ Count(h) \in 1 .. sizeMask[h]
      /\ tail[h] \in 0 .. sizeMask[h]
  <2>1. h \in 1 .. blocks /\ h \in Blocks
    BY Known
  <2> QED BY <2>1, <1>2, Known
<1>5. /\ front'[h] = After(sizeMask[h], front[h])
      /\ \A b \in Blocks : b # h => front'[b] = front[b]
  BY <1>1, <1>4 DEF Inv, TypeInv
<1>6. \A b \in 1 .. blocks : b # h => Parts'[b] = Parts[b]
  BY <1>1, <1>5, Known DEF Parts, Content, Count
<1>7. Count(h)' = Count(h) - 1
  BY <1>1, <1>2, <1>4, <1>5, RingNear DEF Count
<1>8. Content(h)' = Tail(Content(h))
  <2>1. Content(h)' = [k \in 1 .. Count(h) - 1 |->
                         data[h][Wrap(sizeMask[h], After(sizeMask[h], front[h]) + k - 1)]]
    BY <1>1, <1>5, <1>7 DEF Content
  <2> QED BY <2>1, <1>3 DEF Slice
<1>9. Content(h)' \in Seq(Item)
  <2>1. Content(h) \in Seq(Item) /\ Len(Content(h)) = Count(h)
    BY <1>4, ContentIsSlice
  <2> QED BY <2>1, <1>4, <1>8
<1>10. All' = Content(h)' \o r
  BY <1>1, <1>3, <1>6, <1>9, AllAfter
<1> QED BY <1>3, <1>8, <1>10

\* The destructor leaves none.
LEMMA DestroyEmpties ==
  ASSUME NEW d, Inv(d), NEW e, Inv(e)', Destroy
  PROVE  All' = <<>>
<1> PICK t : t = tailBlock
  OBVIOUS
<1>1. /\ UNCHANGED <<blocks, sizeMask, next, tailBlock>> /\ frontBlock' = t
      /\ front' = tail /\ tail' = tail
  BY DEF Destroy, shapeVars
<1>2. t \in 1 .. blocks /\ t \in Blocks /\ sizeMask[t] \in Nat /\ tail[t] \in 0 .. sizeMask[t]
  <2>1. t \in 1 .. blocks /\ t \in Blocks
    BY Known
  <2> QED BY <2>1, Known
<1>3. Count(t)' = 0
  BY <1>1, <1>2, RingAround DEF Count
<1>4. Parts'[t] = <<>>
  BY <1>1, <1>2, <1>3 DEF Parts, Content
<1>5. Chain'[t] = Join(Chain', t, tailBlock', next', Parts')
  BY <1>1, <1>2, ChainLeadsOn, JoinedDef DEF Chain
<1> QED BY <1>1, <1>4, <1>5 DEF Join, All

\* The steps that neither put an element in nor take one out.
Quiet ==
  \/ EnqueueRoom \/ EnqueueReadFront \/ Write \/ NextIsFree \/ WriteAhead
  \/ PublishAhead \/ MakeBlock \/ Link \/ RefuseEnqueue \/ SignalOne
  \/ CallConsumer \/ StartLocal \/ StartReadTail \/ CheckTailBlock
  \/ RefuseDequeue \/ Recheck \/ PeekNext \/ ReadNext \/ EnterNext \/ Bump

\* The elements are sequences of no more than malloc's limit of slots.
LEMMA ElementsFit ==
  ASSUME NEW d, Inv(d)
  PROVE  /\ Elements = IF cPc = "bump" THEN Tail(All) ELSE All
         /\ Elements \in Seq(Item) /\ Len(Elements) < MaxSlots
         /\ cPc = "bump" => All # <<>>
<1>1. Elements = IF cPc = "bump" THEN Tail(All) ELSE All
  BY DEF Elements, ContentFrom, All, Chain, Parts
<1>2. All \in Seq(Item) /\ Len(All) < MaxSlots /\ MaxSlots \in Nat
  BY ChainDef, AllFit, QueueConstants
<1>3. CASE cPc = "bump"
  <2>1. front[frontBlock] # tail[frontBlock]
    BY <1>3 DEF Inv, TurnInv
  <2>2. All # <<>>
    BY <2>1, FrontOfAll
  <2>3. Tail(All) \in Seq(Item) /\ Len(Tail(All)) = Len(All) - 1 /\ Len(All) \in Nat
    BY <1>2, <2>2, HeadTailProperties
  <2> QED BY <1>1, <1>2, <1>3, <2>2, <2>3
<1>4. CASE cPc # "bump"
  BY <1>1, <1>2, <1>4
<1> QED BY <1>3, <1>4, <1>1

\* The elements before and after a step.
LEMMA ElementsAfter ==
  /\ Elements = IF cPc = "bump" THEN Tail(All) ELSE All
  /\ Elements' = IF cPc' = "bump" THEN Tail(All') ELSE All'
BY DEF Elements, ContentFrom, All, Chain, Parts

\* A quiet step neither puts nor takes.
LEMMA QuietKeeps ==
  ASSUME NEW d, Inv(d), NEW e, Inv(e)', Quiet
  PROVE  Elements' = Elements /\ item' = item
<1>1. CASE Write
  <2>1. tailBlock \in Blocks
    BY Known
  <2>2. All' = All
    BY <1>1, <2>1, ConstructKeepsAll DEF Write, UnchangedByProducer, shapeVars
  <2> QED BY <1>1, <2>2, ElementsAfter
          DEF Write, UnchangedByProducer, consumerVars
<1>2. CASE WriteAhead
  <2>1. next[tailBlock] \in Blocks
    BY Known
  <2>2. All' = All
    BY <1>2, <2>1, ConstructKeepsAll DEF WriteAhead, UnchangedByProducer, shapeVars
  <2> QED BY <1>2, <2>2, ElementsAfter
          DEF WriteAhead, UnchangedByProducer, consumerVars
<1>3. CASE PublishAhead
  BY <1>3, PublishAheadKeepsAll, ElementsAfter
     DEF PublishAhead, UnchangedByProducer, consumerVars
<1>4. CASE MakeBlock
  BY <1>4, MakeBlockKeepsAll, ElementsAfter DEF MakeBlock, consumerVars
<1>5. CASE Link
  BY <1>5, LinkKeepsAll, ElementsAfter DEF Link, UnchangedByProducer, consumerVars
<1>6. CASE EnterNext
  BY <1>6, EnterNextKeepsAll, ElementsAfter DEF EnterNext, CGoes
<1>7. CASE Bump
  BY <1>7, BumpTakes, ElementsAfter DEF Bump, CGoes
<1>8. CASE \/ EnqueueRoom \/ EnqueueReadFront \/ NextIsFree \/ RefuseEnqueue
           \/ SignalOne
  <2>1. /\ UNCHANGED <<blocks, sizeMask, next, front, tail, data, tailBlock,
                       frontBlock>>
        /\ cPc' = cPc /\ item' = item
    BY <1>8 DEF EnqueueRoom, EnqueueReadFront, NextIsFree, RefuseEnqueue,
                SignalOne, UnchangedByProducer, shapeVars, consumerVars
  <2> QED BY <2>1, QuietKeepsAll, ElementsAfter
<1>9. CASE \/ CallConsumer \/ StartLocal \/ StartReadTail \/ CheckTailBlock
           \/ RefuseDequeue \/ Recheck \/ PeekNext \/ ReadNext
  <2>1. /\ UNCHANGED <<blocks, sizeMask, next, front, tail, data, tailBlock,
                       frontBlock>>
        /\ cPc # "bump" /\ cPc' # "bump" /\ item' = item
    BY <1>9 DEF CallConsumer, StartLocal, StartReadTail, CheckTailBlock,
                RefuseDequeue, Recheck, PeekNext, ReadNext, CGoes, Found,
                UnchangedByConsumer, shapeVars
  <2> QED BY <2>1, QuietKeepsAll, ElementsAfter
<1> QED BY <1>1, <1>2, <1>3, <1>4, <1>5, <1>6, <1>7, <1>8, <1>9 DEF Quiet

\* Publish and Advance append one element, whether or not one is being moved
\* out.
LEMMA PutAppends ==
  ASSUME NEW d, Inv(d), NEW e, Inv(e)', Publish \/ Advance
  PROVE  /\ \E v \in Values : Elements' = Append(Elements, v)
         /\ Len(Elements') = Len(Elements) + 1 /\ item' = item /\ cPc' = cPc
<1>1. PICK v \in Values : All' = All \o <<v>>
  BY PublishAppends, AdvanceAppends
<1>2. cPc' = cPc /\ item' = item
  BY DEF Publish, Advance, UnchangedByProducer, consumerVars
<1>3. All \in Seq(Item) /\ v \in Item /\ <<v>> \in Seq(Item)
  BY ChainDef DEF Item
<1>4. Elements' = Elements \o <<v>>
  <2>1. CASE cPc = "bump"
    <3>1. Tail(All \o <<v>>) = Tail(All) \o <<v>>
      BY <1>3, <2>1, ElementsFit, TailOfBoth
    <3> QED BY <1>1, <1>2, <2>1, <3>1, ElementsAfter
  <2>2. CASE cPc # "bump"
    BY <1>1, <1>2, <2>2, ElementsAfter
  <2> QED BY <2>1, <2>2
<1>5. Elements \in Seq(Item)
  BY ElementsFit
<1>6. Elements' = Append(Elements, v)
  BY <1>3, <1>4, <1>5, AppendIsConcat
<1>7. Len(Elements') = Len(Elements) + 1
  BY <1>3, <1>5, <1>6, AppendProperties
<1> QED BY <1>2, <1>6, <1>7

\* TakeOut receives the first element.
LEMMA TakeReceives ==
  ASSUME NEW d, Inv(d), NEW e, Inv(e)', TakeOut
  PROVE  /\ Elements # <<>> /\ item' = Head(Elements)
         /\ Elements' = Tail(Elements)
BY TakeOutTakes, ElementsAfter DEF TakeOut, CGoes

\* Every step is one of the abstract queue's, or none.
LEMMA StepIsFifo ==
  ASSUME NEW d, Inv(d), NEW e, Inv(e)', [Next]_vars
  PROVE  [Fifo!Next]_(Fifo!vars)
<1> USE DEF Fifo!Next, Fifo!vars
<1>1. CASE Quiet
  BY <1>1, QuietKeeps
<1>2. CASE Publish \/ Advance
  BY <1>2, PutAppends, ElementsFit DEF Fifo!Put, Values
<1>3. CASE TakeOut
  BY <1>3, TakeReceives DEF Fifo!Get
<1>4. CASE Destroy
  BY <1>4, DestroyEmpties, ElementsAfter DEF Fifo!Drop, Destroy, CGoes
<1>5. CASE Done \/ UNCHANGED vars
  <2>1. UNCHANGED vars
    BY <1>5 DEF Done
  <2>2. /\ UNCHANGED <<blocks, sizeMask, next, front, tail, data, tailBlock,
                       frontBlock>>
        /\ cPc' = cPc /\ item' = item
    BY <2>1 DEF vars, shapeVars, consumerVars
  <2> QED BY <2>2, QuietKeepsAll, ElementsAfter
<1> QED BY <1>1, <1>2, <1>3, <1>4, <1>5 DEF Next, Produce, Consume, Quiet

\* The queue is empty in the beginning.
LEMMA InitIsFifo == Init => Fifo!Init
<1> SUFFICES ASSUME Init PROVE Fifo!Init
  OBVIOUS
<1>1. PICK d : Inv(d)
  BY InitHolds
<1>2. /\ frontBlock = tailBlock /\ front[frontBlock] = tail[frontBlock]
      /\ cPc = "idle" /\ item = None
  BY DEF Init
<1>3. Count(frontBlock) = 0 /\ frontBlock \in 1 .. blocks
  BY <1>1, <1>2, Known
<1>4. Content(frontBlock) = <<>>
  BY <1>3 DEF Content
<1>5. All = <<>>
  BY <1>1, <1>2, <1>3, <1>4, ChainDef DEF All
<1> QED BY <1>2, <1>5, ElementsAfter DEF Fifo!Init

\* The circle of blocks implements a queue: what the consumer receives is what
\* the producer enqueued, in that order and each once, in every interleaving of
\* inner_enqueue and inner_dequeue, and never more than malloc has room for.
THEOREM QueueIsFifo == Spec => FifoSpec
<1>1. (\E d : Inv(d)) /\ (\E d : Inv(d))' /\ [Next]_vars => [Fifo!Next]_(Fifo!vars)
  BY StepIsFifo
<1> QED BY InitIsFifo, Always, <1>1, PTL DEF Spec, FifoSpec, Fifo!Spec

-----------------------------------------------------------------------------
(* Why a call gives up.                                                    *)

\* The consumer holds a permit it has not taken an element for.
Held == IF cOp = "dequeue"
             /\ cPc \in {"start", "check", "recheck", "next", "enter", "take"}
          THEN 1 ELSE 0

\* The producer has enqueued an element it has not signalled.
Unsignalled == IF pPc = "signal" THEN 1 ELSE 0

\* Only dequeue goes on to the next block or takes an element.
TakingInv == cPc \in {"enter", "take", "bump"} => cOp = "dequeue"

\* A call that saw an element still has one ahead of it ...
SawInv == cPc = "start" /\ waiting => Elements # <<>>

\* ... which is in another block if there is none in the front block; and so it
\* is for a call that holds a permit.
AheadInv ==
  cPc = "check" /\ (waiting \/ (blocking /\ cOp = "dequeue")) =>
    frontBlock # tailBlock

\* For every element signalled there is a permit, held by a call or not.
PermitInv ==
  blocking /\ cPc # "gone" => permits + Unsignalled + Held = Len(Elements)

\* A producer that finds the consumer in the block ahead has found as many
\* elements as the constructor promised room for.
PromiseInv == pPc = "full" /\ next[tailBlock] = frontBlock => promised

CallInv == TakingInv /\ SawInv /\ AheadInv /\ PermitInv /\ PromiseInv

\* The constructor's blocks but for one, or its only block, have room for size.
LEMMA ShapeRoom ==
  ASSUME NEW q \in Shapes, NEW b \in Nat, FirstBlocks(q) <= b
  PROVE  /\ b = 1 => FirstSlots(q) - 1 >= q.size
         /\ b > 1 => (b - 1) * (FirstSlots(q) - 1) >= q.size
<1>1. /\ q.size \in Nat \ {0} /\ q.max \in Nat /\ q.max >= 2
      /\ FirstSlots(q) \in Nat /\ FirstSlots(q) >= 2
  BY QueueConstants, ShapeFacts
<1>2. ceilToPow2[q.size + 1] \in Nat /\ ceilToPow2[q.size + 1] >= q.size + 1
  BY <1>1, CeilToPow2Bound
<1>3. CASE ceilToPow2[q.size + 1] > q.max * 2
  <2>1. PICK m, n, k : m = q.max - 1 /\ n = q.size - 1 /\ k = (n + 2 * m) \div m
    OBVIOUS
  <2>2. m \in Nat \ {0} /\ n \in Nat /\ k \in Int /\ FirstSlots(q) - 1 = m
        /\ FirstBlocks(q) = k
    <3>1. FirstSlots(q) - 1 = m
      BY <1>3, <2>1 DEF FirstSlots
    <3>2. q.size + q.max * 2 - 3 = n + 2 * m
      BY <1>1, <2>1
    <3>3. FirstBlocks(q) = k
      BY <1>3, <2>1, <3>2 DEF FirstBlocks
    <3>4. m \in Nat \ {0} /\ n \in Nat
      <4>1. m \in Nat \ {0}
        <5>1. PICK x : x = q.max
          OBVIOUS
        <5>2. x \in Nat /\ x >= 2 /\ m = x - 1
          BY <1>1, <2>1, <5>1
        <5> QED BY <5>2
      <4>2. n \in Nat
        <5>1. PICK x : x = q.size
          OBVIOUS
        <5>2. x \in Nat \ {0} /\ n = x - 1
          BY <1>1, <2>1, <5>1
        <5> QED BY <5>2
      <4> QED BY <4>1, <4>2
    <3>5. k \in Int
      BY <2>1, <3>4
    <3> QED BY <3>1, <3>3, <3>4, <3>5
  <2>3. n + 2 * m < m * k + m
    <3>1. PICK u : u = n + 2 * m
      OBVIOUS
    <3>2. u \in Nat /\ k = u \div m
      BY <2>1, <2>2, <3>1
    <3>3. u < m * k + m
      BY <2>2, <3>2, Z3
    <3> QED BY <3>1, <3>3
  <2>4. n < (k - 1) * m
    <3>1. (k - 1) * m = m * k - m
      BY <2>2
    <3> QED BY <2>2, <2>3, <3>1, Z3
  <2>5. k >= 2
    <3> SUFFICES ASSUME k <= 1 PROVE FALSE
      BY <2>2
    <3>1. PICK l \in Nat : l = 1 - k
      BY <2>2
    <3>2. (k - 1) * m = 0 - l * m /\ l * m \in Nat
      BY <2>2, <3>1
    <3> QED BY <2>2, <2>4, <3>2
  <2>6. (k - 1) * m <= (b - 1) * m
    <3>1. PICK l \in Nat : b - 1 = (k - 1) + l
      <4>1. b - k \in Nat /\ b - 1 = (k - 1) + (b - k)
        BY <2>2
      <4> QED BY <4>1
    <3>2. (b - 1) * m = (k - 1) * m + l * m /\ l * m \in Nat
      BY <2>2, <3>1
    <3>3. (k - 1) * m \in Int
      BY <2>2
    <3> QED BY <3>2, <3>3
  <2>7. (b - 1) * m >= q.size
    <3>1. (b - 1) * m \in Int /\ (k - 1) * m \in Int /\ q.size = n + 1
      BY <1>1, <2>1, <2>2
    <3> QED BY <2>2, <2>4, <2>6, <3>1
  <2> QED BY <2>2, <2>5, <2>7
<1>4. CASE ~(ceilToPow2[q.size + 1] > q.max * 2)
  <2>1. FirstSlots(q) - 1 >= q.size
    BY <1>1, <1>2, <1>4 DEF FirstSlots
  <2>2. PICK m : m = FirstSlots(q) - 1
    OBVIOUS
  <2>3. ASSUME b > 1 PROVE (b - 1) * m >= m
    <3>1. PICK l \in Nat : b - 1 = l + 1
      <4>1. b - 2 \in Nat /\ b - 1 = (b - 2) + 1
        BY <2>3
      <4> QED BY <4>1
    <3> QED BY <1>1, <2>2, <3>1, Rows
  <2>4. b > 1 => (b - 1) * m \in Int
    BY <1>1, <2>2
  <2> QED BY <1>1, <2>1, <2>2, <2>3, <2>4
<1> QED BY <1>3, <1>4

\* From k blocks before the tail block on every block has r elements at least.
Reach(d, k, r) == \A b \in 1 .. blocks : d[b] <= k => Count(b) >= r

\* Together they hold so many for each of them.
LEMMA ChainLong ==
  ASSUME NEW d, Inv(d), NEW r \in Nat, NEW k \in Int,
         Reach(d, k, r)
  PROVE  \A b \in 1 .. blocks : d[b] <= k => Len(Chain[b]) >= (d[b] + 1) * r
<1> PICK f : f = Chain
  OBVIOUS
<1> DEFINE Good(b) == Len(f[b]) >= (d[b] + 1) * r
           Bad == {i \in Nat : \E b \in 1 .. blocks : d[b] = i /\ i <= k /\ ~Good(b)}
<1> SUFFICES ASSUME NEW b \in 1 .. blocks, d[b] <= k, ~Good(b) PROVE FALSE
  OBVIOUS
<1>1. d[b] \in Bad
  BY Known
<1>2. PICK i \in Bad : \A j \in Bad : i <= j
  <2>1. Bad \in SUBSET Nat /\ Bad # {}
    BY <1>1
  <2> HIDE DEF Bad
  <2> QED BY <2>1, LeastNat
<1>3. PICK c \in 1 .. blocks : d[c] = i /\ i <= k /\ ~Good(c)
  BY <1>2
<1>4. i \in Nat /\ \A j \in Bad : i <= j
  BY <1>2
<1>5. /\ Content(c) \in Seq(Item) /\ Len(Content(c)) >= r /\ Len(Content(c)) \in Nat
      /\ f[c] = IF c = tailBlock THEN Content(c) ELSE Content(c) \o f[next[c]]
  BY <1>3, Known, ContentIsSlice, ChainDef DEF Reach
<1>6. PICK u, v : u = (i + 1) * r /\ v = i * r
  OBVIOUS
<1>7. u \in Nat /\ v \in Nat /\ u = v + r
  BY <1>4, <1>6, Rows
<1>8. CASE c = tailBlock
  <2>1. i = 0
    BY <1>3, <1>8 DEF Inv, CircleInv
  <2>2. u = r
    BY <1>6, <2>1
  <2> QED BY <1>3, <1>5, <1>6, <1>8, <2>2
<1>9. CASE c # tailBlock
  <2>1. PICK s \in 1 .. blocks : s = next[c] /\ d[s] \in Nat /\ d[s] = i - 1
    <3>1. next[c] \in 1 .. blocks /\ d[next[c]] = i - 1
      BY <1>3, <1>9, Known DEF Inv, CircleInv
    <3>2. PICK s : s = next[c]
      OBVIOUS
    <3>3. s \in 1 .. blocks /\ d[s] = i - 1
      BY <3>1, <3>2
    <3>4. d[s] \in Nat
      <4>1. d \in [1 .. blocks -> 0 .. blocks - 1] /\ blocks \in Nat
        BY Known DEF Inv, CircleInv
      <4> QED BY <3>3, <4>1
    <3> QED BY <3>2, <3>3, <3>4
  <2>2. Good(s)
    <3>1. d[s] \notin Bad
      <4> HIDE DEF Bad
      <4> QED BY <1>4, <2>1
    <3> QED BY <1>3, <1>4, <2>1, <3>1
  <2>3. Len(f[s]) >= v /\ Len(f[s]) \in Nat
    <3>1. d[s] + 1 = i
      BY <2>1, <1>4
    <3>2. f[s] \in Seq(Item)
      BY <2>1, ChainDef
    <3> QED BY <2>2, <3>1, <3>2, <1>6
  <2>4. Len(f[c]) = Len(Content(c)) + Len(f[s])
    <3>1. f[s] \in Seq(Item)
      BY <2>1, ChainDef
    <3> QED BY <1>5, <1>9, <2>1, <3>1
  <2>5. Len(f[c]) >= u
    <3>1. PICK x, y : x = Len(Content(c)) /\ y = Len(f[s])
      OBVIOUS
    <3>2. x \in Nat /\ y \in Nat /\ x >= r /\ y >= v
      BY <1>5, <2>3, <3>1
    <3>3. x + y >= u
      BY <1>7, <3>2
    <3> QED BY <2>4, <3>1, <3>3
  <2> QED BY <1>3, <1>6, <2>5
<1> QED BY <1>8, <1>9

\* When the tail block is full and the consumer is in the block ahead, there
\* are as many elements as the constructor promised room for.
LEMMA FullIsPromised ==
  ASSUME NEW d, Inv(d), ~Room(tailBlock, front[tailBlock]), pPc # "link",
         next[tailBlock] = frontBlock
  PROVE  Len(All) >= shape.size
<1>1. PICK t, h, n, r : /\ t = tailBlock /\ h = frontBlock /\ n = blocks
                        /\ r = FirstSlots(shape) - 1
  OBVIOUS
<1>2. /\ t \in 1 .. n /\ h \in 1 .. n /\ n \in Nat \ {0} /\ r \in Nat
      /\ shape \in Shapes /\ FirstBlocks(shape) <= n
      /\ shape.size \in Nat /\ FirstSlots(shape) \in Nat
  <2>1. shape \in Shapes /\ FirstBlocks(shape) <= n
    BY <1>1 DEF Inv, TypeInv
  <2>2. FirstSlots(shape) \in Nat /\ FirstSlots(shape) >= 2 /\ shape.size \in Nat
    BY <2>1, ShapeFacts, QueueConstants
  <2> QED BY <1>1, <2>1, <2>2, Known
<1>3. d[h] = n - 1 /\ d[t] = 0
  BY <1>1 DEF Inv, CircleInv
<1>4. Count(t) = sizeMask[t]
  <2>1. /\ sizeMask[t] \in Nat /\ front[t] \in 0 .. sizeMask[t]
        /\ tail[t] \in 0 .. sizeMask[t]
    BY <1>1, <1>2, Known
  <2> QED BY <1>1, <2>1, RingFar DEF Room, Count
<1>5. ASSUME NEW b \in 1 .. n PROVE sizeMask[b] >= r /\ sizeMask[b] \in Nat
  <2>1. FirstSlots(shape) <= sizeMask[b] + 1 /\ sizeMask[b] \in Nat
    BY <1>1, Known DEF Inv, TypeInv
  <2> QED BY <1>1, <1>2, <2>1
<1>6. CASE n = 1
  <2>1. h = t
    BY <1>2, <1>6
  <2>2. All = Content(t) /\ Len(Content(t)) = Count(t)
    BY <1>1, <1>2, <2>1, Known, ChainDef, ContentIsSlice DEF All
  <2>3. r >= shape.size
    BY <1>1, <1>2, <1>6, ShapeRoom
  <2> QED BY <1>2, <1>4, <1>5, <2>2, <2>3
<1>7. CASE n > 1
  <2>1. h # t
    BY <1>2, <1>3, <1>7
  <2>2. PICK s \in 1 .. n : s = next[h] /\ d[s] = n - 2
    <3>1. next[h] \in 1 .. n /\ d[next[h]] = d[h] - 1
      BY <1>1, <1>2, <2>1, Known DEF Inv, CircleInv
    <3> QED BY <3>1, <1>2, <1>3
  <2>3. ASSUME NEW b \in 1 .. n, d[b] <= n - 2 PROVE Count(b) >= r
    <3>1. CASE b = t
      BY <3>1, <1>4, <1>5
    <3>2. CASE b # t
      <4>1. d[b] < d[h]
        BY <1>1, <1>2, <1>3, <2>3, Known
      <4>2. Count(b) = sizeMask[b]
        BY <1>1, <3>2, <4>1 DEF Inv, PathInv
      <4> QED BY <4>2, <1>5
    <3> QED BY <3>1, <3>2
  <2>4. Len(Chain[s]) >= (n - 1) * r
    <3>1. \A b \in 1 .. blocks : d[b] <= n - 2 => Count(b) >= r
      BY <1>1, <2>3
    <3>2. PICK k : k = n - 2
      OBVIOUS
    <3>3. k \in Int /\ s \in 1 .. blocks /\ d[s] <= k
      BY <1>1, <1>2, <2>2, <3>2
    <3>4. Reach(d, k, r)
      BY <3>1, <3>2 DEF Reach
    <3>5. Len(Chain[s]) >= (d[s] + 1) * r
      BY <1>2, <3>3, <3>4, ChainLong
    <3>6. d[s] + 1 = n - 1
      BY <1>2, <2>2
    <3> QED BY <3>5, <3>6
  <2>5. (n - 1) * r >= shape.size /\ (n - 1) * r \in Int
    BY <1>1, <1>2, <1>7, ShapeRoom
  <2>6. Len(All) >= Len(Chain[s]) /\ Len(Chain[s]) \in Nat /\ Len(All) \in Nat
    <3>1. All = Content(h) \o Chain[s] /\ Content(h) \in Seq(Item)
          /\ Chain[s] \in Seq(Item)
      BY <1>1, <1>2, <2>1, <2>2, Known, ChainDef, ContentIsSlice DEF All
    <3> QED BY <3>1
  <2> QED BY <1>2, <2>4, <2>5, <2>6
<1> QED BY <1>2, <1>6, <1>7

\* With an empty front block that is the tail block there are no elements.
LEMMA NoneIsNone ==
  ASSUME NEW d, Inv(d), frontBlock = tailBlock, front[frontBlock] = tail[frontBlock]
  PROVE  All = <<>>
<1>1. Count(frontBlock) = 0 /\ frontBlock \in 1 .. blocks
  BY Known
<1>2. Content(frontBlock) = <<>>
  BY <1>1 DEF Content
<1> QED BY <1>1, <1>2, ChainDef DEF All


\* No call has begun in the beginning.
LEMMA InitCalls == Init => CallInv
<1> SUFFICES ASSUME Init PROVE CallInv
  OBVIOUS
<1>1. Elements = <<>>
  BY InitIsFifo DEF Fifo!Init
<1> QED
  BY <1>1, EmptySeq
     DEF Init, CallInv, TakingInv, SawInv, AheadInv, PermitInv, PromiseInv, Held,
         Unsignalled

\* What the producer's steps leave alone, and what they add.
LEMMA ProducerSteps ==
  ASSUME NEW d, Inv(d), NEW e, Inv(e)', Produce
  PROVE  /\ UNCHANGED <<shape, blocking, frontBlock, cPc, cOp, waiting>>
         /\ Elements \in Seq(Item) /\ Elements' \in Seq(Item)
         /\ IF Publish \/ Advance
              THEN Len(Elements') = Len(Elements) + 1 /\ pPc' = Enqueued
                   /\ pPc # "signal" /\ permits' = permits
              ELSE Elements' = Elements
         /\ tailBlock' = tailBlock \/ Advance
<1>1. UNCHANGED <<shape, blocking, frontBlock, cPc, cOp, waiting>>
  BY DEF Produce, EnqueueRoom, EnqueueReadFront, Write, Publish, NextIsFree,
         WriteAhead, PublishAhead, MakeBlock, Link, Advance, RefuseEnqueue, SignalOne,
         UnchangedByProducer, fixedVars, consumerVars
<1>2. Elements \in Seq(Item)
  BY ElementsFit
<1>3. CASE Publish \/ Advance
  <2>1. PICK v \in Values : Elements' = Append(Elements, v)
    BY <1>3, PutAppends
  <2>2. Elements' \in Seq(Item) /\ Len(Elements') = Len(Elements) + 1
    BY <1>2, <2>1, AppendProperties DEF Item
  <2>3. /\ pPc' = Enqueued /\ pPc # "signal" /\ permits' = permits
        /\ tailBlock' = tailBlock \/ Advance
    BY <1>3 DEF Publish, Advance, PGoes
  <2> QED BY <1>1, <1>2, <1>3, <2>2, <2>3
<1>4. CASE ~(Publish \/ Advance)
  <2>1. Elements' = Elements
    BY <1>4, QuietKeeps DEF Quiet, Produce
  <2>2. tailBlock' = tailBlock
    BY <1>4 DEF Produce, EnqueueRoom, EnqueueReadFront, Write, NextIsFree,
         WriteAhead, PublishAhead, MakeBlock, Link, RefuseEnqueue, SignalOne
  <2> QED BY <1>1, <1>2, <1>4, <2>1, <2>2
<1> QED BY <1>3, <1>4

\* What the consumer's steps leave alone, and what they take.
LEMMA ConsumerSteps ==
  ASSUME NEW d, Inv(d), NEW e, Inv(e)', Consume
  PROVE  /\ UNCHANGED <<shape, blocking, blocks, next, tailBlock, pPc, promised>>
         /\ Elements \in Seq(Item)
         /\ IF TakeOut THEN /\ Elements # <<>> /\ Elements' = Tail(Elements)
                            /\ Len(Elements') = Len(Elements) - 1
                       ELSE Elements' = Elements
         /\ frontBlock' = frontBlock \/ EnterNext
         /\ UNCHANGED <<cOp, waiting, permits>> \/ CallConsumer
<1>1. /\ UNCHANGED <<shape, blocking, blocks, next, tailBlock, pPc, promised>>
      /\ frontBlock' = frontBlock \/ EnterNext
      /\ UNCHANGED <<cOp, waiting, permits>> \/ CallConsumer
  BY DEF Consume, CallConsumer, StartLocal, StartReadTail, CheckTailBlock,
         RefuseDequeue, Recheck, PeekNext, ReadNext, EnterNext, TakeOut, Bump,
         UnchangedByConsumer, fixedVars, shapeVars, producerVars
<1>2. Elements \in Seq(Item)
  BY ElementsFit
<1>3. CASE TakeOut
  <2>1. Elements # <<>> /\ Elements' = Tail(Elements)
    BY <1>3, TakeReceives
  <2>2. Len(Elements') = Len(Elements) - 1
    BY <1>2, <2>1, HeadTailProperties
  <2> QED BY <1>1, <1>2, <1>3, <2>1, <2>2
<1>4. CASE ~TakeOut
  <2>1. Elements' = Elements
    BY <1>4, QuietKeeps DEF Quiet, Consume
  <2> QED BY <1>1, <1>2, <1>4, <2>1
<1> QED BY <1>3, <1>4

\* The consumer's place and what it holds, after a step of its own.
LEMMA PlacesAfter ==
  ASSUME Consume
  PROVE  /\ cPc' = "start" => CallConsumer
         /\ cPc' = "check" => StartReadTail /\ front[frontBlock] = tail[frontBlock]
         /\ cPc # "gone" /\ cPc' # "gone"
BY DEF Consume, CallConsumer, StartLocal, StartReadTail, CheckTailBlock,
       RefuseDequeue, Recheck, PeekNext, ReadNext, EnterNext, TakeOut, Bump, CGoes,
       Found

\* A step of the producer keeps what holds of the calls: it only adds elements,
\* and moves tailBlock on to a block the consumer is not in.
LEMMA ProduceKeepsCalls ==
  ASSUME NEW d, Inv(d), NEW e, Inv(e)', CallInv, Produce
  PROVE  CallInv'
<1>1. TakingInv'
  BY ProducerSteps DEF CallInv, TakingInv
<1>2. SawInv'
  <2>1. ASSUME Elements # <<>> PROVE Elements' # <<>>
    <3>1. CASE Publish \/ Advance
      <4>1. Len(Elements) \in Nat /\ Len(Elements') = Len(Elements) + 1
        BY <3>1, ProducerSteps
      <4> QED BY <4>1, ProducerSteps, EmptySeq
    <3>2. CASE ~(Publish \/ Advance)
      BY <2>1, <3>2, ProducerSteps
    <3> QED BY <3>1, <3>2
  <2> QED BY <2>1, ProducerSteps DEF CallInv, SawInv
<1>3. AheadInv'
  <2>1. CASE tailBlock' = tailBlock
    BY <2>1, ProducerSteps DEF CallInv, AheadInv
  <2>2. CASE Advance
    <3>1. d[frontBlock] < blocks - 1 /\ d[next[tailBlock]] = blocks - 1
      BY <2>2 DEF Advance, PGoes, Inv, TurnInv, CircleInv
    <3>2. d[frontBlock] \in Nat /\ blocks \in Nat
      BY Known
    <3>3. frontBlock # next[tailBlock]
      BY <3>1, <3>2
    <3>4. frontBlock' # tailBlock'
      BY <2>2, <3>3, ProducerSteps DEF Advance
    <3> QED BY <3>4 DEF AheadInv
  <2> QED BY <2>1, <2>2, ProducerSteps
<1>4. PermitInv'
  <2>1. Held' = Held /\ cPc' = cPc /\ blocking' = blocking
    BY ProducerSteps DEF Held
  <2>2. SUFFICES ASSUME blocking, cPc # "gone"
        PROVE  permits' + Unsignalled' + Held' = Len(Elements')
    BY <2>1 DEF PermitInv
  <2>3. permits + Unsignalled + Held = Len(Elements)
    BY <2>2 DEF CallInv, PermitInv
  <2>4. permits \in Nat /\ Held \in {0, 1}
    BY DEF Inv, TypeInv, Held
  <2>5. CASE Publish \/ Advance
    <3>1. Unsignalled = 0 /\ Unsignalled' = 1 /\ permits' = permits
      BY <2>2, <2>5, ProducerSteps DEF Unsignalled, Enqueued
    <3>2. Len(Elements') = Len(Elements) + 1
      BY <2>5, ProducerSteps
    <3> QED BY <2>1, <2>3, <2>4, <3>1, <3>2
  <2>6. CASE SignalOne
    <3>1. Unsignalled = 1 /\ Unsignalled' = 0 /\ permits' = permits + 1
      BY <2>6 DEF SignalOne, PGoes, Unsignalled
    <3>2. Elements' = Elements
      BY <2>6, QuietKeeps DEF Quiet
    <3> QED BY <2>1, <2>3, <2>4, <3>1, <3>2
  <2>7. CASE ~(Publish \/ Advance \/ SignalOne)
    <3>1. pPc # "signal" /\ pPc' # "signal" /\ permits' = permits
      BY <2>7 DEF Produce, EnqueueRoom, EnqueueReadFront, Write, NextIsFree,
           WriteAhead, PublishAhead, MakeBlock, Link, RefuseEnqueue, PGoes
    <3>2. Elements' = Elements
      BY <2>7, ProducerSteps
    <3> QED BY <2>1, <2>3, <3>1, <3>2 DEF Unsignalled
  <2> QED BY <2>5, <2>6, <2>7
<1>5. PromiseInv'
  <2>1. SUFFICES ASSUME pPc' = "full", next'[tailBlock'] = frontBlock' PROVE promised'
    BY DEF PromiseInv
  <2>2. EnqueueReadFront
    BY <2>1 DEF Produce, EnqueueRoom, Write, Publish, NextIsFree, WriteAhead,
         PublishAhead, MakeBlock, Link, Advance, RefuseEnqueue, SignalOne, PGoes,
         Enqueued
  <2>3. /\ ~Room(tailBlock, front[tailBlock]) /\ pPc = "idle"
        /\ UNCHANGED <<next, tailBlock, frontBlock>>
    BY <2>1, <2>2 DEF EnqueueReadFront, PGoes, UnchangedByProducer, shapeVars
  <2>4. Len(All) >= shape.size
    BY <2>1, <2>3, FullIsPromised
  <2> QED BY <2>2, <2>4 DEF EnqueueReadFront, ContentFrom, All, Chain, Parts
<1> QED BY <1>1, <1>2, <1>3, <1>4, <1>5 DEF CallInv

\* A step of the consumer does: it takes an element only with its permit.
LEMMA ConsumeKeepsCalls ==
  ASSUME NEW d, Inv(d), NEW e, Inv(e)', CallInv, Consume
  PROVE  CallInv'
<1>1. TakingInv'
  <2>1. CASE CallConsumer
    BY <2>1 DEF CallConsumer, CGoes, TakingInv
  <2>2. CASE ~CallConsumer
    <3>1. cOp' = cOp
      BY <2>2, ConsumerSteps
    <3>2. cPc' \in {"enter", "take", "bump"} => cOp = "dequeue"
      BY <2>2 DEF CallInv, TakingInv, Consume, StartLocal, StartReadTail,
           CheckTailBlock, RefuseDequeue, Recheck, PeekNext, ReadNext, EnterNext,
           TakeOut, Bump, CGoes, Found, Inv, TypeInv
    <3> QED BY <3>1, <3>2 DEF TakingInv
  <2> QED BY <2>1, <2>2
<1>2. SawInv'
  <2>1. SUFFICES ASSUME CallConsumer PROVE SawInv'
    BY PlacesAfter DEF SawInv
  <2>2. Elements' = Elements /\ waiting' = (Elements # <<>>)
    BY <2>1, QuietKeeps DEF Quiet, CallConsumer
  <2> QED BY <2>2 DEF SawInv
<1>3. AheadInv'
  <2>1. SUFFICES ASSUME cPc' = "check", waiting' \/ (blocking' /\ cOp' = "dequeue")
        PROVE  frontBlock' # tailBlock'
    BY DEF AheadInv
  <2>2. StartReadTail /\ front[frontBlock] = tail[frontBlock] /\ cPc = "start"
    BY <2>1, PlacesAfter DEF StartReadTail, CGoes
  <2>3. UNCHANGED <<waiting, blocking, cOp, frontBlock, tailBlock>>
    BY <2>2 DEF StartReadTail, UnchangedByConsumer, fixedVars
  <2>4. Elements # <<>>
    <3>1. CASE waiting
      BY <2>2, <3>1 DEF CallInv, SawInv
    <3>2. CASE blocking /\ cOp = "dequeue"
      <4>1. permits \in Nat /\ Unsignalled \in {0, 1} /\ Held = 1
        BY <2>2, <3>2 DEF Inv, TypeInv, Unsignalled, Held
      <4>2. permits + Unsignalled + Held = Len(Elements)
        BY <2>2, <3>2 DEF CallInv, PermitInv
      <4>3. Len(Elements) # 0
        BY <4>1, <4>2
      <4> QED BY <4>3, EmptySeq
    <3> QED BY <2>1, <2>3, <3>1, <3>2
  <2>5. Elements = All
    BY <2>2, ElementsAfter
  <2>6. frontBlock # tailBlock
    BY <2>2, <2>4, <2>5, NoneIsNone
  <2> QED BY <2>3, <2>6
<1>4. PermitInv'
  <2>1. blocking' = blocking /\ Unsignalled' = Unsignalled /\ cPc # "gone"
    BY ConsumerSteps, PlacesAfter DEF Unsignalled
  <2>2. SUFFICES ASSUME blocking
        PROVE  permits' + Unsignalled' + Held' = Len(Elements')
    BY <2>1 DEF PermitInv
  <2>3. permits + Unsignalled + Held = Len(Elements)
    BY <2>1, <2>2 DEF CallInv, PermitInv
  <2>4. permits \in Nat /\ Unsignalled \in {0, 1}
    BY DEF Inv, TypeInv, Unsignalled
  <2>5. CASE CallConsumer
    <3>1. Elements' = Elements
      BY <2>5, QuietKeeps DEF Quiet
    <3>2. Held = 0 /\ permits' + Held' = permits
      <4>1. Held = 0 /\ cPc' = "start" /\ cOp' \in {"dequeue", "peek"}
        BY <2>5 DEF CallConsumer, CGoes, Held
      <4>2. CASE cOp' = "dequeue"
        BY <2>2, <2>4, <2>5, <4>1, <4>2 DEF CallConsumer, Held
      <4>3. CASE cOp' = "peek"
        BY <2>2, <2>4, <2>5, <4>1, <4>3 DEF CallConsumer, Held
      <4> QED BY <4>1, <4>2, <4>3
    <3>3. Held' \in {0, 1} /\ permits' \in Nat
      BY DEF Inv, TypeInv, Held
    <3>4. PICK p, q, h, u, l : /\ p = permits /\ q = permits' /\ h = Held'
                               /\ u = Unsignalled /\ l = Len(Elements)
      OBVIOUS
    <3>5. p \in Nat /\ q \in Nat /\ h \in Nat /\ u \in Nat
      BY <2>4, <3>3, <3>4
    <3>6. q + h = p /\ p + u + 0 = l
      BY <2>3, <3>2, <3>4
    <3>7. q + u + h = l
      BY <3>5, <3>6
    <3> QED BY <2>1, <3>1, <3>4, <3>7
  <2>6. CASE TakeOut
    <3>1. Held = 1 /\ Held' = 0 /\ permits' = permits
      BY <2>6 DEF TakeOut, CGoes, Held, CallInv, TakingInv
    <3>2. Len(Elements') = Len(Elements) - 1
      BY <2>6, ConsumerSteps
    <3> QED BY <2>1, <2>3, <2>4, <3>1, <3>2
  <2>7. CASE ~(CallConsumer \/ TakeOut)
    <3>1. Elements' = Elements /\ permits' = permits /\ cOp' = cOp
      BY <2>7, ConsumerSteps
    <3>2. Held' = Held
      <4>1. CASE RefuseDequeue
        <5>1. cOp # "dequeue"
          BY <2>2, <4>1 DEF CallInv, AheadInv, RefuseDequeue, CGoes
        <5> QED BY <3>1, <5>1 DEF Held
      <4>2. CASE ~RefuseDequeue
        BY <2>7, <3>1, <4>2 DEF Consume, StartLocal, StartReadTail, CheckTailBlock,
           Recheck, PeekNext, ReadNext, EnterNext, Bump, CGoes, Found, Held
      <4> QED BY <4>1, <4>2
    <3> QED BY <2>1, <2>3, <3>1, <3>2
  <2> QED BY <2>5, <2>6, <2>7
<1>5. PromiseInv'
  <2>1. UNCHANGED <<pPc, next, tailBlock, promised>>
    BY ConsumerSteps
  <2>2. CASE frontBlock' = frontBlock
    BY <2>1, <2>2 DEF CallInv, PromiseInv
  <2>3. CASE EnterNext
    <3>1. SUFFICES ASSUME pPc = "full" PROVE next[tailBlock] # next[frontBlock]
      BY <2>1, <2>3 DEF EnterNext, PromiseInv
    <3>2. frontBlock # tailBlock
      BY <2>3 DEF EnterNext, CGoes, Inv, TurnInv
    <3>3. d[frontBlock] \in 0 .. blocks - 1 /\ blocks \in Nat /\ frontBlock \in 1 .. blocks
      BY Known
    <3>4. d[next[frontBlock]] = d[frontBlock] - 1
      BY <3>2, <3>3 DEF Inv, CircleInv
    <3>5. d[next[tailBlock]] = blocks - 1
      BY <3>1 DEF Inv, CircleInv
    <3> QED BY <3>3, <3>4, <3>5
  <2> QED BY <2>2, <2>3, ConsumerSteps
<1> QED BY <1>1, <1>2, <1>3, <1>4, <1>5 DEF CallInv

\* So does every step.
LEMMA StepKeepsCalls ==
  ASSUME NEW d, Inv(d), NEW e, Inv(e)', CallInv, [Next]_vars
  PROVE  CallInv'
<1>1. CASE Produce
  BY <1>1, ProduceKeepsCalls
<1>2. CASE Consume
  BY <1>2, ConsumeKeepsCalls
<1>3. CASE Destroy
  BY <1>3 DEF Destroy, PGoes, CGoes, CallInv, TakingInv, SawInv, AheadInv, PermitInv,
              PromiseInv
<1>4. CASE Done \/ UNCHANGED vars
  <2>1. UNCHANGED vars
    BY <1>4 DEF Done
  <2>2. /\ UNCHANGED <<blocks, sizeMask, next, front, tail, data, tailBlock,
                       frontBlock, cPc, cOp, waiting, blocking, permits, pPc,
                       promised>>
    BY <2>1 DEF vars, shapeVars, consumerVars, producerVars, fixedVars
  <2>3. Elements' = Elements
    BY <2>2, QuietKeepsAll, ElementsAfter
  <2> QED BY <2>2, <2>3 DEF CallInv, TakingInv, SawInv, AheadInv, PermitInv,
                            PromiseInv, Held, Unsignalled
<1> QED BY <1>1, <1>2, <1>3, <1>4 DEF Next

\* A call that gives up has a reason, for every size and in every interleaving:
\* try_enqueue has found at least size elements, try_dequeue and peek gave up on
\* an empty queue, and whoever holds a permit of the semaphore is not refused.
THEOREM RefusalsHaveReasons == Spec => RefusalsAreRight
<1> DEFINE Right == /\ pPc = "full" /\ pPc' = "idle" => promised
                    /\ cPc = "check" /\ cPc' = "idle" =>
                         ~waiting /\ ~(blocking /\ cOp = "dequeue")
<1>1. (\E d : Inv(d)) /\ (\E d : Inv(d))' /\ CallInv /\ [Next]_vars => CallInv'
  BY StepKeepsCalls
<1>2. CallInv /\ [Next]_vars => [Right]_vars
  <2> SUFFICES ASSUME CallInv, Next PROVE Right
    OBVIOUS
  <2>1. ASSUME pPc = "full", pPc' = "idle" PROVE promised
    <3>1. RefuseEnqueue
      BY <2>1 DEF Next, Produce, Consume, EnqueueRoom, EnqueueReadFront, Write,
           Publish, NextIsFree, WriteAhead, PublishAhead, MakeBlock, Link, Advance,
           SignalOne, PGoes, CallConsumer, StartLocal, StartReadTail,
           CheckTailBlock, RefuseDequeue, Recheck, PeekNext, ReadNext, EnterNext,
           TakeOut, Bump, UnchangedByConsumer, producerVars, Destroy, Done, vars
    <3> QED BY <3>1, <2>1 DEF RefuseEnqueue, CallInv, PromiseInv
  <2>2. ASSUME cPc = "check", cPc' = "idle"
        PROVE  ~waiting /\ ~(blocking /\ cOp = "dequeue")
    <3>1. RefuseDequeue
      BY <2>2 DEF Next, Produce, Consume, EnqueueRoom, EnqueueReadFront, Write,
           Publish, NextIsFree, WriteAhead, PublishAhead, MakeBlock, Link, Advance,
           RefuseEnqueue, SignalOne, UnchangedByProducer, consumerVars,
           CallConsumer, StartLocal, StartReadTail, CheckTailBlock, Recheck,
           PeekNext, ReadNext, EnterNext, TakeOut, Bump, CGoes, Destroy, Done, vars
    <3> QED BY <3>1, <2>2 DEF RefuseDequeue, CallInv, AheadInv
  <2> QED BY <2>1, <2>2
<1>3. Spec => []CallInv
  BY InitCalls, Always, <1>1, PTL DEF Spec
<1> QED BY <1>2, <1>3, PTL DEF Spec, RefusalsAreRight
=============================================================================
