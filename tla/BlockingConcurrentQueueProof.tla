-------------------- MODULE BlockingConcurrentQueueProof --------------------
(***************************************************************************)
(* The accounting of BlockingConcurrentQueue's one semaphore, for any      *)
(* number of producers and consumers and bulk operations of any length.    *)
(***************************************************************************)
EXTENDS BlockingConcurrentQueue, FiniteSetTheorems, TLAPS

-----------------------------------------------------------------------------
(* Sums, and how they change with one of their summands.                   *)

\* A sum as a set of cells, a row of them for each summand.
Row(f, x) == {x} \X (1 .. f[x])
Cells(S, f) == UNION {Row(f, x) : x \in S}

\* A sum is counted out in as many cells as the summands have units, and they
\* are finitely many.
LEMMA CellsAreFinite ==
  ASSUME NEW S, IsFiniteSet(S), NEW f \in [S -> Nat]
  PROVE  /\ IsFiniteSet(Cells(S, f)) /\ Total(S, f) = Cardinality(Cells(S, f))
         /\ \A x \in S : IsFiniteSet(Row(f, x)) /\ Cardinality(Row(f, x)) = f[x]
<1>1. \A x \in S : IsFiniteSet(Row(f, x)) /\ Cardinality(Row(f, x)) = f[x]
  <2> TAKE x \in S
  <2>1. f[x] \in Nat
    OBVIOUS
  <2>2. IsFiniteSet({x}) /\ Cardinality({x}) = 1
    BY FS_Singleton
  <2>3. IsFiniteSet(1 .. f[x]) /\ Cardinality(1 .. f[x]) = f[x]
    BY <2>1, FS_Interval
  <2>4. /\ IsFiniteSet({x} \X (1 .. f[x]))
        /\ Cardinality({x} \X (1 .. f[x])) = Cardinality({x}) * Cardinality(1 .. f[x])
    BY <2>2, <2>3, FS_Product
  <2>5. Cardinality({x}) * Cardinality(1 .. f[x]) = f[x]
    BY <2>1, <2>2, <2>3
  <2> QED
    BY <2>4, <2>5 DEF Row
<1>2. IsFiniteSet({Row(f, x) : x \in S})
  <2> DEFINE rows == {Row(f, x) : x \in S}
             h == [x \in S |-> Row(f, x)]
  <2>1. h \in Surjection(S, rows)
    BY DEF Surjection
  <2> QED
    BY <2>1, FS_Surjection
<1>3. IsFiniteSet(Cells(S, f))
  BY <1>1, <1>2, FS_UNION DEF Cells
<1> QED
  BY <1>1, <1>3 DEF Total, Cells, Row

\* If one summand changes the sum changes by as much.
LEMMA TotalChanges ==
  ASSUME NEW S, IsFiniteSet(S), NEW f \in [S -> Nat], NEW x \in S,
         NEW k \in Nat, NEW g, g = [f EXCEPT ![x] = k]
  PROVE  /\ Total(S, f) \in Nat /\ Total(S, g) \in Nat
         /\ Total(S, g) = (Total(S, f) - f[x]) + k
<1> DEFINE rest == Cells(S, f) \ Row(f, x)
<1>1. g \in [S -> Nat] /\ g[x] = k /\ \A y \in S \ {x} : g[y] = f[y]
  OBVIOUS
<1>2. rest = Cells(S, g) \ Row(g, x)
  BY <1>1 DEF Cells, Row
<1>3. Row(f, x) \subseteq Cells(S, f) /\ Row(g, x) \subseteq Cells(S, g)
  BY DEF Cells
<1>4. Cells(S, f) \cap Row(f, x) = Row(f, x) /\ Cells(S, g) \cap Row(g, x) = Row(g, x)
  BY <1>3
<1>5. /\ Cardinality(rest) = Cardinality(Cells(S, f)) - f[x]
      /\ Cardinality(Cells(S, f)) \in Nat
  <2>1. /\ IsFiniteSet(Cells(S, f)) /\ Cardinality(Row(f, x)) = f[x]
    BY CellsAreFinite
  <2>2. Cardinality(Cells(S, f)) \in Nat
    BY <2>1, FS_CardinalityType
  <2>3. Cardinality(Cells(S, f) \ Row(f, x))
          = Cardinality(Cells(S, f)) - Cardinality(Cells(S, f) \cap Row(f, x))
    BY <2>1, FS_Difference
  <2> QED
    BY <1>4, <2>1, <2>2, <2>3
<1>6. /\ Cardinality(rest) = Cardinality(Cells(S, g)) - k
      /\ Cardinality(Cells(S, g)) \in Nat
  <2>1. /\ IsFiniteSet(Cells(S, g)) /\ Cardinality(Row(g, x)) = k
    BY <1>1, CellsAreFinite
  <2>2. Cardinality(Cells(S, g)) \in Nat
    BY <2>1, FS_CardinalityType
  <2>3. Cardinality(Cells(S, g) \ Row(g, x))
          = Cardinality(Cells(S, g)) - Cardinality(Cells(S, g) \cap Row(g, x))
    BY <2>1, FS_Difference
  <2> QED
    BY <1>2, <1>4, <2>1, <2>2, <2>3
<1>7. Total(S, f) = Cardinality(Cells(S, f)) /\ Total(S, g) = Cardinality(Cells(S, g))
  BY <1>1, CellsAreFinite
<1> QED
  BY <1>1, <1>5, <1>6, <1>7

\* A sum of zeros is zero.
LEMMA TotalOfNone ==
  ASSUME NEW S, NEW f, \A x \in S : f[x] = 0
  PROVE  Total(S, f) = 0
<1>1. UNION {{x} \X (1 .. f[x]) : x \in S} = {}
  <2>1. \A x \in S : 1 .. f[x] = {}
    OBVIOUS
  <2> QED
    BY <2>1
<1> QED
  BY <1>1, FS_EmptySet DEF Total

-----------------------------------------------------------------------------
(* The parts of the invariant.                                             *)

\* Every element is accounted for by one permit ...
ElementsBalance ==
  size = count + Total(Producers, Unsignalled) + Total(Consumers, owed)
           + Cardinality(Waiting)

\* ... and every waiter the count no longer speaks of by a post.
PostsBalance ==
  kernel + Total(Producers, Unposted)
    = Cardinality(Waiting) - (IF count < 0 THEN -count ELSE 0)

\* A consumer owes itself elements only between its permits and its dequeue.
HoldersKnown ==
  \A c \in Consumers : /\ cPc[c] = "more" => owed[c] = 1
                       /\ owed[c] > 0 => cPc[c] \in {"more", "redeem"}
                       /\ cPc[c] # "idle" => max[c] > 0

\* The invariant is these parts.
LEMMA PermitsInvParts ==
  PermitsInv <=> TypeOK /\ ElementsBalance /\ PostsBalance /\ HoldersKnown
BY DEF PermitsInv, ElementsBalance, PostsBalance, HoldersKnown

\* The sums are natural numbers, and the waiters finitely many.
LEMMA SumsAreNat ==
  ASSUME TypeOK
  PROVE  /\ Total(Producers, Unsignalled) \in Nat
         /\ Total(Producers, Unposted) \in Nat
         /\ Total(Consumers, owed) \in Nat
         /\ IsFiniteSet(Waiting) /\ Cardinality(Waiting) \in Nat
         /\ Unsignalled \in [Producers -> Nat] /\ Unposted \in [Producers -> Nat]
<1>1. Unsignalled \in [Producers -> Nat] /\ Unposted \in [Producers -> Nat]
  BY DEF TypeOK, Unsignalled, Unposted
<1>2. IsFiniteSet(Producers) /\ IsFiniteSet(Consumers)
  BY BlockingConstants DEF BlockingConstants
<1>3. owed \in [Consumers -> Nat]
  BY DEF TypeOK
<1>4. /\ Total(Producers, Unsignalled) = Cardinality(Cells(Producers, Unsignalled))
      /\ IsFiniteSet(Cells(Producers, Unsignalled))
  BY <1>1, <1>2, CellsAreFinite
<1>5. /\ Total(Producers, Unposted) = Cardinality(Cells(Producers, Unposted))
      /\ IsFiniteSet(Cells(Producers, Unposted))
  BY <1>1, <1>2, CellsAreFinite
<1>6. /\ Total(Consumers, owed) = Cardinality(Cells(Consumers, owed))
      /\ IsFiniteSet(Cells(Consumers, owed))
  BY <1>2, <1>3, CellsAreFinite
<1>7. IsFiniteSet(Waiting)
  BY <1>2, FS_Subset DEF Waiting
<1> QED
  BY <1>1, <1>4, <1>5, <1>6, <1>7, FS_CardinalityType

\* Initially there is nothing to count.
LEMMA InitPermits == Init => PermitsInv
<1> SUFFICES ASSUME Init PROVE PermitsInv
  OBVIOUS
<1>1. TypeOK /\ HoldersKnown
  BY BlockingConstants DEF BlockingConstants, Init, TypeOK, HoldersKnown
<1>2. /\ Total(Producers, Unsignalled) = 0 /\ Total(Producers, Unposted) = 0
      /\ Total(Consumers, owed) = 0
  <2>1. \A p \in Producers : Unsignalled[p] = 0 /\ Unposted[p] = 0
    BY DEF Init, Unsignalled, Unposted
  <2>2. \A c \in Consumers : owed[c] = 0
    BY DEF Init
  <2> QED
    BY <2>1, <2>2, TotalOfNone
<1>3. Cardinality(Waiting) = 0
  <2>1. Waiting = {}
    BY DEF Init, Waiting
  <2> QED
    BY <2>1, FS_EmptySet
<1>4. ElementsBalance /\ PostsBalance
  BY <1>2, <1>3 DEF Init, ElementsBalance, PostsBalance
<1> QED
  BY <1>1, <1>4, PermitsInvParts

-----------------------------------------------------------------------------
(* What one thread's step does to the sums.                                *)

\* A producer's step changes the producers' sums by its own summands.
LEMMA ProducerSums ==
  ASSUME TypeOK, TypeOK', NEW p \in Producers,
         \A r \in Producers \ {p} : pPc'[r] = pPc[r] /\ n'[r] = n[r]
  PROVE  /\ Total(Producers, Unsignalled)'
              = (Total(Producers, Unsignalled) - Unsignalled[p]) + Unsignalled'[p]
         /\ Total(Producers, Unposted)'
              = (Total(Producers, Unposted) - Unposted[p]) + Unposted'[p]
<1>1. IsFiniteSet(Producers)
  BY BlockingConstants DEF BlockingConstants
<1>2. /\ Unsignalled \in [Producers -> Nat] /\ Unposted \in [Producers -> Nat]
      /\ Unsignalled'[p] \in Nat /\ Unposted'[p] \in Nat
  BY DEF TypeOK, Unsignalled, Unposted
<1>3. Unsignalled' = [Unsignalled EXCEPT ![p] = Unsignalled'[p]]
  BY DEF TypeOK, Unsignalled
<1>4. Unposted' = [Unposted EXCEPT ![p] = Unposted'[p]]
  BY DEF TypeOK, Unposted
<1>5. Total(Producers, Unsignalled)' = Total(Producers, Unsignalled')
      /\ Total(Producers, Unposted)' = Total(Producers, Unposted')
  BY DEF Total
<1>6. Total(Producers, Unsignalled')
        = (Total(Producers, Unsignalled) - Unsignalled[p]) + Unsignalled'[p]
  BY <1>1, <1>2, <1>3, TotalChanges
<1>7. Total(Producers, Unposted')
        = (Total(Producers, Unposted) - Unposted[p]) + Unposted'[p]
  BY <1>1, <1>2, <1>4, TotalChanges
<1> QED
  BY <1>5, <1>6, <1>7

\* A consumer's step changes the sum of what is owed by what it owes, and the
\* number of waiters by itself.
LEMMA ConsumerSums ==
  ASSUME TypeOK, TypeOK', NEW c \in Consumers,
         \A d \in Consumers \ {c} : cPc'[d] = cPc[d] /\ owed'[d] = owed[d]
  PROVE  /\ Total(Consumers, owed)' = (Total(Consumers, owed) - owed[c]) + owed'[c]
         /\ Cardinality(Waiting)'
              = (Cardinality(Waiting) - (IF c \in Waiting THEN 1 ELSE 0))
                  + (IF c \in Waiting' THEN 1 ELSE 0)
<1>1. IsFiniteSet(Consumers)
  BY BlockingConstants DEF BlockingConstants
<1>2. /\ owed \in [Consumers -> Nat] /\ owed'[c] \in Nat
      /\ owed' = [owed EXCEPT ![c] = owed'[c]]
  BY DEF TypeOK
<1>3. Total(Consumers, owed)' = (Total(Consumers, owed) - owed[c]) + owed'[c]
  <2>1. Total(Consumers, owed') = (Total(Consumers, owed) - owed[c]) + owed'[c]
    BY <1>1, <1>2, TotalChanges
  <2> QED
    BY <2>1 DEF Total
<1>4. Cardinality(Waiting)'
        = (Cardinality(Waiting) - (IF c \in Waiting THEN 1 ELSE 0))
            + (IF c \in Waiting' THEN 1 ELSE 0)
  <2>1. IsFiniteSet(Waiting) /\ Cardinality(Waiting) \in Nat
    BY SumsAreNat
  <2>2. CASE c \in Waiting'
    <3>1. Waiting' = Waiting \cup {c}
      BY <2>2 DEF Waiting
    <3>2. Cardinality(Waiting \cup {c})
            = IF c \in Waiting THEN Cardinality(Waiting) ELSE Cardinality(Waiting) + 1
      BY <2>1, FS_AddElement
    <3> QED
      BY <2>1, <2>2, <3>1, <3>2
  <2>3. CASE c \notin Waiting'
    <3>1. Waiting' = Waiting \ {c}
      BY <2>3 DEF Waiting
    <3>2. Cardinality(Waiting \ {c})
            = IF c \in Waiting THEN Cardinality(Waiting) - 1 ELSE Cardinality(Waiting)
      BY <2>1, FS_RemoveElement
    <3> QED
      BY <2>1, <2>3, <3>1, <3>2
  <2> QED
    BY <2>2, <2>3
<1> QED
  BY <1>3, <1>4

-----------------------------------------------------------------------------
(* The steps.                                                              *)

\* A producer keeps the types and what is known of consumers, and changes
\* nothing of another producer.
LEMMA ProducerTypes ==
  ASSUME TypeOK, HoldersKnown, NEW p \in Producers, Enqueue(p) \/ ProducerStep(p)
  PROVE  /\ TypeOK' /\ HoldersKnown'
         /\ \A r \in Producers \ {p} : pPc'[r] = pPc[r] /\ n'[r] = n[r]
<1>1. CASE Enqueue(p)
  BY <1>1 DEF Enqueue, PGoes, TypeOK, HoldersKnown, consumerVars
<1>2. CASE Signal(p)
  BY <1>2 DEF Signal, PGoes, Lesser, TypeOK, HoldersKnown, consumerVars
<1>3. CASE Post(p)
  BY <1>3 DEF Post, PGoes, TypeOK, HoldersKnown, consumerVars
<1>4. CASE EnqueueReturns(p)
  BY <1>4 DEF EnqueueReturns, PGoes, TypeOK, HoldersKnown, consumerVars
<1> QED
  BY <1>1, <1>2, <1>3, <1>4 DEF ProducerStep

\* A consumer does so too, and changes nothing of another consumer.
LEMMA ConsumerTypes ==
  ASSUME TypeOK, HoldersKnown, NEW c \in Consumers,
         Call(c) \/ TimeOut(c) \/ ConsumerStep(c)
  PROVE  /\ TypeOK' /\ HoldersKnown'
         /\ \A d \in Consumers \ {c} : cPc'[d] = cPc[d] /\ owed'[d] = owed[d]
<1> USE BlockingConstants DEF BlockingConstants
<1>1. CASE Call(c)
  BY <1>1 DEF Call, CGoes, TypeOK, HoldersKnown, producerVars
<1>2. CASE TimeOut(c)
  BY <1>2 DEF TimeOut, CGoes, TypeOK, HoldersKnown, producerVars
<1>3. CASE Take(c)
  BY <1>3 DEF Take, CGoes, Lesser, TypeOK, HoldersKnown, producerVars
<1>4. CASE Refuse(c)
  BY <1>4 DEF Refuse, CGoes, TypeOK, HoldersKnown, producerVars
<1>5. CASE LateTake(c)
  BY <1>5 DEF LateTake, CGoes, Granted, TypeOK, HoldersKnown, producerVars
<1>6. CASE Announce(c)
  BY <1>6 DEF Announce, CGoes, TypeOK, HoldersKnown, producerVars
<1>7. CASE Wake(c)
  BY <1>7 DEF Wake, CGoes, Granted, KernelGrants, TypeOK, HoldersKnown, producerVars
<1>8. CASE TakeBack(c)
  BY <1>8 DEF TakeBack, CGoes, TypeOK, HoldersKnown, producerVars
<1>9. CASE SeeAnswer(c)
  BY <1>9 DEF SeeAnswer, CGoes, TypeOK, HoldersKnown, producerVars
<1>10. CASE Retry(c)
  BY <1>10 DEF Retry, CGoes, Granted, KernelGrants, TypeOK, HoldersKnown, producerVars
<1>11. CASE TakeMore(c)
  BY <1>11 DEF TakeMore, CGoes, Lesser, TypeOK, HoldersKnown, producerVars
<1>12. CASE Redeem(c)
  BY <1>12 DEF Redeem, CGoes, Lesser, TypeOK, HoldersKnown, producerVars
<1>13. CASE DequeueReturns(c)
  BY <1>13 DEF DequeueReturns, CGoes, TypeOK, HoldersKnown, producerVars
<1> QED
  BY <1>1, <1>2, <1>3, <1>4, <1>5, <1>6, <1>7, <1>8, <1>9, <1>10, <1>11, <1>12, <1>13
    DEF ConsumerStep

\* A producer adds to both sides of each balance alike: signal() posts for
\* exactly the waiters it lifts the count over.
LEMMA ProducerBalances ==
  ASSUME PermitsInv, NEW p \in Producers, Enqueue(p) \/ ProducerStep(p)
  PROVE  PermitsInv'
<1>1. TypeOK /\ ElementsBalance /\ PostsBalance /\ HoldersKnown
  BY PermitsInvParts
<1>2. /\ TypeOK' /\ HoldersKnown'
      /\ \A r \in Producers \ {p} : pPc'[r] = pPc[r] /\ n'[r] = n[r]
  BY <1>1, ProducerTypes
<1>3. /\ Total(Producers, Unsignalled)'
           = (Total(Producers, Unsignalled) - Unsignalled[p]) + Unsignalled'[p]
      /\ Total(Producers, Unposted)'
           = (Total(Producers, Unposted) - Unposted[p]) + Unposted'[p]
  BY <1>1, <1>2, ProducerSums
<1>4. /\ Unsignalled[p] = IF pPc[p] = "signal" THEN n[p] ELSE 0
      /\ Unposted[p] = IF pPc[p] = "post" THEN n[p] ELSE 0
      /\ Unsignalled'[p] = IF pPc'[p] = "signal" THEN n'[p] ELSE 0
      /\ Unposted'[p] = IF pPc'[p] = "post" THEN n'[p] ELSE 0
  BY DEF Unsignalled, Unposted
<1>5. /\ Total(Consumers, owed)' = Total(Consumers, owed)
      /\ Cardinality(Waiting)' = Cardinality(Waiting)
  <2>1. UNCHANGED consumerVars
    BY DEF ProducerStep, Enqueue, Signal, Post, EnqueueReturns
  <2>2. owed' = owed /\ Waiting' = Waiting
    BY <2>1 DEF consumerVars, Waiting
  <2> QED
    BY <2>2 DEF Total
<1>6. /\ Total(Producers, Unsignalled) \in Nat /\ Total(Producers, Unposted) \in Nat
      /\ Total(Consumers, owed) \in Nat /\ Cardinality(Waiting) \in Nat
  BY <1>1, SumsAreNat
<1>7. n[p] \in Nat /\ count \in Int /\ kernel \in Nat /\ size \in Nat
      /\ pPc \in [Producers -> {"idle", "signal", "post"}] /\ n \in [Producers -> Nat]
  BY <1>1 DEF TypeOK
<1>8. ElementsBalance' /\ PostsBalance'
  <2>1. CASE Enqueue(p)
    BY <1>1, <1>3, <1>4, <1>5, <1>6, <1>7, <2>1
       DEF Enqueue, PGoes, ElementsBalance, PostsBalance
  <2>2. CASE Signal(p)
    BY <1>1, <1>3, <1>4, <1>5, <1>6, <1>7, <2>2
       DEF Signal, PGoes, Lesser, ElementsBalance, PostsBalance
  <2>3. CASE Post(p)
    BY <1>1, <1>3, <1>4, <1>5, <1>6, <1>7, <2>3
       DEF Post, PGoes, ElementsBalance, PostsBalance
  <2>4. CASE EnqueueReturns(p)
    BY <1>1, <1>3, <1>4, <1>5, <1>6, <1>7, <2>4
       DEF EnqueueReturns, PGoes, ElementsBalance, PostsBalance
  <2> QED
    BY <2>1, <2>2, <2>3, <2>4 DEF ProducerStep
<1> QED
  BY <1>2, <1>8
    DEF PermitsInv, ElementsBalance, PostsBalance, HoldersKnown

\* A consumer moves permits between the count, what it is owed and the
\* waiters, also when its time is up while a producer answers it.
LEMMA ConsumerBalances ==
  ASSUME PermitsInv, NEW c \in Consumers,
         Call(c) \/ TimeOut(c) \/ ConsumerStep(c)
  PROVE  PermitsInv'
<1>1. TypeOK /\ ElementsBalance /\ PostsBalance /\ HoldersKnown
  BY PermitsInvParts
<1>2. /\ TypeOK' /\ HoldersKnown'
      /\ \A d \in Consumers \ {c} : cPc'[d] = cPc[d] /\ owed'[d] = owed[d]
  BY <1>1, ConsumerTypes
<1>3. /\ Total(Consumers, owed)' = (Total(Consumers, owed) - owed[c]) + owed'[c]
      /\ Cardinality(Waiting)'
           = (Cardinality(Waiting) - (IF c \in Waiting THEN 1 ELSE 0))
               + (IF c \in Waiting' THEN 1 ELSE 0)
  BY <1>1, <1>2, ConsumerSums
<1>4. /\ c \in Waiting <=> cPc[c] \in {"sleep", "restore", "retry"}
      /\ c \in Waiting' <=> cPc'[c] \in {"sleep", "restore", "retry"}
  BY DEF Waiting
<1>5. /\ Total(Producers, Unsignalled)' = Total(Producers, Unsignalled)
      /\ Total(Producers, Unposted)' = Total(Producers, Unposted)
  <2>1. UNCHANGED producerVars
    BY DEF Call, TimeOut, ConsumerStep, Take, Refuse, LateTake, Announce,
           Wake, TakeBack, SeeAnswer, Retry, TakeMore, Redeem, DequeueReturns
  <2>2. Unsignalled' = Unsignalled /\ Unposted' = Unposted
    BY <2>1 DEF producerVars, Unsignalled, Unposted
  <2> QED
    BY <2>2 DEF Total
<1>6. /\ Total(Producers, Unsignalled) \in Nat /\ Total(Producers, Unposted) \in Nat
      /\ Total(Consumers, owed) \in Nat /\ Cardinality(Waiting) \in Nat
  BY <1>1, SumsAreNat
<1>7. /\ count \in Int /\ kernel \in Nat /\ size \in Nat
      /\ cPc \in [Consumers -> {"idle", "acquire", "sleep", "restore", "retry",
                                "more", "redeem"}]
      /\ owed \in [Consumers -> Nat] /\ max[c] \in Nat
  BY <1>1, BlockingConstants DEF TypeOK, BlockingConstants
<1>8. /\ cPc[c] = "more" => owed[c] = 1
      /\ owed[c] > 0 => cPc[c] \in {"more", "redeem"}
      /\ cPc[c] # "idle" => max[c] > 0
  BY <1>1 DEF HoldersKnown
<1>9. ElementsBalance' /\ PostsBalance'
  <2> USE <1>1, <1>3, <1>4, <1>5, <1>6, <1>7, <1>8
      DEF ElementsBalance, PostsBalance
  <2>1. CASE Call(c)
    BY <2>1 DEF Call, CGoes
  <2>2. CASE TimeOut(c)
    BY <2>2 DEF TimeOut, CGoes
  <2>3. CASE Take(c)
    BY <2>3 DEF Take, CGoes, Lesser
  <2>4. CASE Refuse(c)
    BY <2>4 DEF Refuse, CGoes
  <2>5. CASE LateTake(c)
    BY <2>5 DEF LateTake, CGoes, Granted
  <2>6. CASE Announce(c)
    BY <2>6 DEF Announce, CGoes
  <2>7. CASE Wake(c)
    BY <2>7 DEF Wake, CGoes, Granted, KernelGrants
  <2>8. CASE TakeBack(c)
    BY <2>8 DEF TakeBack, CGoes
  <2>9. CASE SeeAnswer(c)
    BY <2>9 DEF SeeAnswer, CGoes
  <2>10. CASE Retry(c)
    BY <2>10 DEF Retry, CGoes, Granted, KernelGrants
  <2>11. CASE TakeMore(c)
    BY <2>11 DEF TakeMore, CGoes, Lesser
  <2>12. CASE Redeem(c)
    BY <2>12 DEF Redeem, CGoes, Lesser
  <2>13. CASE DequeueReturns(c)
    BY <2>13 DEF DequeueReturns, CGoes
  <2> QED
    BY <2>1, <2>2, <2>3, <2>4, <2>5, <2>6, <2>7, <2>8, <2>9, <2>10, <2>11, <2>12, <2>13
       DEF ConsumerStep
<1> QED
  BY <1>2, <1>9
    DEF PermitsInv, ElementsBalance, PostsBalance, HoldersKnown

\* Whatever the number of threads, and however bulk operations, timeouts and
\* signals interleave: elements and permits match, and every waiter the count
\* has answered gets, or has got, its post from the kernel.
THEOREM PermitsAreKept == Spec => []PermitsInv
<1>1. Init => PermitsInv
  BY InitPermits
<1>2. PermitsInv /\ [Next]_vars => PermitsInv'
  <2> SUFFICES ASSUME PermitsInv, [Next]_vars PROVE PermitsInv'
    OBVIOUS
  <2>1. ASSUME NEW p \in Producers, Enqueue(p) \/ ProducerStep(p)
        PROVE  PermitsInv'
    BY <2>1, ProducerBalances
  <2>2. ASSUME NEW c \in Consumers, Call(c) \/ TimeOut(c) \/ ConsumerStep(c)
        PROVE  PermitsInv'
    BY <2>2, ConsumerBalances
  <2>3. CASE UNCHANGED vars
    BY <2>3 DEF vars, producerVars, consumerVars, PermitsInv, TypeOK, Total,
                Unsignalled, Unposted, Waiting
  <2> QED
    BY <2>1, <2>2, <2>3 DEF Next
<1> QED
  BY <1>1, <1>2, PTL DEF Spec
=============================================================================
