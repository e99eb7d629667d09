--------------------------- MODULE HeartbeatProof ---------------------------
(***************************************************************************)
(* Proofs about the heartbeats.  First about Heartbeat, when they are      *)
(* sent, for every length of a second and of the lease, every lateness and *)
(* every number of losses that fit in the lease.  Then about InetChecksum, *)
(* the checksum they are sent with, for bytes of every size and messages   *)
(* of every length below MaxLen.  Last about FrameRx, how they and other   *)
(* frames are received, for every set of frame lengths, declared payload   *)
(* lengths and heartbeat contents.                                         *)
(***************************************************************************)
EXTENDS Heartbeat, InetChecksum, FrameRx, WellFoundedInduction, SequenceTheorems,
        TLAPS

\* The longest time between two heartbeats.
Gap == Second + MaxLate

\* A heartbeat that is due waits only for the late loop: once a second has
\* passed, the time over it and the lateness grow together.
DueIsSoon == sinceHb >= Second => sinceHb - Second <= lag

\* What the peer has not heard for is the time of the lost heartbeats and of
\* the one to come.
HeardBound == known => sinceHeard <= lost * Gap + sinceHb

\* A heartbeat sent now leaves the next one not due now.
BurstBound == sentNow <= 1 /\ (sentNow = 1 => sinceHb = 0)

IInv == TypeOK /\ DueIsSoon /\ HeardBound /\ BurstBound

\* Numbers of the proofs.
LEMMA Constants ==
  /\ Second \in Nat /\ Second > 0 /\ Lease \in Nat
  /\ MaxLate \in Nat /\ MaxLost \in Nat /\ Gap \in Nat
  /\ (MaxLost + 1) * Gap <= Lease
BY HeartbeatConstants DEF HeartbeatConstants, Gap

\* Losing one more heartbeat adds one gap.
LEMMA OneMoreGap ==
  ASSUME NEW n \in Nat PROVE (n + 1) * Gap = n * Gap + Gap /\ n * Gap \in Nat
BY Constants

\* Less lost heartbeats take less time.
LEMMA GapsGrow ==
  ASSUME NEW n \in Nat, NEW m \in Nat, n <= m
  PROVE  n * Gap <= m * Gap
BY Constants

\* The invariant holds when run() starts the loop.
LEMMA InitIInv == Init => IInv
<1> SUFFICES ASSUME Init PROVE IInv
  OBVIOUS
<1> USE Constants DEF Init
<1>1. sinceHb \in Nat /\ lag \in -1 .. MaxLate /\ sentNow \in Nat
  OBVIOUS
<1>2. known \in BOOLEAN /\ known = FALSE
  OBVIOUS
<1>3. sinceHeard \in Nat /\ lost \in 0 .. MaxLost
  OBVIOUS
<1>4. DueIsSoon /\ BurstBound BY DEF DueIsSoon, BurstBound
<1>5. HeardBound BY <1>2 DEF HeardBound
<1> QED BY <1>1, <1>2, <1>3, <1>4, <1>5 DEF IInv, TypeOK

\* Time preserves the invariant.
LEMMA TickKeeps == ASSUME IInv, Tick PROVE IInv'
<1> USE Constants DEF Tick
<1>1. TypeOK' BY DEF IInv, TypeOK
<1>2. DueIsSoon'
  BY DEF IInv, TypeOK, DueIsSoon
<1>3. HeardBound'
  <2>1. lost * Gap \in Nat BY OneMoreGap DEF IInv, TypeOK
  <2> QED BY <2>1 DEF IInv, TypeOK, HeardBound
<1>4. BurstBound' BY DEF BurstBound
<1> QED BY <1>1, <1>2, <1>3, <1>4 DEF IInv

\* A handler that sends preserves it.
LEMMA SendKeeps == ASSUME IInv, UpdateSends PROVE IInv'
<1> USE Constants DEF UpdateSends, Due, Mark, Rearm, Send
<1>1. TypeOK'
  <2>1. sinceHb' \in Nat /\ lag' \in -1 .. MaxLate /\ sentNow' \in Nat
    BY DEF IInv, TypeOK
  <2>2. known' \in BOOLEAN BY DEF IInv, TypeOK
  <2>3. sinceHeard' \in Nat /\ lost' \in 0 .. MaxLost
    BY DEF IInv, TypeOK
  <2> QED BY <2>1, <2>2, <2>3 DEF TypeOK
<1>2. DueIsSoon' BY DEF DueIsSoon
<1>3. HeardBound'
  <2>1. lost \in Nat /\ sinceHb \in Nat /\ sinceHb <= Gap /\ sinceHeard \in Nat
    BY DEF IInv, TypeOK, DueIsSoon, Gap
  <2>2. lost * Gap \in Nat /\ (lost + 1) * Gap = lost * Gap + Gap
    BY <2>1, OneMoreGap
  <2>3. CASE sinceHeard' = 0 /\ lost' = 0
    <3>1. lost' * Gap \in Nat BY <2>3, OneMoreGap
    <3> QED BY <2>3, <3>1 DEF HeardBound
  <2>4. CASE lost' = lost + 1 /\ UNCHANGED <<known, sinceHeard>>
    <3>1. known => sinceHeard <= lost * Gap + sinceHb
      BY DEF IInv, HeardBound
    <3>2. lost' * Gap = lost * Gap + Gap /\ sinceHb' = 0
      BY <2>2, <2>4
    <3> QED BY <2>1, <2>2, <2>4, <3>1, <3>2 DEF HeardBound
  <2> QED BY <2>3, <2>4
<1>4. BurstBound'
  BY DEF IInv, TypeOK, BurstBound
<1> QED BY <1>1, <1>2, <1>3, <1>4 DEF IInv

\* So does one that does not.
LEMMA UpdateKeeps == ASSUME IInv, UpdateOnly PROVE IInv'
<1> USE Constants DEF UpdateOnly, Due, Rearm
<1>1. TypeOK' BY DEF IInv, TypeOK
<1>2. DueIsSoon' /\ HeardBound' /\ BurstBound'
  BY DEF IInv, TypeOK, DueIsSoon, HeardBound, BurstBound
<1> QED BY <1>1, <1>2 DEF IInv

\* The inductive invariant is an invariant of the specification.
LEMMA IInvHolds == Spec => []IInv
<1>1. IInv /\ UNCHANGED vars => IInv'
  BY DEF IInv, TypeOK, DueIsSoon, HeardBound, BurstBound, vars
<1>2. IInv /\ [Next]_vars => IInv'
  BY <1>1, TickKeeps, SendKeeps, UpdateKeeps DEF Next
<1> QED BY <1>2, InitIInv, PTL DEF Spec
-----------------------------------------------------------------------------
\* Every variable has its type.
THEOREM TypeCorrect == Spec => []TypeOK
<1>1. IInv => TypeOK BY DEF IInv
<1> QED BY <1>1, IInvHolds, PTL

\* However late the loop is, it catches up with one heartbeat.
THEOREM CatchingUpSendsOne == Spec => []NoBurst
<1>1. IInv => NoBurst BY DEF IInv, BurstBound, NoBurst
<1> QED BY <1>1, IInvHolds, PTL

\* A peer keeps the node alive whenever the losses and the lateness fit in
\* the lease: (MaxLost + 1) * (Second + MaxLate) <= Lease.
THEOREM LeaseIsLongEnough == Spec => []LeaseHolds
<1>1. ASSUME IInv PROVE LeaseHolds
  <2>1. /\ lost \in Nat /\ lost <= MaxLost /\ sinceHb \in Nat
        /\ sinceHb <= Gap /\ sinceHeard \in Nat
    BY <1>1, Constants DEF IInv, TypeOK, DueIsSoon, Gap
  <2>2. lost * Gap \in Nat /\ MaxLost * Gap \in Nat
        /\ lost * Gap <= MaxLost * Gap
    BY <2>1, Constants, OneMoreGap, GapsGrow
  <2>3. MaxLost * Gap + Gap <= Lease
    BY Constants, OneMoreGap
  <2>4. known => sinceHeard <= lost * Gap + sinceHb
    BY <1>1 DEF IInv, HeardBound
  <2> QED BY <2>1, <2>2, <2>3, <2>4, Constants DEF LeaseHolds
<1> QED BY <1>1, IInvHolds, PTL

-----------------------------------------------------------------------------
(* The checksum.  A sum that fits 16 bits stands for the sum of any size it *)
(* comes from: the two are equal modulo 2^16 - 1, and zero only together.   *)
(* Folding, swapping bytes and adding in another order keep that, and it    *)
(* leaves one value.  A proof about all the sums of a sequence looks at the *)
(* least place where the sums would fail.                                   *)

-----------------------------------------------------------------------------
(* Division.                                                               *)

\* The quotient and the remainder.
LEMMA DivMod ==
  ASSUME NEW a \in Nat, NEW b \in Nat \ {0}
  PROVE  /\ a \div b \in Nat /\ a % b \in 0 .. b - 1
         /\ a = b * (a \div b) + (a % b)
<1>1. PICK q, r : q = a \div b /\ r = a % b
  OBVIOUS
<1>2. q \in Int /\ r \in 0 .. b - 1 /\ a = b * q + r
  BY <1>1, Z3
<1>3. q \in Nat
  <2> SUFFICES ASSUME q < 0 PROVE FALSE
    BY <1>2
  <2>1. PICK l \in Nat : q = 0 - (l + 1)
    <3>1. 0 - q - 1 \in Nat /\ q = 0 - ((0 - q - 1) + 1)
      BY <1>2
    <3> QED BY <3>1
  <2>2. b * q = 0 - b * l - b /\ b * l \in Nat
    BY <1>2, <2>1
  <2> QED BY <1>2, <2>2
<1> QED BY <1>1, <1>2, <1>3

\* There are no others.
LEMMA DivModUnique ==
  ASSUME NEW b \in Nat \ {0}, NEW q \in Nat, NEW r \in 0 .. b - 1, NEW a \in Nat,
         a = b * q + r
  PROVE  a \div b = q /\ a % b = r
<1>1. PICK p, s : p = a \div b /\ s = a % b
  OBVIOUS
<1>2. p \in Nat /\ s \in 0 .. b - 1 /\ a = b * p + s
  BY <1>1, DivMod
<1>3. CASE p < q
  <2>1. PICK l \in Nat : q = p + (l + 1)
    <3>1. q - p - 1 \in Nat /\ q = p + ((q - p - 1) + 1)
      BY <1>2, <1>3
    <3> QED BY <3>1
  <2>2. b * q = b * p + b * l + b /\ b * l \in Nat /\ b * p \in Nat
    BY <1>2, <2>1
  <2> QED BY <1>2, <2>2
<1>4. CASE q < p
  <2>1. PICK l \in Nat : p = q + (l + 1)
    <3>1. p - q - 1 \in Nat /\ p = q + ((p - q - 1) + 1)
      BY <1>2, <1>4
    <3> QED BY <3>1
  <2>2. b * p = b * q + b * l + b /\ b * l \in Nat /\ b * q \in Nat
    BY <1>2, <2>1
  <2> QED BY <1>2, <2>2
<1>5. CASE p = q
  <2>1. b * p = b * q /\ b * q \in Nat
    BY <1>2, <1>5
  <2> QED BY <1>1, <1>2, <1>5, <2>1
<1> QED BY <1>2, <1>3, <1>4, <1>5

-----------------------------------------------------------------------------
(* One's complement arithmetic.                                            *)

M == U16Mod - 1

\* The constants.
LEMMA Moduli ==
  /\ Base \in Nat \ {0} /\ Base > 1
  /\ U16Mod \in Nat \ {0} /\ U16Mod = Base * Base /\ U16Mod >= 4
  /\ M \in Nat \ {0} /\ M >= 3 /\ U16Mod = M + 1
  /\ U32Mod \in Nat \ {0} /\ U32Mod = U16Mod * U16Mod
  /\ MaxLen \in Nat /\ MaxLen <= 2 * U16Mod
<1>1. Base \in Nat /\ Base > 1 /\ MaxLen \in Nat /\ MaxLen <= 2 * U16Mod
  BY ChecksumConstants
<1>2. PICK k \in Nat : Base = k + 2
  <2>1. Base - 2 \in Nat /\ Base = (Base - 2) + 2
    BY <1>1
  <2> QED BY <2>1
<1>3. Base * Base = k * k + 4 * k + 4 /\ k * k \in Nat
  BY <1>2
<1>4. U16Mod \in Nat \ {0} /\ U16Mod = Base * Base /\ U16Mod >= 4
  BY <1>1, <1>3 DEF U16Mod
<1>5. M \in Nat \ {0} /\ M >= 3 /\ U16Mod = M + 1
  BY <1>4 DEF M
<1>6. U32Mod \in Nat \ {0} /\ U32Mod = U16Mod * U16Mod
  <2>1. U32Mod = U16Mod * U16Mod
    BY DEF U32Mod
  <2>2. PICK k2 \in Nat : U16Mod = k2 + 4
    <3>1. U16Mod - 4 \in Nat /\ U16Mod = (U16Mod - 4) + 4
      BY <1>4
    <3> QED BY <3>1
  <2>3. U16Mod * U16Mod = k2 * k2 + 8 * k2 + 16 /\ k2 * k2 \in Nat
    BY <2>2
  <2> QED BY <2>1, <2>2, <2>3
<1> QED BY <1>1, <1>4, <1>5, <1>6

\* Numbers are even or odd.
LEMMA Halves ==
  ASSUME NEW n \in Nat
  PROVE  \E i \in Nat :
           \/ n = 2 * i /\ n % 2 = 0 /\ n \div 2 = i /\ (n + 1) \div 2 = i
           \/ n = 2 * i + 1 /\ n % 2 = 1 /\ n \div 2 = i /\ (n + 1) \div 2 = i + 1
<1>1. PICK i, r : i = n \div 2 /\ r = n % 2
  OBVIOUS
<1>2. i \in Nat /\ r \in 0 .. 1 /\ n = 2 * i + r
  BY <1>1, DivMod
<1>3. CASE r = 0
  <2>1. (n + 1) \div 2 = i
    <3>1. PICK m \in Nat : m = n + 1 /\ m = 2 * i + 1
      BY <1>2, <1>3
    <3>2. 1 \in 0 .. 2 - 1 /\ 2 \in Nat \ {0}
      OBVIOUS
    <3>3. m \div 2 = i
      BY <1>2, <3>1, <3>2, DivModUnique
    <3> QED BY <3>1, <3>3
  <2> QED BY <1>1, <1>2, <1>3, <2>1
<1>4. CASE r = 1
  <2>1. (n + 1) \div 2 = i + 1
    <3>1. PICK m \in Nat, j \in Nat : m = n + 1 /\ j = i + 1 /\ m = 2 * j + 0
      <4>1. n + 1 \in Nat /\ i + 1 \in Nat /\ n + 1 = 2 * (i + 1) + 0
        BY <1>2, <1>4
      <4> QED BY <4>1
    <3>2. 0 \in 0 .. 2 - 1 /\ 2 \in Nat \ {0}
      OBVIOUS
    <3>3. m \div 2 = j
      BY <3>1, <3>2, DivModUnique
    <3> QED BY <3>1, <3>3
  <2> QED BY <1>1, <1>2, <1>4, <2>1
<1> QED BY <1>2, <1>3, <1>4

\* A number is even or odd as its remainder says.
LEMMA Parity ==
  ASSUME NEW i \in Nat
  PROVE  (2 * i) % 2 = 0 /\ (2 * i + 1) % 2 = 1
<1>1. PICK m \in Nat, n \in Nat : m = 2 * i /\ n = 2 * i + 1
  OBVIOUS
<1>2. m = 2 * i + 0 /\ 0 \in 0 .. 2 - 1 /\ 1 \in 0 .. 2 - 1 /\ 2 \in Nat \ {0}
  BY <1>1
<1>3. m % 2 = 0
  BY <1>2, DivModUnique
<1>4. n % 2 = 1
  BY <1>1, <1>2, DivModUnique
<1> QED BY <1>1, <1>3, <1>4

\* Multiples of 2^16 - 1.
Multiple(x) == \E k \in Int : x = k * M

\* They can be added, subtracted and multiplied.
LEMMA Multiples ==
  ASSUME NEW x \in Int, NEW y \in Int, Multiple(x), Multiple(y), NEW c \in Int
  PROVE  Multiple(x + y) /\ Multiple(x - y) /\ Multiple(c * x) /\ Multiple(c * M)
<1>1. PICK k \in Int, l \in Int : x = k * M /\ y = l * M
  BY DEF Multiple
<1>2. M \in Int
  BY Moduli
<1>3. x + y = (k + l) * M /\ k + l \in Int
  BY <1>1, <1>2
<1>4. x - y = (k - l) * M /\ k - l \in Int
  BY <1>1, <1>2
<1>5. c * x = (c * k) * M /\ c * k \in Int
  BY <1>1, <1>2
<1> QED BY <1>3, <1>4, <1>5 DEF Multiple

\* Only zero is one between the modulus and its negative.
LEMMA SmallMultiple ==
  ASSUME NEW x \in Int, Multiple(x), x < M, 0 - M < x PROVE x = 0
<1>1. PICK k \in Int : x = k * M
  BY DEF Multiple
<1>2. M \in Nat
  BY Moduli
<1>3. CASE k >= 1
  <2>1. PICK l \in Nat : k = l + 1
    <3>1. k - 1 \in Nat /\ k = (k - 1) + 1
      BY <1>3
    <3> QED BY <3>1
  <2>2. k * M = l * M + M /\ l * M \in Nat
    BY <1>2, <2>1
  <2> QED BY <1>1, <1>2, <2>2
<1>4. CASE k <= -1
  <2>1. PICK l \in Nat : k = 0 - (l + 1)
    <3>1. 0 - k - 1 \in Nat /\ k = 0 - ((0 - k - 1) + 1)
      BY <1>4
    <3> QED BY <3>1
  <2>2. k * M = 0 - l * M - M /\ l * M \in Nat
    BY <1>2, <2>1
  <2> QED BY <1>1, <1>2, <2>2
<1>5. CASE k = 0
  BY <1>1, <1>2, <1>5
<1> QED BY <1>3, <1>4, <1>5

\* x stands for n in one's complement: both are zero, or neither is and they
\* differ by a multiple of 2^16 - 1.
Same(x, n) == Multiple(n - x) /\ (x = 0 <=> n = 0)

\* So does n itself.
LEMMA SameItself == ASSUME NEW n \in Nat PROVE Same(n, n)
<1>1. n - n = 0 * M
  BY Moduli
<1> QED BY <1>1 DEF Same, Multiple

\* And what stands for something that stands for n.
LEMMA SameThrough ==
  ASSUME NEW x \in Nat, NEW y \in Nat, NEW n \in Nat, Same(x, y), Same(y, n)
  PROVE  Same(x, n)
<1>1. n - x = (n - y) + (y - x) /\ n - y \in Int /\ y - x \in Int
  OBVIOUS
<1>2. Multiple((n - y) + (y - x))
  BY <1>1, Multiples DEF Same
<1> QED BY <1>1, <1>2 DEF Same

\* Sums stand for sums.
LEMMA SameAdds ==
  ASSUME NEW x \in Nat, NEW y \in Nat, NEW n \in Nat, NEW p \in Nat,
         Same(x, n), Same(y, p)
  PROVE  Same(x + y, n + p)
<1>1. (n + p) - (x + y) = (n - x) + (p - y) /\ n - x \in Int /\ p - y \in Int
  OBVIOUS
<1>2. Multiple((n - x) + (p - y))
  BY <1>1, Multiples DEF Same
<1>3. x + y = 0 <=> n + p = 0
  BY DEF Same
<1> QED BY <1>1, <1>2, <1>3 DEF Same

\* Products with the same factor for products.
LEMMA SameTimes ==
  ASSUME NEW x \in Nat, NEW n \in Nat, Same(x, n), NEW c \in Nat \ {0}
  PROVE  Same(c * x, c * n) /\ c * x \in Nat /\ c * n \in Nat
<1>1. c * n - c * x = c * (n - x) /\ n - x \in Int /\ c \in Int
  OBVIOUS
<1>2. Multiple(c * (n - x))
  BY <1>1, Multiples DEF Same
<1>3. \A y \in Nat : c * y \in Nat /\ (c * y = 0 <=> y = 0)
  <2> SUFFICES ASSUME NEW y \in Nat, y > 0 PROVE c * y > 0
    OBVIOUS
  <2>1. PICK k \in Nat : c = k + 1
    <3>1. c - 1 \in Nat /\ c = (c - 1) + 1
      OBVIOUS
    <3> QED BY <3>1
  <2>2. c * y = k * y + y /\ k * y \in Nat
    BY <2>1
  <2> QED BY <2>2
<1> QED BY <1>1, <1>2, <1>3 DEF Same

\* Of the numbers up to 2^16 - 1 only the Internet sum stands for n.
LEMMA SameUnique ==
  ASSUME NEW n \in Nat, NEW x \in 0 .. M, Same(x, n) PROVE x = OnesSum(n)
<1>1. CASE n = 0
  BY <1>1 DEF Same, OnesSum
<1>2. CASE n # 0
  <2>1. M \in Nat \ {0} /\ U16Mod - 1 = M /\ n - 1 \in Nat
    BY <1>2, Moduli DEF M
  <2>2. PICK q, r : q = (n - 1) \div M /\ r = (n - 1) % M
    OBVIOUS
  <2>3. q \in Nat /\ r \in 0 .. M - 1 /\ n - 1 = M * q + r
    BY <2>1, <2>2, DivMod
  <2>4. OnesSum(n) = r + 1
    BY <1>2, <2>1, <2>2 DEF OnesSum
  <2>5. Multiple(n - (r + 1))
    <3>1. n - (r + 1) = q * M
      BY <2>1, <2>3
    <3> QED BY <2>3, <3>1 DEF Multiple
  <2>6. x - (r + 1) = (n - (r + 1)) - (n - x) /\ n - (r + 1) \in Int /\ n - x \in Int
    BY <2>3
  <2>7. Multiple(x - (r + 1))
    <3>1. Multiple((n - (r + 1)) - (n - x))
      BY <2>5, <2>6, Multiples DEF Same
    <3> QED BY <2>6, <3>1
  <2>8. x >= 1 /\ x <= M /\ r + 1 >= 1 /\ r + 1 <= M /\ x - (r + 1) \in Int
    BY <1>2, <2>1, <2>3 DEF Same
  <2>9. x - (r + 1) = 0
    <3>1. x - (r + 1) < M /\ 0 - M < x - (r + 1)
      BY <2>1, <2>3, <2>8
    <3> QED BY <2>7, <2>8, <3>1, SmallMultiple
  <2> QED BY <2>3, <2>4, <2>9
<1> QED BY <1>1, <1>2

-----------------------------------------------------------------------------
(* Folding and swapping.                                                   *)

\* Folding a number gives one that stands for it.
LEMMA FoldIsSame ==
  ASSUME NEW u \in Nat PROVE Fold(u) \in Nat /\ Same(Fold(u), u)
<1>1. PICK q, r : q = u \div U16Mod /\ r = u % U16Mod
  OBVIOUS
<1>2. q \in Nat /\ r \in 0 .. U16Mod - 1 /\ u = U16Mod * q + r /\ Fold(u) = q + r
  BY <1>1, DivMod, Moduli DEF Fold
<1>3. U16Mod * q = q * M + q /\ q * M \in Nat
  BY <1>2, Moduli
<1>4. u - Fold(u) = q * M
  BY <1>2, <1>3
<1>5. Fold(u) = 0 <=> u = 0
  <2>1. CASE q = 0
    <3>1. U16Mod * q = 0
      BY <2>1, Moduli
    <3> QED BY <2>1, <1>2, <3>1
  <2>2. CASE q > 0
    BY <2>2, <1>2, <1>3
  <2> QED BY <2>1, <2>2, <1>2
<1> QED BY <1>2, <1>4, <1>5 DEF Same, Multiple

\* Twice makes any u32_t a u16_t; once is enough for the sum of two of these.
LEMMA FoldFits ==
  ASSUME NEW u \in Nat, u < U32Mod
  PROVE  /\ Fold(u) <= 2 * M
         /\ u <= 2 * M => Fold(u) <= M
<1>1. PICK q, r : q = u \div U16Mod /\ r = u % U16Mod
  OBVIOUS
<1>2. q \in Nat /\ r \in 0 .. U16Mod - 1 /\ u = U16Mod * q + r /\ Fold(u) = q + r
  BY <1>1, DivMod, Moduli DEF Fold
<1>3. M \in Nat /\ U16Mod = M + 1
  BY Moduli
<1>4. q <= M
  <2> SUFFICES ASSUME q > M PROVE FALSE
    BY <1>2, <1>3
  <2>1. PICK l \in Nat : q = U16Mod + l
    <3>1. q - U16Mod \in Nat /\ q = U16Mod + (q - U16Mod)
      BY <1>2, <1>3
    <3> QED BY <3>1
  <2>2. U16Mod * q = U16Mod * U16Mod + U16Mod * l /\ U16Mod * l \in Nat
        /\ U16Mod * U16Mod \in Nat
    BY <2>1, Moduli
  <2>3. u >= U32Mod
    BY <1>2, <2>2, Moduli
  <2> QED BY <2>3, Moduli
<1>5. ASSUME u <= 2 * M PROVE Fold(u) <= M
  <2>1. CASE q = 0
    BY <1>2, <1>3, <2>1
  <2>2. CASE q = 1
    <3>1. U16Mod * q = U16Mod
      BY <2>2, <1>3
    <3>2. u = U16Mod + r
      BY <1>2, <3>1
    <3> QED BY <1>2, <1>3, <1>5, <2>2, <3>2
  <2>3. CASE q >= 2
    <3>1. PICK l \in Nat : q = 2 + l
      <4>1. q - 2 \in Nat /\ q = 2 + (q - 2)
        BY <1>2, <2>3
      <4> QED BY <4>1
    <3>2. U16Mod * q = 2 * U16Mod + U16Mod * l /\ U16Mod * l \in Nat
      BY <3>1, <1>3
    <3> QED BY <1>2, <1>3, <1>5, <3>2
  <2> QED BY <1>2, <2>1, <2>2, <2>3
<1> QED BY <1>2, <1>3, <1>4, <1>5

\* Folding a u32_t twice gives its Internet sum.
LEMMA FoldTwice ==
  ASSUME NEW u \in Nat, u < U32Mod
  PROVE  /\ Fold(Fold(u)) \in 0 .. M /\ Same(Fold(Fold(u)), u)
         /\ Fold(Fold(u)) % U16Mod = Fold(Fold(u))
<1>1. PICK v, w : v = Fold(u) /\ w = Fold(v)
  OBVIOUS
<1>2. v \in Nat /\ w \in Nat /\ Same(v, u) /\ Same(w, v) /\ v <= 2 * M
  BY <1>1, FoldIsSame, FoldFits
<1>3. v < U32Mod
  <2>1. PICK m \in Nat : m = M
    BY Moduli
  <2>2. m >= 3 /\ U16Mod = m + 1 /\ U32Mod = (m + 1) * (m + 1)
    BY <2>1, Moduli
  <2>3. U32Mod = m * m + 2 * m + 1 /\ m * m \in Nat
    BY <2>1, <2>2
  <2> QED BY <1>2, <2>1, <2>3
<1>4. w <= M
  BY <1>1, <1>2, <1>3, FoldFits
<1>5. Same(w, u)
  BY <1>2, SameThrough
<1>6. w % U16Mod = w
  <2>1. w \in 0 .. U16Mod - 1 /\ w = U16Mod * 0 + w
    BY <1>2, <1>4, Moduli
  <2> QED BY <1>2, <2>1, DivModUnique, Moduli, SMTT(30)
<1> QED BY <1>1, <1>2, <1>4, <1>5, <1>6

\* The bytes of a u16_t.
LEMMA BytesOf ==
  ASSUME NEW w \in 0 .. M
  PROVE  \E h \in Byte, l \in Byte :
           /\ w = Base * h + l /\ h = w \div Base /\ l = w % Base
           /\ SwapBytes(w) = Base * l + h
<1>1. PICK h, l : h = w \div Base /\ l = w % Base
  OBVIOUS
<1>2. w \in Nat /\ h \in Nat /\ l \in 0 .. Base - 1 /\ w = Base * h + l
  <2>1. w \in Nat
    BY Moduli
  <2> QED BY <1>1, <2>1, DivMod, Moduli
<1>3. h < Base
  <2> SUFFICES ASSUME h >= Base PROVE FALSE
    BY <1>2, Moduli
  <2>1. PICK k \in Nat : h = Base + k
    <3>1. h - Base \in Nat /\ h = Base + (h - Base)
      BY <1>2, Moduli
    <3> QED BY <3>1
  <2>2. Base * h = U16Mod + Base * k /\ Base * k \in Nat
    BY <2>1, Moduli
  <2> QED BY <1>2, <2>2, Moduli
<1>4. h % Base = h
  <2>1. h \in 0 .. Base - 1 /\ h = Base * 0 + h
    BY <1>2, <1>3, Moduli
  <2> QED BY <1>2, <2>1, DivModUnique, Moduli
<1>5. SwapBytes(w) = Base * l + h
  BY <1>1, <1>4 DEF SwapBytes
<1>6. h \in Byte /\ l \in Byte
  BY <1>2, <1>3, Moduli DEF Byte
<1> QED BY <1>1, <1>2, <1>5, <1>6

\* A word made of two bytes.
LEMMA WordOf ==
  ASSUME NEW h \in Byte, NEW l \in Byte
  PROVE  Base * h + l \in 0 .. M /\ (Base * h + l) \div Base = h
         /\ (Base * h + l) % Base = l
<1>1. PICK b \in Nat : b = Base
  BY Moduli
<1>2. h \in 0 .. b - 1 /\ l \in 0 .. b - 1 /\ b > 1 /\ M = b * b - 1
  BY <1>1, Moduli DEF Byte
<1>3. PICK k \in Nat : b = h + 1 + k
  <2>1. b - 1 - h \in Nat /\ b = h + 1 + (b - 1 - h)
    BY <1>2
  <2> QED BY <2>1
<1>4. b * b = b * h + b + b * k /\ b * k \in Nat /\ b * h \in Nat
  BY <1>2, <1>3
<1>5. b * h + l \in 0 .. M
  BY <1>2, <1>4
<1> QED BY <1>1, <1>2, <1>4, <1>5, DivModUnique, Moduli

\* Swapping multiplies by 2^8 in one's complement, and twice changes nothing.
LEMMA SwapIsSame ==
  ASSUME NEW w \in 0 .. M
  PROVE  /\ SwapBytes(w) \in 0 .. M /\ Same(SwapBytes(w), Base * w)
         /\ SwapBytes(SwapBytes(w)) = w
<1>1. PICK h \in Byte, l \in Byte : w = Base * h + l /\ SwapBytes(w) = Base * l + h
  BY BytesOf
<1>2. h \in Nat /\ l \in Nat /\ Base \in Nat /\ Base > 1 /\ h < Base /\ l < Base
  BY Moduli DEF Byte
<1>3. SwapBytes(w) \in 0 .. M
  BY <1>1, WordOf
<1>4. SwapBytes(SwapBytes(w)) = w
  <2>1. (Base * l + h) \div Base = l /\ (Base * l + h) % Base = h /\ l % Base = l
    <3>1. l \in 0 .. Base - 1 /\ l = Base * 0 + l
      BY <1>2
    <3>2. l % Base = l
      BY <1>2, <3>1, DivModUnique, Moduli
    <3> QED BY <3>2, WordOf
  <2> QED BY <1>1, <2>1 DEF SwapBytes
<1>5. Base * w - SwapBytes(w) = h * M /\ Base * w \in Nat
  <2>1. PICK x, y : x = Base * h /\ y = Base * l
    OBVIOUS
  <2>2. x \in Nat /\ y \in Nat /\ w = x + l /\ SwapBytes(w) = y + h
    BY <1>1, <1>2, <2>1
  <2>3. Base * w = Base * x + y /\ Base * x \in Nat
    BY <1>2, <2>1, <2>2
  <2>4. Base * x = U16Mod * h
    BY <1>2, <2>1, Moduli
  <2>5. U16Mod * h = h * M + h /\ h * M \in Nat
    BY <1>2, Moduli
  <2> QED BY <2>2, <2>3, <2>4, <2>5, <1>2
<1>6. SwapBytes(w) = 0 <=> Base * w = 0
  <2>1. ASSUME NEW n \in Nat PROVE Base * n = 0 <=> n = 0
    <3>1. PICK k \in Nat : Base = k + 1
      <4>1. Base - 1 \in Nat /\ Base = (Base - 1) + 1
        BY <1>2
      <4> QED BY <4>1
    <3>2. Base * n = k * n + n /\ k * n \in Nat
      BY <3>1
    <3> QED BY <3>2
  <2>2. PICK x, y : x = Base * h /\ y = Base * l
    OBVIOUS
  <2>3. x \in Nat /\ y \in Nat /\ w = x + l /\ SwapBytes(w) = y + h /\ w \in Nat
        /\ (x = 0 <=> h = 0) /\ (y = 0 <=> l = 0)
    BY <1>1, <1>2, <2>1, <2>2
  <2>4. SwapBytes(w) = 0 <=> w = 0
    BY <1>2, <2>3
  <2> QED BY <2>1, <2>3, <2>4
<1> QED BY <1>2, <1>3, <1>4, <1>5, <1>6 DEF Same, Multiple

-----------------------------------------------------------------------------
(* Sums of sequences.                                                      *)

\* A set of natural numbers that is not empty has a least element: the proofs
\* about sums look at the least place where they would fail.
LEMMA LeastNat ==
  ASSUME NEW S \in SUBSET Nat, S # {}
  PROVE  \E n \in S : \A m \in S : n <= m
<1>1. PICK n \in S : \A m \in S : <<m, n>> \notin OpToRel(<, Nat)
  BY NatLessThanWellFounded, WFMin, Zenon
<1>2. \A m \in S : n <= m
  <2> SUFFICES ASSUME NEW m \in S, m < n PROVE FALSE
    OBVIOUS
  <2>1. <<m, n>> \in OpToRel(<, Nat)
    BY DEF OpToRel
  <2> QED BY <2>1, <1>1
<1> QED BY <1>2

\* f[n] is the sum of the first n numbers of s, for n up to k.
Sums(f, s, k) == f[0] = 0 /\ \A n \in 1 .. k : f[n] = f[n - 1] + s[n]

\* There are such sums.
LEMMA SumsExist ==
  ASSUME NEW s, NEW k \in Nat, \A n \in 1 .. k : s[n] \in Nat
  PROVE  \E f \in [0 .. k -> Nat] : Sums(f, s, k)
<1> DEFINE Good(i) == \E f \in [0 .. i -> Nat] : Sums(f, s, i)
           Bad == {i \in 0 .. k : ~Good(i)}
<1> SUFFICES ASSUME Bad # {} PROVE FALSE
  <2>1. k \in 0 .. k
    OBVIOUS
  <2> QED BY <2>1, Zenon
<1>1. PICK i \in Bad : \A j \in Bad : i <= j
  <2>1. Bad \in SUBSET Nat
    OBVIOUS
  <2> HIDE DEF Bad
  <2> QED BY <2>1, LeastNat
<1>2. i # 0
  <2> SUFFICES ASSUME i = 0 PROVE FALSE
    OBVIOUS
  <2>1. PICK f : f = [n \in 0 .. 0 |-> 0]
    OBVIOUS
  <2>2. f \in [0 .. 0 -> Nat] /\ Sums(f, s, 0)
    BY <2>1 DEF Sums
  <2> QED BY <2>2
<1>3. PICK j : j = i - 1
  OBVIOUS
<1>4. i \in 1 .. k /\ j \in 0 .. k /\ j < i /\ i = j + 1
  BY <1>2, <1>3
<1>5. j \notin Bad
  BY <1>1, <1>4
<1>6. PICK f \in [0 .. j -> Nat] : Sums(f, s, j)
  BY <1>4, <1>5
<1>7. PICK g : g = [n \in 0 .. i |-> IF n = i THEN f[j] + s[i] ELSE f[n]]
  OBVIOUS
<1>8. g \in [0 .. i -> Nat]
  BY <1>4, <1>6, <1>7
<1>9. Sums(g, s, i)
  <2>1. g[0] = 0
    BY <1>4, <1>6, <1>7 DEF Sums
  <2>2. ASSUME NEW n \in 1 .. i PROVE g[n] = g[n - 1] + s[n]
    <3>1. CASE n = i
      <4>1. g[n] = f[j] + s[i] /\ g[j] = f[j]
        BY <1>4, <1>7, <3>1
      <4> QED BY <1>4, <3>1, <4>1
    <3>2. CASE n # i
      <4>1. n \in 1 .. j /\ n - 1 \in 0 .. j
        BY <1>4, <3>2
      <4>2. g[n] = f[n] /\ g[n - 1] = f[n - 1]
        BY <1>4, <1>7, <4>1
      <4> QED BY <1>6, <4>1, <4>2 DEF Sums
    <3> QED BY <3>1, <3>2
  <2> QED BY <2>1, <2>2 DEF Sums
<1> QED BY <1>1, <1>8, <1>9

\* And no others.
LEMMA SumsAgree ==
  ASSUME NEW s, NEW k \in Nat, NEW f, NEW g, Sums(f, s, k), Sums(g, s, k)
  PROVE  \A n \in 0 .. k : f[n] = g[n]
<1> DEFINE Bad == {i \in 0 .. k : f[i] # g[i]}
<1> SUFFICES ASSUME Bad # {} PROVE FALSE
  OBVIOUS
<1>1. PICK i \in Bad : \A j \in Bad : i <= j
  <2>1. Bad \in SUBSET Nat
    OBVIOUS
  <2> HIDE DEF Bad
  <2> QED BY <2>1, LeastNat
<1>2. i # 0
  BY DEF Sums
<1>3. PICK j : j = i - 1
  OBVIOUS
<1>4. i \in 1 .. k /\ j \in 0 .. k /\ j < i
  BY <1>2, <1>3
<1>5. f[j] = g[j]
  BY <1>1, <1>4
<1>6. f[i] = f[j] + s[i] /\ g[i] = g[j] + s[i]
  BY <1>3, <1>4 DEF Sums
<1> QED BY <1>1, <1>5, <1>6

\* Total is the last of them.
LEMMA TotalIs ==
  ASSUME NEW S, NEW s \in Seq(S), S \subseteq Nat, NEW f, Sums(f, s, Len(s))
  PROVE  Total(s) = f[Len(s)]
<1> DEFINE step(u) == [n \in 0 .. Len(s) |-> IF n = 0 THEN 0 ELSE u[n - 1] + s[n]]
           upTo == CHOOSE u : u = step(u)
<1>1. Len(s) \in Nat /\ \A n \in 1 .. Len(s) : s[n] \in Nat
  BY ElementOfSeq, LenProperties
<1>2. PICK g \in [0 .. Len(s) -> Nat] : Sums(g, s, Len(s))
  BY <1>1, SumsExist
<1>3. g = step(g)
  BY <1>2 DEF Sums
<1>4. upTo = step(upTo)
  BY <1>3
<1>5. Sums(upTo, s, Len(s))
  <2> HIDE DEF upTo
  <2>1. upTo[0] = 0
    BY <1>1, <1>4
  <2>2. ASSUME NEW n \in 1 .. Len(s) PROVE upTo[n] = upTo[n - 1] + s[n]
    BY <1>1, <1>4
  <2> QED BY <2>1, <2>2 DEF Sums
<1>6. Total(s) = upTo[Len(s)]
  BY DEF Total
<1>7. \A n \in 0 .. Len(s) : upTo[n] = f[n]
  <2> HIDE DEF upTo
  <2> QED BY <1>1, <1>5, SumsAgree
<1> HIDE DEF upTo
<1> QED BY <1>1, <1>6, <1>7

\* So there are sums that end with it.
LEMMA TotalDef ==
  ASSUME NEW S, NEW s \in Seq(S), S \subseteq Nat
  PROVE  \E f \in [0 .. Len(s) -> Nat] :
           Sums(f, s, Len(s)) /\ Total(s) = f[Len(s)] /\ Total(s) \in Nat
<1>1. Len(s) \in Nat /\ \A n \in 1 .. Len(s) : s[n] \in Nat
  BY ElementOfSeq, LenProperties
<1>2. PICK f \in [0 .. Len(s) -> Nat] : Sums(f, s, Len(s))
  BY <1>1, SumsExist
<1>3. Total(s) = f[Len(s)]
  BY <1>2, TotalIs
<1> QED BY <1>1, <1>2, <1>3

\* The sum of a sequence without its first number.
LEMMA TotalFirst ==
  ASSUME NEW s \in Seq(Nat), s # <<>>, NEW r \in Seq(Nat),
         Len(s) = Len(r) + 1, \A k \in 1 .. Len(r) : r[k] = s[k + 1]
  PROVE  Total(s) = s[1] + Total(r)
<1>1. PICK f \in [0 .. Len(s) -> Nat] :
        Sums(f, s, Len(s)) /\ Total(s) = f[Len(s)] /\ Total(s) \in Nat
  BY TotalDef
<1>2. PICK l \in Nat : l = Len(r) /\ Len(s) = l + 1
  BY LenProperties
<1>3. PICK g : g = [n \in 0 .. l |-> f[n + 1] - s[1]]
  OBVIOUS
<1>4. s[1] \in Nat /\ f[1] = s[1]
  <2>1. f[1] = f[0] + s[1] /\ f[0] = 0 /\ 1 \in 1 .. Len(s)
    BY <1>1, <1>2 DEF Sums
  <2>2. s[1] \in Nat
    BY <2>1, ElementOfSeq
  <2> QED BY <2>1, <2>2
<1>5. Sums(g, r, l)
  <2>1. g[0] = 0
    BY <1>2, <1>3, <1>4
  <2>2. ASSUME NEW n \in 1 .. l PROVE g[n] = g[n - 1] + r[n]
    <3>1. g[n] = f[n + 1] - s[1] /\ g[n - 1] = f[n] - s[1]
      BY <1>2, <1>3
    <3>2. f[n + 1] = f[n] + s[n + 1]
      <4>1. PICK m : m = n + 1
        OBVIOUS
      <4>2. m \in 1 .. Len(s) /\ m - 1 = n
        BY <1>2, <4>1
      <4> QED BY <1>1, <4>1, <4>2 DEF Sums
    <3>3. r[n] = s[n + 1] /\ f[n] \in Nat /\ r[n] \in Nat
      <4>1. n \in 1 .. Len(r) /\ n \in 0 .. Len(s)
        BY <1>2
      <4> QED BY <1>1, <4>1, ElementOfSeq
    <3> QED BY <3>1, <3>2, <3>3, <1>4
  <2> QED BY <2>1, <2>2 DEF Sums
<1>6. Total(r) = g[l]
  BY <1>2, <1>5, TotalIs
<1>7. g[l] = f[l + 1] - s[1]
  BY <1>2, <1>3
<1> QED BY <1>1, <1>2, <1>4, <1>6, <1>7

\* Without its last one.
LEMMA TotalLast ==
  ASSUME NEW s \in Seq(Nat), NEW r \in Seq(Nat),
         Len(s) = Len(r) + 1, \A k \in 1 .. Len(r) : r[k] = s[k]
  PROVE  Total(s) = Total(r) + s[Len(s)]
<1>1. PICK f \in [0 .. Len(s) -> Nat] :
        Sums(f, s, Len(s)) /\ Total(s) = f[Len(s)] /\ Total(s) \in Nat
  BY TotalDef
<1>2. PICK l \in Nat : l = Len(r) /\ Len(s) = l + 1
  BY LenProperties
<1>3. Sums(f, r, l)
  BY <1>1, <1>2 DEF Sums
<1>4. Total(r) = f[l]
  BY <1>2, <1>3, TotalIs
<1>5. f[l + 1] = f[l] + s[l + 1]
  <2>1. PICK m : m = l + 1
    OBVIOUS
  <2>2. m \in 1 .. Len(s) /\ m - 1 = l
    BY <1>2, <2>1
  <2> QED BY <1>1, <2>1, <2>2 DEF Sums
<1> QED BY <1>1, <1>2, <1>4, <1>5

\* The sum of the sums of each two, the last one alone if need be.
LEMMA TotalPairs ==
  ASSUME NEW s \in Seq(Nat), NEW r \in Seq(Nat), Len(r) = (Len(s) + 1) \div 2,
         \A k \in 1 .. Len(r) :
           r[k] = s[2 * k - 1] + (IF 2 * k <= Len(s) THEN s[2 * k] ELSE 0)
  PROVE  Total(r) = Total(s)
<1>1. PICK f \in [0 .. Len(s) -> Nat] :
        Sums(f, s, Len(s)) /\ Total(s) = f[Len(s)] /\ Total(s) \in Nat
  BY TotalDef
<1>2. PICK l \in Nat, h \in Nat : l = Len(s) /\ h = Len(r) /\ h = (l + 1) \div 2
  BY LenProperties
<1>3. PICK g : g = [n \in 0 .. h |-> f[IF 2 * n <= l THEN 2 * n ELSE l]]
  OBVIOUS
<1>4. Sums(g, r, h)
  <2>1. g[0] = 0
    BY <1>1, <1>2, <1>3 DEF Sums
  <2>2. ASSUME NEW n \in 1 .. h PROVE g[n] = g[n - 1] + r[n]
    <3>1. PICK i \in Nat, j \in Nat : i = 2 * n - 2 /\ j = i + 1 /\ n - 1 \in 0 .. h
                                      /\ i = 2 * (n - 1) /\ 2 * n = j + 1
      <4>1. 2 * n - 2 \in Nat /\ 2 * n - 1 \in Nat /\ 2 * n - 1 = (2 * n - 2) + 1
            /\ n - 1 \in 0 .. h /\ 2 * n - 2 = 2 * (n - 1) /\ 2 * n = (2 * n - 1) + 1
        BY <1>2
      <4> QED BY <4>1
    <3>2. j \in 1 .. l /\ i \in 0 .. l
      BY <1>2, <3>1
    <3>3. g[n - 1] = f[i]
      BY <1>3, <3>1, <3>2
    <3>4. f[j] = f[i] + s[j] /\ f[i] \in Nat /\ s[j] \in Nat
      <4>1. j - 1 = i
        BY <3>1
      <4> QED BY <1>1, <1>2, <3>2, <4>1, ElementOfSeq DEF Sums
    <3>5. r[n] = s[j] + (IF 2 * n <= l THEN s[2 * n] ELSE 0)
      <4>1. 2 * n - 1 = j
        BY <3>1
      <4> QED BY <1>2, <4>1
    <3>6. CASE 2 * n <= l
      <4>1. PICK k : k = 2 * n
        OBVIOUS
      <4>2. k \in 1 .. l /\ k - 1 = j /\ k = 2 * n
        BY <3>1, <3>6, <4>1
      <4>3. f[k] = f[j] + s[k] /\ s[k] \in Nat
        BY <1>1, <1>2, <4>2, ElementOfSeq DEF Sums
      <4>4. g[n] = f[k]
        BY <1>3, <3>6, <4>1
      <4>5. r[n] = s[j] + s[k]
        BY <3>5, <3>6, <4>1
      <4>6. PICK x, y, z : x = f[i] /\ y = s[j] /\ z = s[k]
        OBVIOUS
      <4>7. x \in Nat /\ y \in Nat /\ z \in Nat
        BY <3>4, <4>3, <4>6
      <4>8. g[n] = (x + y) + z /\ g[n - 1] = x /\ r[n] = y + z
        BY <3>3, <3>4, <4>3, <4>4, <4>5, <4>6
      <4>9. (x + y) + z = x + (y + z)
        BY <4>7
      <4> QED BY <4>8, <4>9
    <3>7. CASE ~(2 * n <= l)
      <4>1. j = l
        BY <3>1, <3>2, <3>7
      <4>2. g[n] = f[j]
        BY <1>3, <3>7, <4>1
      <4>3. r[n] = s[j]
        BY <3>4, <3>5, <3>7
      <4> QED BY <3>3, <3>4, <4>2, <4>3
    <3> QED BY <3>6, <3>7
  <2> QED BY <2>1, <2>2 DEF Sums
<1>5. Total(r) = g[h]
  BY <1>2, <1>4, TotalIs
<1>6. g[h] = f[l]
  <2>1. (IF 2 * h <= l THEN 2 * h ELSE l) = l
    <3>1. PICK i \in Nat : \/ l = 2 * i /\ (l + 1) \div 2 = i
                           \/ l = 2 * i + 1 /\ (l + 1) \div 2 = i + 1
      BY <1>2, Halves
    <3>2. (l = 2 * i /\ h = i) \/ (l = 2 * i + 1 /\ h = i + 1)
      BY <1>2, <3>1, Zenon
    <3>3. 2 * h = l \/ 2 * h = l + 1
      BY <3>2
    <3> QED BY <1>2, <3>3
  <2>2. h \in 0 .. h
    BY <1>2
  <2> QED BY <1>3, <2>1, <2>2
<1> QED BY <1>1, <1>2, <1>5, <1>6

\* One number is c more than it was.
LEMMA TotalAdds ==
  ASSUME NEW s \in Seq(Nat), NEW r \in Seq(Nat), Len(r) = Len(s), NEW c \in Nat,
         NEW i \in 1 .. Len(s), r[i] = s[i] + c,
         \A k \in 1 .. Len(s) : k # i => r[k] = s[k]
  PROVE  Total(r) = Total(s) + c
<1>1. PICK f \in [0 .. Len(s) -> Nat] :
        Sums(f, s, Len(s)) /\ Total(s) = f[Len(s)] /\ Total(s) \in Nat
  BY TotalDef
<1>2. PICK l \in Nat : l = Len(s) /\ Len(r) = l
  BY LenProperties
<1>3. PICK g : g = [n \in 0 .. l |-> IF n < i THEN f[n] ELSE f[n] + c]
  OBVIOUS
<1>4. Sums(g, r, l)
  <2>1. g[0] = 0
    BY <1>1, <1>2, <1>3 DEF Sums
  <2>2. ASSUME NEW n \in 1 .. l PROVE g[n] = g[n - 1] + r[n]
    <3>1. PICK j : j = n - 1
      OBVIOUS
    <3>2. j \in 0 .. l /\ n \in 0 .. l /\ f[n] = f[j] + s[n] /\ f[j] \in Nat
          /\ s[n] \in Nat
      <4>1. n \in 1 .. Len(s) /\ j \in 0 .. Len(s) /\ j \in 0 .. l /\ n \in 0 .. l
        BY <1>2, <3>1
      <4>2. s[n] \in Nat /\ f[j] \in Nat
        BY <1>1, <4>1, ElementOfSeq
      <4>3. f[n] = f[j] + s[n]
        BY <1>1, <3>1, <4>1 DEF Sums
      <4> QED BY <4>1, <4>2, <4>3
    <3>3. CASE n < i
      <4>1. g[n] = f[n] /\ g[j] = f[j] /\ r[n] = s[n]
        BY <1>2, <1>3, <3>1, <3>2, <3>3
      <4> QED BY <3>1, <3>2, <4>1
    <3>4. CASE n = i
      <4>1. g[n] = f[n] + c /\ g[j] = f[j] /\ r[n] = s[n] + c
        BY <1>2, <1>3, <3>1, <3>2, <3>4
      <4>2. PICK a \in Nat, b \in Nat : a = f[j] /\ b = s[n]
        BY <3>2
      <4>3. (a + b) + c = a + (b + c)
        OBVIOUS
      <4>4. g[n] = g[j] + r[n]
        BY <3>2, <4>1, <4>2, <4>3
      <4> QED BY <3>1, <4>4
    <3>5. CASE n > i
      <4>1. g[n] = f[n] + c /\ g[j] = f[j] + c /\ r[n] = s[n]
        <5>1. ~(n < i) /\ ~(j < i) /\ n # i /\ n \in 1 .. Len(s)
          BY <1>2, <3>1, <3>5
        <5> QED BY <1>3, <3>2, <5>1
      <4>2. PICK a \in Nat, b \in Nat : a = f[j] /\ b = s[n]
        BY <3>2
      <4>3. (a + b) + c = (a + c) + b
        OBVIOUS
      <4>4. g[n] = g[j] + r[n]
        BY <3>2, <4>1, <4>2, <4>3
      <4> QED BY <3>1, <4>4
    <3> QED BY <1>2, <3>3, <3>4, <3>5
  <2> QED BY <2>1, <2>2 DEF Sums
<1>5. Total(r) = g[l]
  BY <1>2, <1>4, TotalIs
<1>6. g[l] = f[l] + c
  BY <1>2, <1>3
<1> QED BY <1>1, <1>2, <1>5, <1>6

\* The sum of numbers up to m.
LEMMA TotalBound ==
  ASSUME NEW m \in Nat, NEW s \in Seq(0 .. m)
  PROVE  Total(s) \in Nat /\ Total(s) <= Len(s) * m
<1>1. PICK f \in [0 .. Len(s) -> Nat] :
        Sums(f, s, Len(s)) /\ Total(s) = f[Len(s)] /\ Total(s) \in Nat
  BY TotalDef
<1>2. PICK l \in Nat : l = Len(s)
  BY LenProperties
<1> DEFINE Bad == {i \in 0 .. l : ~(f[i] <= i * m)}
<1>3. Bad = {}
  <2> SUFFICES ASSUME Bad # {} PROVE FALSE
    OBVIOUS
  <2>1. PICK i \in Bad : \A j \in Bad : i <= j
    <3>1. Bad \in SUBSET Nat
      OBVIOUS
    <3> HIDE DEF Bad
    <3> QED BY <3>1, LeastNat
  <2>2. i # 0
    BY <1>1 DEF Sums
  <2>3. PICK j : j = i - 1
    OBVIOUS
  <2>4. i \in 1 .. l /\ j \in 0 .. l /\ j < i /\ i = j + 1
    BY <2>2, <2>3
  <2>5. f[j] <= j * m
    BY <2>1, <2>4
  <2>6. f[i] = f[j] + s[i] /\ f[j] \in Nat /\ s[i] \in 0 .. m
    BY <1>1, <1>2, <2>3, <2>4, ElementOfSeq DEF Sums
  <2>7. i * m = j * m + m /\ j * m \in Nat
    BY <2>4
  <2>8. f[i] <= i * m
    <3>1. PICK a, b, k : a = f[j] /\ b = s[i] /\ k = j * m
      OBVIOUS
    <3>2. a \in Nat /\ b \in 0 .. m /\ k \in Nat /\ a <= k
      BY <2>5, <2>6, <2>7, <3>1
    <3>3. a + b <= k + m
      BY <3>2
    <3> QED BY <2>6, <2>7, <3>1, <3>3
  <2> QED BY <2>1, <2>8
<1>4. l \in 0 .. l
  OBVIOUS
<1> QED BY <1>1, <1>2, <1>3, <1>4

\* What stands for c times each number, added up, stands for c times their sum.
LEMMA TotalIsSame ==
  ASSUME NEW s \in Seq(Nat), NEW r \in Seq(Nat), Len(r) = Len(s),
         NEW c \in Nat \ {0},
         \A k \in 1 .. Len(s) : Same(r[k], c * s[k])
  PROVE  Same(Total(r), c * Total(s))
<1>1. PICK f \in [0 .. Len(s) -> Nat] :
        Sums(f, s, Len(s)) /\ Total(s) = f[Len(s)] /\ Total(s) \in Nat
  BY TotalDef
<1>2. PICK g \in [0 .. Len(r) -> Nat] :
        Sums(g, r, Len(r)) /\ Total(r) = g[Len(r)] /\ Total(r) \in Nat
  BY TotalDef
<1>3. PICK l \in Nat : l = Len(s) /\ Len(r) = l
  BY LenProperties
<1> DEFINE Good(n) == Same(g[n], c * f[n])
           Bad == {i \in 0 .. l : ~Good(i)}
<1>4. Bad = {}
  <2> SUFFICES ASSUME Bad # {} PROVE FALSE
    OBVIOUS
  <2>1. PICK i \in Bad : \A j \in Bad : i <= j
    <3>1. Bad \in SUBSET Nat
      OBVIOUS
    <3> HIDE DEF Bad
    <3> QED BY <3>1, LeastNat
  <2>2. i # 0
    <3>1. g[0] = 0 /\ c * f[0] = 0
      BY <1>1, <1>2 DEF Sums
    <3>2. Good(0)
      BY <3>1, SameItself
    <3> QED BY <2>1, <3>2
  <2>3. PICK j : j = i - 1
    OBVIOUS
  <2>4. i \in 1 .. l /\ j \in 0 .. l /\ j < i
    BY <2>2, <2>3
  <2>5. Same(g[j], c * f[j])
    BY <2>1, <2>4
  <2>6. f[i] = f[j] + s[i] /\ f[j] \in Nat /\ s[i] \in Nat
    BY <1>1, <1>3, <2>3, <2>4, ElementOfSeq DEF Sums
  <2>7. g[i] = g[j] + r[i] /\ g[j] \in Nat /\ r[i] \in Nat
    BY <1>2, <1>3, <2>3, <2>4, ElementOfSeq DEF Sums
  <2>8. Same(r[i], c * s[i])
    BY <1>3, <2>4
  <2>9. c * f[j] \in Nat /\ c * s[i] \in Nat /\ c * f[i] = c * f[j] + c * s[i]
    <3>1. PICK x \in Nat, y \in Nat : x = f[j] /\ y = s[i]
      BY <2>6
    <3>2. c * x \in Nat /\ c * y \in Nat /\ c * (x + y) = c * x + c * y
      OBVIOUS
    <3> QED BY <2>6, <3>1, <3>2
  <2>10. Same(g[j] + r[i], c * f[j] + c * s[i])
    BY <2>5, <2>7, <2>8, <2>9, SameAdds
  <2> QED BY <2>1, <2>7, <2>9, <2>10
<1>5. l \in 0 .. l
  OBVIOUS
<1>6. Good(l)
  BY <1>4, <1>5
<1> QED BY <1>1, <1>2, <1>3, <1>6

-----------------------------------------------------------------------------
(* The sum of a buffer.                                                    *)

\* The pairs of bytes lwip_standard_chksum adds up, and the last byte that has
\* no other.
Pairs(s) == [i \in 1 .. Len(s) \div 2 |-> s[2 * i - 1] + Base * s[2 * i]]
Left(s)  == IF Len(s) % 2 = 1 THEN s[Len(s)] ELSE 0

\* The bytes at their weights in the words that start at the first of them, and
\* in the words of a buffer at an odd address.
Even(s) == [k \in 1 .. Len(s) |-> IF k % 2 = 1 THEN s[k] ELSE Base * s[k]]
Odd(s)  == [k \in 1 .. Len(s) |-> IF k % 2 = 1 THEN Base * s[k] ELSE s[k]]

\* A function on 1 .. n is a sequence.
LEMMA SeqOf ==
  ASSUME NEW S, NEW n \in Nat, NEW f \in [1 .. n -> S]
  PROVE  f \in Seq(S) /\ Len(f) = n
OBVIOUS

\* What a byte weighs.
LEMMA Weights ==
  ASSUME NEW b \in Byte
  PROVE  b \in Nat /\ Base * b \in Nat /\ Base * b \in 0 .. M /\ b \in 0 .. M
         /\ Base * b <= Base * (Base - 1)
<1>1. PICK c \in Nat : c = Base /\ c > 1 /\ M = c * c - 1
  BY Moduli DEF M
<1>2. b \in 0 .. c - 1
  BY <1>1 DEF Byte
<1>3. PICK d \in Nat : c = b + 1 + d
  <2>1. c - b - 1 \in Nat /\ c = b + 1 + (c - b - 1)
    BY <1>1, <1>2
  <2> QED BY <2>1
<1>4. c * (c - 1) = c * b + c * d /\ c * c = c * b + c + c * d
  <2>1. c - 1 = b + d
    BY <1>2, <1>3
  <2>2. c * (b + d) = c * b + c * d /\ c * (b + 1 + d) = c * b + c + c * d
    BY <1>2
  <2> QED BY <1>3, <2>1, <2>2
<1>5. c * d \in Nat /\ c * b \in Nat /\ b <= c * b
  <2>1. c * b = (c - 1) * b + b /\ (c - 1) * b \in Nat
    BY <1>1, <1>2
  <2> QED BY <1>2, <2>1
<1> QED BY <1>1, <1>2, <1>4, <1>5

\* The words of a buffer.
LEMMA WordsType ==
  ASSUME NEW s \in Seq(Byte)
  PROVE  /\ Words(s) \in Seq(0 .. M) /\ Len(Words(s)) = (Len(s) + 1) \div 2
         /\ \A i \in 1 .. Len(Words(s)) :
              Words(s)[i] = s[2 * i - 1]
                            + (IF 2 * i <= Len(s) THEN Base * s[2 * i] ELSE 0)
         /\ 2 * Len(Words(s)) \in {Len(s), Len(s) + 1}
<1>1. PICK l \in Nat, h \in Nat : l = Len(s) /\ h = (l + 1) \div 2
                                  /\ (2 * h = l \/ 2 * h = l + 1)
  <2>1. PICK l \in Nat : l = Len(s)
    BY LenProperties
  <2>2. PICK i \in Nat : \/ l = 2 * i /\ (l + 1) \div 2 = i
                         \/ l = 2 * i + 1 /\ (l + 1) \div 2 = i + 1
    BY Halves
  <2>3. CASE l = 2 * i /\ (l + 1) \div 2 = i
    BY <2>1, <2>3
  <2>4. CASE l = 2 * i + 1 /\ (l + 1) \div 2 = i + 1
    <3>1. i + 1 \in Nat /\ 2 * (i + 1) = l + 1
      BY <2>4
    <3> QED BY <2>1, <2>4, <3>1
  <2> QED BY <2>2, <2>3, <2>4
<1>2. ASSUME NEW i \in 1 .. h
      PROVE  s[2 * i - 1] + (IF 2 * i <= l THEN Base * s[2 * i] ELSE 0) \in 0 .. M
  <2>1. PICK j, k : j = 2 * i - 1 /\ k = 2 * i
    OBVIOUS
  <2>2. j \in 1 .. l /\ k \in Nat \ {0}
    BY <1>1, <2>1
  <2>3. s[j] \in Byte
    BY <1>1, <2>2, ElementOfSeq
  <2>4. CASE k <= l
    <3>1. k \in 1 .. l
      BY <2>2, <2>4
    <3>2. s[k] \in Byte
      BY <1>1, <3>1, ElementOfSeq
    <3>3. Base * s[k] + s[j] \in 0 .. M
      BY <2>3, <3>2, WordOf
    <3>4. PICK x, y : x = s[j] /\ y = Base * s[k]
      OBVIOUS
    <3>5. x \in Nat /\ y \in Nat /\ y + x \in 0 .. M
      BY <2>3, <3>2, <3>3, <3>4, Weights
    <3>6. x + y \in 0 .. M
      BY <3>5
    <3> QED BY <2>1, <2>4, <3>4, <3>6
  <2>5. CASE ~(k <= l)
    <3>1. s[j] \in 0 .. M /\ s[j] \in Nat
      BY <2>3, Weights
    <3>2. s[j] + 0 = s[j]
      BY <3>1
    <3> QED BY <2>1, <2>5, <3>1, <3>2
  <2> QED BY <2>4, <2>5
<1>3. Words(s) \in [1 .. h -> 0 .. M]
  BY <1>1, <1>2 DEF Words
<1>4. Words(s) \in Seq(0 .. M) /\ Len(Words(s)) = h
  BY <1>1, <1>3, SeqOf
<1>5. \A i \in 1 .. h : Words(s)[i] = s[2 * i - 1]
                          + (IF 2 * i <= l THEN Base * s[2 * i] ELSE 0)
  BY <1>1 DEF Words
<1> QED BY <1>1, <1>4, <1>5

\* The bytes at their weights.
LEMMA WeightsType ==
  ASSUME NEW s \in Seq(Byte)
  PROVE  /\ Even(s) \in Seq(Nat) /\ Len(Even(s)) = Len(s)
         /\ Odd(s) \in Seq(Nat) /\ Len(Odd(s)) = Len(s)
<1>1. PICK l \in Nat : l = Len(s)
  BY LenProperties
<1>2. \A k \in 1 .. l : s[k] \in Nat /\ Base * s[k] \in Nat
  BY <1>1, ElementOfSeq, Weights
<1>3. Even(s) \in [1 .. l -> Nat] /\ Odd(s) \in [1 .. l -> Nat]
  BY <1>1, <1>2 DEF Even, Odd
<1> QED BY <1>1, <1>3, SeqOf

\* The words add up to the bytes at their weights.
LEMMA WordsAreWeights ==
  ASSUME NEW s \in Seq(Byte) PROVE Total(Words(s)) = Total(Even(s))
<1>1. PICK e, w, l : e = Even(s) /\ w = Words(s) /\ l = Len(s)
  OBVIOUS
<1>2. e \in Seq(Nat) /\ Len(e) = l /\ w \in Seq(0 .. M) /\ Len(w) = (l + 1) \div 2
      /\ l \in Nat /\ 2 * Len(w) \in {l, l + 1}
  BY <1>1, WeightsType, WordsType, LenProperties
<1>3. w \in Seq(Nat)
  <2>1. 0 .. M \subseteq Nat
    BY Moduli
  <2> QED BY <1>2, <2>1, SeqMonotonic
<1>4. ASSUME NEW k \in 1 .. Len(w)
      PROVE  w[k] = e[2 * k - 1] + (IF 2 * k <= l THEN e[2 * k] ELSE 0)
  <2>1. k \in Nat \ {0} /\ Len(w) \in Nat
    BY <1>2, LenProperties
  <2>2. PICK i \in Nat : k = i + 1
    <3>1. k - 1 \in Nat /\ k = (k - 1) + 1
      BY <2>1
    <3> QED BY <3>1
  <2>3. PICK j, m : j = 2 * k - 1 /\ m = 2 * k
    OBVIOUS
  <2>4. j \in 1 .. l /\ m \in Nat \ {0} /\ j = 2 * i + 1
    BY <1>2, <2>1, <2>2, <2>3
  <2>5. j % 2 = 1 /\ m % 2 = 0
    BY <2>1, <2>2, <2>3, <2>4, Parity
  <2>6. e[j] = s[j]
    BY <1>1, <2>4, <2>5 DEF Even
  <2>7. m <= l => e[m] = Base * s[m]
    <3>1. m <= l => m \in 1 .. l
      BY <2>4, <1>2
    <3> QED BY <1>1, <2>5, <3>1 DEF Even
  <2>8. w[k] = s[j] + (IF m <= l THEN Base * s[m] ELSE 0)
    BY <1>1, <2>3, WordsType
  <2> QED BY <2>3, <2>6, <2>7, <2>8
<1>5. Total(w) = Total(e)
  BY <1>2, <1>3, <1>4, TotalPairs
<1> QED BY <1>1, <1>5

\* So do the pairs of bytes and the byte that is left.
LEMMA PairsAreWords ==
  ASSUME NEW s \in Seq(Byte)
  PROVE  /\ Total(Pairs(s)) + Left(s) = Total(Words(s))
         /\ Total(Pairs(s)) \in Nat /\ Left(s) \in Nat /\ Total(Words(s)) \in Nat
<1>1. PICK l \in Nat, i \in Nat :
        /\ l = Len(s)
        /\ \/ l = 2 * i /\ l % 2 = 0 /\ l \div 2 = i /\ (l + 1) \div 2 = i
           \/ l = 2 * i + 1 /\ l % 2 = 1 /\ l \div 2 = i /\ (l + 1) \div 2 = i + 1
  <2>1. PICK l \in Nat : l = Len(s)
    BY LenProperties
  <2> QED BY <2>1, Halves, Zenon
<1>2. PICK p, w : p = Pairs(s) /\ w = Words(s)
  OBVIOUS
<1>3. w \in Seq(0 .. M) /\ Len(w) = (l + 1) \div 2
      /\ \A k \in 1 .. Len(w) :
           w[k] = s[2 * k - 1] + (IF 2 * k <= l THEN Base * s[2 * k] ELSE 0)
  BY <1>1, <1>2, WordsType, Zenon
<1>4. w \in Seq(Nat) /\ Total(w) \in Nat
  <2>1. 0 .. M \subseteq Nat
    BY Moduli
  <2>2. w \in Seq(Nat)
    BY <1>3, <2>1, SeqMonotonic
  <2> QED BY <2>2, TotalDef
<1>5. p = [k \in 1 .. i |-> s[2 * k - 1] + Base * s[2 * k]]
  <2>1. Len(s) \div 2 = i
    BY <1>1, Zenon
  <2> QED BY <1>2, <2>1 DEF Pairs
<1>6. i <= Len(w) /\ \A k \in 1 .. i : 2 * k <= l /\ p[k] = w[k]
  <2>1. Len(w) = i \/ Len(w) = i + 1
    BY <1>1, <1>3, Zenon
  <2>2. \A k \in 1 .. i : 2 * k <= l /\ k \in 1 .. Len(w)
    BY <1>1, <2>1
  <2>3. \A k \in 1 .. i : p[k] = s[2 * k - 1] + Base * s[2 * k]
    BY <1>5
  <2>4. \A k \in 1 .. i : p[k] = w[k]
    <3> SUFFICES ASSUME NEW k \in 1 .. i PROVE p[k] = w[k]
      OBVIOUS
    <3>1. PICK x, y : x = s[2 * k - 1] /\ y = Base * s[2 * k]
      OBVIOUS
    <3>2. p[k] = x + y
      BY <2>3, <3>1, Zenon
    <3>3. w[k] = x + y
      <4>1. 2 * k <= l /\ k \in 1 .. Len(w)
        BY <2>2
      <4> QED BY <1>3, <3>1, <4>1, Zenon
    <3> QED BY <3>2, <3>3
  <2> QED BY <2>1, <2>2, <2>4
<1>7. p \in Seq(Nat) /\ Len(p) = i
  <2>1. \A k \in 1 .. i : p[k] \in Nat
    <3> SUFFICES ASSUME NEW k \in 1 .. i PROVE p[k] \in Nat
      OBVIOUS
    <3>1. k \in 1 .. Len(w)
      BY <1>4, <1>6, LenProperties
    <3> QED BY <1>4, <1>6, <3>1, ElementOfSeq
  <2>2. p \in [1 .. i -> Nat]
    BY <1>5, <2>1
  <2> QED BY <2>2, SeqOf
<1>8. Total(p) \in Nat
  BY <1>7, TotalDef
<1>9. CASE l % 2 = 0
  <2>1. Len(w) = i
    BY <1>1, <1>3, <1>9
  <2>2. p = w
    BY <1>4, <1>6, <1>7, <2>1, SeqEqual
  <2>3. Left(s) = 0
    BY <1>1, <1>9 DEF Left
  <2>4. Total(w) + 0 = Total(w)
    BY <1>4
  <2> QED BY <1>2, <1>4, <1>8, <2>2, <2>3, <2>4
<1>10. CASE l % 2 = 1
  <2>1. l = 2 * i + 1 /\ Len(w) = i + 1
    BY <1>1, <1>3, <1>10
  <2>2. Total(w) = Total(p) + w[Len(w)]
    BY <1>4, <1>6, <1>7, <2>1, TotalLast
  <2>3. w[i + 1] = s[l]
    <3>1. PICK k : k = i + 1
      OBVIOUS
    <3>2. k \in 1 .. Len(w) /\ ~(2 * k <= l) /\ 2 * k - 1 = l
      BY <2>1, <3>1
    <3>3. w[k] = s[2 * k - 1] + 0
      BY <1>3, <3>2, Zenon
    <3>4. s[l] \in Nat
      <4>1. l \in 1 .. Len(s)
        BY <1>1, <2>1
      <4> QED BY <4>1, ElementOfSeq, Weights
    <3> QED BY <3>1, <3>2, <3>3, <3>4
  <2>4. Left(s) = s[l]
    BY <1>1, <1>10 DEF Left
  <2>5. s[l] \in Nat
    <3>1. l \in 1 .. Len(s)
      BY <1>1, <2>1
    <3> QED BY <3>1, ElementOfSeq, Weights
  <2> QED BY <1>2, <1>4, <1>8, <2>1, <2>2, <2>3, <2>4, <2>5
<1> QED BY <1>1, <1>9, <1>10

\* The words of a buffer that starts at an odd address are those of the first
\* byte alone, as the high half of a word, and of the rest.
LEMMA OddWords ==
  ASSUME NEW s \in Seq(Byte), s # <<>>, NEW r \in Seq(Byte),
         Len(s) = Len(r) + 1, \A k \in 1 .. Len(r) : r[k] = s[k + 1]
  PROVE  Total(Odd(s)) = Base * s[1] + Total(Words(r))
<1>1. PICK o, e, l : o = Odd(s) /\ e = Even(r) /\ l = Len(r)
  OBVIOUS
<1>2. o \in Seq(Nat) /\ Len(o) = l + 1 /\ e \in Seq(Nat) /\ Len(e) = l /\ l \in Nat
  BY <1>1, WeightsType, LenProperties
<1>3. ASSUME NEW k \in 1 .. l PROVE e[k] = o[k + 1]
  <2>1. PICK j : j = k + 1
    OBVIOUS
  <2>2. j \in 1 .. Len(s) /\ k \in Nat /\ k \in 1 .. Len(r)
    BY <1>1, <1>2, <2>1
  <2>3. PICK i \in Nat : k = 2 * i \/ k = 2 * i + 1
    BY <2>2, Halves
  <2>4. CASE k = 2 * i
    <3>1. k % 2 = 0 /\ j = 2 * i + 1 /\ j % 2 = 1
      BY <2>1, <2>4, Parity
    <3>2. e[k] = Base * r[k] /\ o[j] = Base * s[j]
      BY <1>1, <2>2, <3>1 DEF Even, Odd
    <3> QED BY <2>1, <2>2, <3>2
  <2>5. CASE k = 2 * i + 1
    <3>1. PICK m \in Nat : m = i + 1
      OBVIOUS
    <3>2. j = 2 * m
      BY <2>1, <2>5, <3>1
    <3>3. k % 2 = 1 /\ j % 2 = 0
      BY <2>5, <3>1, <3>2, Parity
    <3>4. e[k] = r[k] /\ o[j] = s[j]
      BY <1>1, <2>2, <3>3 DEF Even, Odd
    <3> QED BY <2>1, <2>2, <3>4
  <2> QED BY <2>3, <2>4, <2>5
<1>4. o # <<>>
  BY <1>2, EmptySeq
<1>5. Total(o) = o[1] + Total(e)
  BY <1>2, <1>3, <1>4, TotalFirst
<1>6. o[1] = Base * s[1]
  <2>1. 1 \in 1 .. Len(s) /\ 1 = 2 * 0 + 1
    BY <1>1, <1>2
  <2>2. 1 % 2 = 1
    BY <2>1, Parity
  <2> QED BY <1>1, <2>1, <2>2 DEF Odd
<1> QED BY <1>1, <1>5, <1>6, WordsAreWeights

\* Numbers that stand for each other.
LEMMA SameBack ==
  ASSUME NEW x \in Nat, NEW n \in Nat, Same(x, n) PROVE Same(n, x)
<1>1. PICK k \in Int : n - x = k * M
  BY DEF Same, Multiple
<1>2. x - n = (0 - k) * M /\ 0 - k \in Int
  <2>1. M \in Nat
    BY Moduli
  <2>2. (0 - k) * M = 0 - k * M /\ k * M \in Int
    BY <2>1
  <2> QED BY <1>1, <2>2
<1> QED BY <1>2 DEF Same, Multiple

\* A number stands for 2^16 times itself.
LEMMA SameWord ==
  ASSUME NEW n \in Nat
  PROVE  Same(n, Base * (Base * n)) /\ Base * n \in Nat /\ Base * (Base * n) \in Nat
<1>1. PICK b \in Nat, m \in Nat : b = Base /\ b > 1 /\ m = M /\ m + 1 = b * b
  BY Moduli
<1>2. b * (b * n) = (b * b) * n /\ b * n \in Nat /\ b * (b * n) \in Nat
  BY <1>1
<1>3. (m + 1) * n = n * m + n /\ n * m \in Nat
  OBVIOUS
<1>4. b * (b * n) - n = n * m
  BY <1>1, <1>2, <1>3
<1>5. b * (b * n) = 0 <=> n = 0
  <2>1. n = 0 => n * m = 0
    OBVIOUS
  <2> QED BY <1>2, <1>3, <1>4, <2>1
<1> QED BY <1>1, <1>2, <1>4, <1>5 DEF Same, Multiple

\* The bytes at an odd address weigh Base times what they weigh at an even one.
LEMMA OddIsSame ==
  ASSUME NEW s \in Seq(Byte)
  PROVE  /\ Same(Total(Odd(s)), Base * Total(Even(s)))
         /\ Total(Odd(s)) \in Nat /\ Total(Even(s)) \in Nat
<1>1. PICK o, e : o = Odd(s) /\ e = Even(s)
  OBVIOUS
<1>2. o \in Seq(Nat) /\ e \in Seq(Nat) /\ Len(o) = Len(s) /\ Len(e) = Len(s)
  BY <1>1, WeightsType
<1>3. ASSUME NEW k \in 1 .. Len(e) PROVE Same(o[k], Base * e[k])
  <2>1. k \in 1 .. Len(s) /\ s[k] \in Nat /\ k \in Nat
    <3>1. k \in 1 .. Len(s) /\ k \in Nat
      BY <1>2, LenProperties
    <3> QED BY <3>1, ElementOfSeq, Weights
  <2>2. PICK i \in Nat : (k = 2 * i /\ k % 2 = 0) \/ (k = 2 * i + 1 /\ k % 2 = 1)
    BY <2>1, Halves
  <2>3. CASE k % 2 = 1
    <3>1. o[k] = Base * s[k] /\ e[k] = s[k]
      BY <1>1, <2>1, <2>3 DEF Even, Odd
    <3>2. Base * s[k] \in Nat
      BY <2>1, SameWord
    <3> QED BY <3>1, <3>2, SameItself
  <2>4. CASE k % 2 = 0
    <3>1. o[k] = s[k] /\ e[k] = Base * s[k]
      BY <1>1, <2>1, <2>4 DEF Even, Odd
    <3> QED BY <2>1, <3>1, SameWord
  <2> QED BY <2>2, <2>3, <2>4
<1>4. Same(Total(o), Base * Total(e))
  <2>1. Base \in Nat \ {0} /\ Len(o) = Len(e)
    BY <1>2, Moduli
  <2> QED BY <1>2, <1>3, <2>1, TotalIsSame
<1> QED BY <1>1, <1>2, <1>4, TotalDef

\* The sum of the words of a buffer, and of one that starts at an odd address,
\* fits a u32_t.
LEMMA TotalFits ==
  ASSUME NEW s \in Seq(Byte), Len(s) <= 2 * U16Mod
  PROVE  /\ Total(Words(s)) \in Nat
         /\ Total(Words(s)) <= U16Mod * M /\ Total(Words(s)) < U32Mod
         /\ \A b \in Byte : Base * b + Total(Words(s)) < U32Mod
<1>1. PICK w : w = Words(s)
  OBVIOUS
<1>2. PICK h \in Nat, t \in Nat :
        /\ h = Len(w) /\ t = Total(w)
        /\ w \in Seq(0 .. M) /\ 2 * h \in {Len(s), Len(s) + 1}
  <2>1. Words(s) \in Seq(0 .. M)
    BY WordsType
  <2>2. Total(Words(s)) \in Nat
    BY PairsAreWords
  <2>3. Len(w) \in Nat
    BY <1>1, <2>1, LenProperties
  <2>4. w \in Seq(0 .. M) /\ 2 * Len(w) \in {Len(s), Len(s) + 1}
    BY <1>1, WordsType, Zenon
  <2> QED BY <1>1, <2>2, <2>3, <2>4
<1>3. PICK b \in Nat, m \in Nat, u \in Nat :
        /\ b = Base /\ b > 1 /\ m = M /\ u = U16Mod /\ u = b * b /\ u = m + 1
        /\ U32Mod = u * u
  BY Moduli
<1>4. h <= u
  <2>1. PICK l \in Nat : l = Len(s)
    BY LenProperties
  <2> QED BY <1>2, <1>3, <2>1
<1>5. t <= h * m
  BY <1>2, <1>3, TotalBound
<1>6. h * m <= u * m
  <2>1. PICK d \in Nat : u = h + d
    <3>1. u - h \in Nat /\ u = h + (u - h)
      BY <1>3, <1>4
    <3> QED BY <3>1
  <2>2. u * m = h * m + d * m /\ d * m \in Nat /\ h * m \in Nat
    BY <2>1, <1>3
  <2> QED BY <2>2
<1>7. u * u = u * m + u /\ u * m \in Nat /\ h * m \in Nat
  BY <1>3
<1>8. t <= u * m
  BY <1>5, <1>6, <1>7
<1>9. t < U32Mod
  BY <1>3, <1>7, <1>8
<1>20. ASSUME NEW c \in Byte PROVE Base * c + t < U32Mod
  <2>1. PICK x \in Nat : x = Base * c /\ x <= m
    BY <1>3, Weights
  <2> QED BY <1>3, <1>7, <1>8, <2>1
<1> QED BY <1>1, <1>2, <1>3, <1>8, <1>9, <1>20

\* Numbers below a modulus are their own remainders.
LEMMA SmallMod ==
  ASSUME NEW b \in Nat \ {0}, NEW a \in Nat, a < b PROVE a % b = a
<1>1. a = b * 0 + a /\ a \in 0 .. b - 1 /\ 0 \in Nat
  OBVIOUS
<1> QED BY <1>1, DivModUnique

\* lwip_standard_chksum returns a u16_t that stands for the sum of the words.
LEMMA StandardSumIsSame ==
  ASSUME NEW s \in Seq(Byte), Len(s) <= 2 * U16Mod, NEW at \in BOOLEAN
  PROVE  StandardSum(s, at) \in 0 .. M /\ Same(StandardSum(s, at), Total(Words(s)))
<1>1. PICK l \in Nat : l = Len(s)
  BY LenProperties
<1> DEFINE skip == IF at /\ Len(s) > 0 THEN 1 ELSE 0
           rest == SubSeq(s, skip + 1, Len(s))
           first == IF skip = 1 THEN Base * s[1] ELSE 0
           sum == Fold(Fold((Total(Pairs(rest)) + (first + Left(rest))) % U32Mod))
<1>2. StandardSum(s, at) = IF at THEN SwapBytes(sum) ELSE sum % U16Mod
  BY DEF StandardSum, Pairs, Left
<1>3. skip \in 0 .. 1 /\ skip <= l /\ (skip = 1 <=> at /\ l > 0)
  BY <1>1
<1> HIDE DEF skip
<1>4. /\ rest \in Seq(Byte) /\ Len(rest) = l - skip
      /\ \A k \in 1 .. l - skip : rest[k] = s[k + skip]
  <2>1. PICK m \in Int : m = skip + 1
    BY <1>3
  <2>2. \A i \in m .. l : s[i] \in Byte
    <3> SUFFICES ASSUME NEW i \in m .. l PROVE s[i] \in Byte
      OBVIOUS
    <3>1. i \in 1 .. Len(s)
      BY <1>1, <1>3, <2>1
    <3> QED BY <3>1, ElementOfSeq
  <2>3. PICK r : r = SubSeq(s, m, l)
    OBVIOUS
  <2>4. /\ r \in Seq(Byte) /\ Len(r) = (IF m <= l THEN l - m + 1 ELSE 0)
        /\ \A i \in 1 .. l - m + 1 : r[i] = s[m + i - 1]
    BY <1>1, <2>1, <2>2, <2>3, SubSeqProperties
  <2>5. l - m + 1 = l - skip /\ Len(r) = l - skip
    BY <1>1, <1>3, <2>1, <2>4
  <2>6. \A k \in 1 .. l - skip : r[k] = s[k + skip]
    <3> SUFFICES ASSUME NEW k \in 1 .. l - skip PROVE r[k] = s[k + skip]
      OBVIOUS
    <3>1. m + k - 1 = k + skip
      BY <1>1, <1>3, <2>1
    <3> QED BY <2>4, <2>5, <3>1
  <2>7. rest = r
    BY <1>1, <2>1, <2>3
  <2> QED BY <2>4, <2>5, <2>6, <2>7
<1> HIDE DEF rest
<1>5. Len(rest) <= 2 * U16Mod
  BY <1>1, <1>3, <1>4, Moduli
<1>6. Total(Pairs(rest)) \in Nat /\ Left(rest) \in Nat
      /\ Total(Pairs(rest)) + Left(rest) = Total(Words(rest))
      /\ Total(Words(rest)) \in Nat
  <2>1. Total(Pairs(rest)) \in Nat
    BY <1>4, PairsAreWords
  <2>2. Left(rest) \in Nat
    BY <1>4, PairsAreWords
  <2> QED BY <1>4, <2>1, <2>2, PairsAreWords
<1>7. first \in Nat /\ first + Total(Words(rest)) < U32Mod
  <2>1. CASE skip = 1
    <3>1. 1 \in 1 .. Len(s)
      BY <1>1, <1>3, <2>1
    <3>2. s[1] \in Byte
      BY <3>1, ElementOfSeq
    <3> QED BY <1>4, <1>5, <2>1, <3>2, TotalFits, Weights
  <2>2. CASE skip # 1
    BY <1>4, <1>5, <1>6, <2>2, TotalFits
  <2> QED BY <2>1, <2>2
<1>8. PICK u \in Nat : u = first + Total(Words(rest)) /\ u < U32Mod
  BY <1>6, <1>7
<1>9. (Total(Pairs(rest)) + (first + Left(rest))) % U32Mod = u
  <2>1. PICK x, y, z : x = Total(Pairs(rest)) /\ y = first /\ z = Left(rest)
    OBVIOUS
  <2>2. x \in Nat /\ y \in Nat /\ z \in Nat /\ u = y + (x + z)
    BY <1>6, <1>7, <1>8, <2>1
  <2>3. x + (y + z) = u
    BY <2>2
  <2>4. u % U32Mod = u
    BY <1>8, SmallMod, Moduli
  <2> QED BY <2>1, <2>3, <2>4
<1>10. sum = Fold(Fold(u))
  BY <1>9, Zenon
<1> HIDE DEF sum, first
<1>11. sum \in 0 .. M /\ Same(sum, u) /\ sum % U16Mod = sum
  BY <1>8, <1>10, FoldTwice
<1>12. CASE ~at
  <2>1. skip = 0 /\ first = 0
    BY <1>3, <1>12 DEF first
  <2>2. rest = s
    <3>1. Len(rest) = Len(s) /\ \A k \in 1 .. Len(rest) : rest[k] = s[k]
      BY <1>1, <1>4, <2>1
    <3> QED BY <1>4, <3>1, SeqEqual
  <2>3. u = Total(Words(s))
    BY <1>6, <1>8, <2>1, <2>2
  <2> QED BY <1>2, <1>11, <1>12, <2>3
<1>13. CASE at /\ l = 0
  <2>1. skip = 0 /\ first = 0
    BY <1>3, <1>13 DEF first
  <2>2. rest = s
    <3>1. Len(rest) = Len(s) /\ \A k \in 1 .. Len(rest) : rest[k] = s[k]
      BY <1>1, <1>4, <2>1
    <3> QED BY <1>4, <3>1, SeqEqual
  <2>3. u = Total(Words(s))
    BY <1>6, <1>8, <2>1, <2>2
  <2>4. u = 0
    <3>1. Words(s) \in Seq(0 .. M) /\ 2 * Len(Words(s)) \in {l, l + 1}
      BY <1>1, WordsType, Zenon
    <3>2. Len(Words(s)) = 0
      <4>1. PICK w : w = Words(s)
        OBVIOUS
      <4>2. Len(w) \in Nat
        BY <3>1, <4>1, LenProperties
      <4> QED BY <1>13, <3>1, <4>1, <4>2
    <3>3. Total(Words(s)) <= 0 * M
      BY <3>1, <3>2, TotalBound, Moduli
    <3> QED BY <1>8, <2>3, <3>3, Moduli
  <2>5. sum = 0
    BY <1>11, <2>4 DEF Same
  <2>6. SwapBytes(0) \in 0 .. M /\ Same(SwapBytes(0), Base * 0) /\ Base * 0 = 0
    BY <1>11, <2>5, SwapIsSame, Moduli
  <2> QED BY <1>2, <1>13, <2>3, <2>4, <2>5, <2>6
<1>14. CASE at /\ l > 0
  <2>1. skip = 1 /\ first = Base * s[1]
    BY <1>3, <1>14 DEF first
  <2>2. Total(Odd(s)) = u
    <3>1. s # <<>>
      BY <1>1, <1>14, EmptySeq
    <3>2. Len(s) = Len(rest) + 1 /\ \A k \in 1 .. Len(rest) : rest[k] = s[k + 1]
      BY <1>1, <1>4, <2>1
    <3> QED BY <1>4, <1>8, <2>1, <3>1, <3>2, OddWords
  <2>3. PICK e \in Nat : e = Total(Words(s)) /\ e = Total(Even(s))
    BY WordsAreWeights, OddIsSame
  <2>4. Same(u, Base * e) /\ Base * e \in Nat
    BY <2>2, <2>3, OddIsSame, SameWord
  <2>5. PICK v : v = SwapBytes(sum)
    OBVIOUS
  <2>6. v \in 0 .. M /\ Same(v, Base * sum) /\ v \in Nat /\ sum \in Nat
    BY <1>11, <2>5, SwapIsSame, Moduli
  <2>7. Same(Base * sum, Base * u) /\ Base * sum \in Nat /\ Base * u \in Nat
    BY <1>8, <1>11, <2>6, SameTimes, Moduli
  <2>8. Same(Base * u, Base * (Base * e)) /\ Base * (Base * e) \in Nat
    BY <1>8, <2>4, SameTimes, Moduli
  <2>9. Same(Base * (Base * e), e)
    BY SameWord, SameBack
  <2>10. Same(v, Base * u)
    BY <2>6, <2>7, SameThrough
  <2>11. Same(v, Base * (Base * e))
    BY <2>6, <2>7, <2>8, <2>10, SameThrough
  <2>12. Same(v, e)
    BY <2>6, <2>8, <2>9, <2>11, SameThrough
  <2> QED BY <1>2, <1>14, <2>3, <2>5, <2>6, <2>12
<1> QED BY <1>12, <1>13, <1>14

\* So it is the Internet sum.
LEMMA StandardSumIsOnes ==
  ASSUME NEW s \in Seq(Byte), Len(s) <= 2 * U16Mod, NEW at \in BOOLEAN
  PROVE  StandardSum(s, at) = OnesSum(Total(Words(s)))
<1>1. StandardSum(s, at) \in 0 .. M /\ Same(StandardSum(s, at), Total(Words(s)))
      /\ Total(Words(s)) \in Nat
  BY StandardSumIsSame, PairsAreWords
<1> QED BY <1>1, SameUnique

-----------------------------------------------------------------------------
(* The pseudo header.                                                      *)

\* What the pseudo header adds for the addresses fits a u32_t, as their next
\* header and length do with a sum.
LEMMA AddressesFit ==
  ASSUME NEW from \in Addresses, NEW to \in Addresses
  PROVE  Total(from) \in Nat /\ Total(to) \in Nat /\ Total(from) + Total(to) < U32Mod
<1>1. PICK m \in Nat, u \in Nat : m = M /\ u = U16Mod /\ u = m + 1 /\ U32Mod = u * u
                                  /\ Word = 0 .. m /\ m >= 3
  BY Moduli DEF Word, M
<1>2. ASSUME NEW a \in Addresses
      PROVE  Total(a) \in Nat /\ 2 * Total(a) <= u * m
  <2>1. a \in Seq(0 .. m) /\ 2 * Len(a) <= u
    BY <1>1, ChecksumConstants
  <2>2. PICK l \in Nat, t \in Nat : l = Len(a) /\ t = Total(a) /\ t <= l * m
    <3>1. Total(a) \in Nat /\ Total(a) <= Len(a) * m
      BY <2>1, TotalBound
    <3>2. Len(a) \in Nat
      BY <2>1, LenProperties
    <3> QED BY <3>1, <3>2
  <2>3. PICK d \in Nat : u = 2 * l + d
    <3>1. u - 2 * l \in Nat /\ u = 2 * l + (u - 2 * l)
      BY <1>1, <2>1, <2>2
    <3> QED BY <3>1
  <2>4. u * m = 2 * (l * m) + d * m /\ d * m \in Nat /\ l * m \in Nat
    BY <2>3
  <2> QED BY <2>2, <2>4
<1>3. PICK x \in Nat, y \in Nat : x = Total(from) /\ y = Total(to)
                                  /\ 2 * x <= u * m /\ 2 * y <= u * m
  BY <1>2
<1>4. u * u = u * m + u /\ u * m \in Nat
  BY <1>1
<1> QED BY <1>1, <1>3, <1>4

\* A few words fit a u32_t.
LEMMA WordsFit == 4 * M < U32Mod
<1>1. PICK m \in Nat : m = M /\ m >= 3 /\ U16Mod = m + 1 /\ U32Mod = (m + 1) * (m + 1)
  BY Moduli
<1>2. (m + 1) * (m + 1) = m * m + 2 * m + 1 /\ m * m \in Nat
  OBVIOUS
<1>3. m * m >= 3 * m
  <2>1. PICK k \in Nat : m = k + 3
    <3>1. m - 3 \in Nat /\ m = (m - 3) + 3
      BY <1>1
    <3> QED BY <3>1
  <2>2. m * m = k * m + 3 * m /\ k * m \in Nat
    BY <2>1
  <2> QED BY <2>2
<1> QED BY <1>1, <1>2, <1>3

\* The next header and the length are words.
LEMMA HeaderWords ==
  ASSUME NEW next \in Protos, NEW n \in Nat, n < U16Mod
  PROVE  Htons(next) \in 0 .. M /\ Htons(n) \in 0 .. M
<1>1. next \in 0 .. M
  BY ChecksumConstants, Weights
<1>2. n \in 0 .. M
  BY Moduli
<1> QED BY <1>1, <1>2, SwapIsSame DEF Htons

\* What the checksum complements: a u16_t that stands for the sum of the words
\* of the message and of the pseudo header.
LEMMA PseudoIsSame ==
  ASSUME NEW s \in Seq(Byte), Len(s) <= 2 * U16Mod, Len(s) < U16Mod,
         NEW at \in BOOLEAN, NEW next \in Protos,
         NEW from \in Addresses, NEW to \in Addresses
  PROVE  LET all == Total(Words(s))
                    + (Total(from) + Total(to) + Htons(next) + Htons(Len(s)))
         IN  /\ all \in Nat
             /\ \E x \in 0 .. M :
                  Same(x, all) /\ Ip6Chksum(s, at, next, from, to) = M - x
<1>1. PICK a \in Nat : a = Total(from) + Total(to) /\ a < U32Mod
  BY AddressesFit
<1>2. PICK acc \in 0 .. M : acc = Fold(Fold(a)) /\ Same(acc, a)
  BY <1>1, FoldTwice
<1>3. (Total(from) + Total(to)) % U32Mod = a
  BY <1>1, SmallMod, Moduli
<1>4. Ip6Chksum(s, at, next, from, to) = PseudoBase(s, at, next, acc)
  BY <1>2, <1>3 DEF Ip6Chksum
<1>5. PICK w \in Nat, st \in 0 .. M : w = Total(Words(s)) /\ st = StandardSum(s, at)
                                      /\ Same(st, w)
  BY StandardSumIsSame, PairsAreWords
<1>6. PICK m \in Nat, v \in Nat : m = M /\ m >= 3 /\ U16Mod = m + 1 /\ v = U32Mod
                                  /\ 4 * m < v
  BY Moduli, WordsFit
<1>7. acc + st \in Nat /\ acc + st <= 2 * M /\ acc + st < U32Mod
  BY <1>6
<1>8. PICK sum \in 0 .. M : sum = Fold((acc + st) % U32Mod) /\ Same(sum, acc + st)
  <2>1. (acc + st) % U32Mod = acc + st
    BY <1>7, SmallMod, Moduli
  <2>2. Fold(acc + st) \in Nat /\ Same(Fold(acc + st), acc + st) /\ Fold(acc + st) <= M
    BY <1>7, FoldIsSame, FoldFits
  <2> QED BY <1>6, <2>1, <2>2
<1>9. SwapBytes(SwapBytes(sum)) = sum
  BY SwapIsSame
<1>10. PICK p \in 0 .. M, q \in 0 .. M : p = Htons(next) /\ q = Htons(Len(s))
  BY HeaderWords, LenProperties
<1>11. Len(s) % U16Mod = Len(s)
  <2>1. Len(s) \in Nat
    BY LenProperties
  <2> QED BY <2>1, SmallMod, Moduli
<1>12. PICK u \in Nat : u = sum + p + q /\ u < U32Mod
  BY <1>6
<1>13. PICK x \in 0 .. M : x = Fold(Fold(u)) /\ Same(x, u) /\ x % U16Mod = x
  BY <1>12, FoldTwice
<1>14. PseudoBase(s, at, next, acc) = M - x
  <2>1. u % U32Mod = u
    BY <1>12, SmallMod, Moduli
  <2> QED BY <1>5, <1>8, <1>9, <1>10, <1>11, <1>12, <1>13, <2>1 DEF PseudoBase, M
<1>15. PICK all \in Nat : all = w + (a + p + q)
  BY <1>6
<1>16. Same(x, all)
  <2>1. PICK b \in Nat : b = acc + st /\ sum \in Nat /\ x \in Nat /\ acc \in Nat /\ st \in Nat
                         /\ p + q \in Nat
    BY <1>6
  <2>2. Same(b, a + w) /\ a + w \in Nat
    <3>1. Same(acc + st, a + w)
      BY <1>1, <1>2, <1>5, <2>1, SameAdds
    <3> QED BY <2>1, <3>1
  <2>3. Same(sum, a + w)
    BY <1>8, <2>1, <2>2, SameThrough
  <2>4. Same(p + q, p + q)
    BY <2>1, SameItself
  <2>5. Same(sum + (p + q), (a + w) + (p + q))
    BY <2>1, <2>2, <2>3, <2>4, SameAdds
  <2>6. sum + (p + q) = u /\ (a + w) + (p + q) = all
    BY <1>6, <1>12, <1>15
  <2> QED BY <1>12, <1>13, <1>15, <2>1, <2>5, <2>6, SameThrough
<1> QED BY <1>1, <1>4, <1>5, <1>10, <1>13, <1>14, <1>15, <1>16

-----------------------------------------------------------------------------
(* The theorems.                                                           *)

MessageType ==
  /\ data \in Seq(Byte) /\ Len(data) <= MaxLen /\ odd \in BOOLEAN
  /\ proto \in Protos /\ src \in Addresses /\ dest \in Addresses

\* The variables keep their types.
LEMMA MessagesAreTyped == Messages => []MessageType
<1>1. FirstMessage => MessageType
  <2>1. <<>> \in Seq(Byte) /\ Len(<<>>) = 0
    BY EmptySeq
  <2> QED BY <2>1, Moduli DEF FirstMessage, MessageType
<1>2. MessageType /\ [NextMessage]_messageVars => MessageType'
  <2> SUFFICES ASSUME MessageType, [NextMessage]_messageVars PROVE MessageType'
    OBVIOUS
  <2>1. CASE Extend
    <3>1. PICK b \in Byte : data' = Append(data, b)
      BY <2>1 DEF Extend
    <3>2. data' \in Seq(Byte) /\ Len(data') = Len(data) + 1
      BY <3>1 DEF MessageType
    <3>3. Len(data) \in Nat /\ Len(data) < MaxLen
      BY <2>1, LenProperties DEF Extend, MessageType
    <3>4. Len(data') <= MaxLen
      BY <3>2, <3>3, Moduli
    <3> QED BY <2>1, <3>2, <3>4 DEF Extend, MessageType
  <2>2. CASE Restart
    <3>1. <<>> \in Seq(Byte) /\ Len(<<>>) = 0
      BY EmptySeq
    <3> QED BY <2>2, <3>1, Moduli DEF Restart, MessageType
  <2>3. CASE UNCHANGED messageVars
    BY <2>3 DEF messageVars, MessageType
  <2> QED BY <2>1, <2>2, <2>3 DEF NextMessage
<1> QED BY <1>1, <1>2, PTL DEF Messages

\* A message is short enough to be summed.
LEMMA LengthFits ==
  MessageType => data \in Seq(Byte) /\ Len(data) \in Nat /\ Len(data) <= 2 * U16Mod
<1> SUFFICES ASSUME MessageType
             PROVE  data \in Seq(Byte) /\ Len(data) \in Nat /\ Len(data) <= 2 * U16Mod
  OBVIOUS
<1>1. data \in Seq(Byte) /\ Len(data) \in Nat
  BY LenProperties DEF MessageType
<1>2. Len(data) <= MaxLen
  BY DEF MessageType
<1> QED BY <1>1, <1>2, Moduli

\* lwip_standard_chksum gives the Internet sum of a buffer of any length, at
\* an even address or an odd one, for bytes of any size.
THEOREM SumsAreInternetSums == Messages => []SumIsInternetSum
<1>1. MessageType => SumIsInternetSum
  BY LengthFits, StandardSumIsOnes DEF SumIsInternetSum, MessageType
<1> QED BY <1>1, MessagesAreTyped, PTL

\* ip6_chksum_pseudo gives the complement of the Internet sum of the message
\* and its pseudo header, for every length that a u16_t holds.
THEOREM ChecksumsAreComplements == Messages => []ChecksumIsComplement
<1>1. MessageType => ChecksumIsComplement
  <2> SUFFICES ASSUME MessageType, Len(data) < U16Mod
               PROVE  Ip6Chksum(data, odd, proto, src, dest)
                        = (U16Mod - 1) - OnesSum(Total(Words(data)) + PseudoTotal)
    BY DEF ChecksumIsComplement
  <2>1. PICK all : all = Total(Words(data)) + PseudoTotal
    OBVIOUS
  <2>2. PICK x \in 0 .. M :
          all \in Nat /\ Same(x, all)
          /\ Ip6Chksum(data, odd, proto, src, dest) = M - x
    BY <2>1, LengthFits, PseudoIsSame DEF MessageType, PseudoTotal
  <2>3. x = OnesSum(all)
    BY <2>2, SameUnique
  <2> QED BY <2>1, <2>2, <2>3 DEF M
<1> QED BY <1>1, MessagesAreTyped, PTL

\* A word stored in the second place of a buffer that has none there adds to
\* the sum of its words.
LEMMA StampAdds ==
  ASSUME NEW s \in Seq(Byte), Len(s) >= 4, NEW h \in Byte, NEW l \in Byte
  PROVE  LET blank == [s EXCEPT ![3] = 0, ![4] = 0]
             full  == [s EXCEPT ![3] = l, ![4] = h]
         IN  /\ blank \in Seq(Byte) /\ Len(blank) = Len(s)
             /\ full \in Seq(Byte) /\ Len(full) = Len(s)
             /\ Total(Words(full)) = Total(Words(blank)) + (Base * h + l)
<1>1. PICK n \in Nat : n = Len(s) /\ n >= 4
  BY LenProperties
<1>2. ASSUME NEW x \in Byte, NEW y \in Byte
      PROVE  LET t == [s EXCEPT ![3] = x, ![4] = y]
             IN  /\ t \in Seq(Byte) /\ Len(t) = n
                 /\ \A k \in 1 .. n : t[k] = IF k = 3 THEN x ELSE IF k = 4 THEN y ELSE s[k]
  <2>1. 3 \in 1 .. Len(s) /\ 4 \in 1 .. Len(s)
    BY <1>1
  <2>2. PICK t : t = [s EXCEPT ![3] = x]
    OBVIOUS
  <2>3. /\ t \in Seq(Byte) /\ Len(t) = Len(s)
        /\ \A k \in 1 .. Len(s) : t[k] = IF k = 3 THEN x ELSE s[k]
    BY <2>1, <2>2, ExceptSeq
  <2>4. PICK u : u = [t EXCEPT ![4] = y]
    OBVIOUS
  <2>5. /\ u \in Seq(Byte) /\ Len(u) = Len(t)
        /\ \A k \in 1 .. Len(t) : u[k] = IF k = 4 THEN y ELSE t[k]
    BY <2>1, <2>3, <2>4, ExceptSeq
  <2>6. [s EXCEPT ![3] = x, ![4] = y] = u
    BY <2>2, <2>4
  <2>7. \A k \in 1 .. n : u[k] = IF k = 3 THEN x ELSE IF k = 4 THEN y ELSE s[k]
    BY <1>1, <2>3, <2>5
  <2> QED BY <1>1, <2>3, <2>5, <2>6, <2>7
<1>3. 0 \in Byte
  BY Moduli DEF Byte
<1>4. PICK b, f : b = [s EXCEPT ![3] = 0, ![4] = 0] /\ f = [s EXCEPT ![3] = l, ![4] = h]
  OBVIOUS
<1>5. /\ b \in Seq(Byte) /\ Len(b) = n
      /\ \A k \in 1 .. n : b[k] = IF k = 3 THEN 0 ELSE IF k = 4 THEN 0 ELSE s[k]
  BY <1>2, <1>3, <1>4
<1>6. /\ f \in Seq(Byte) /\ Len(f) = n
      /\ \A k \in 1 .. n : f[k] = IF k = 3 THEN l ELSE IF k = 4 THEN h ELSE s[k]
  BY <1>2, <1>4
<1>7. PICK v, w : v = Words(b) /\ w = Words(f)
  OBVIOUS
<1>8. PICK c \in Nat : c = Base * h + l
  BY Weights
<1>9. PICK m : m = Len(v)
  OBVIOUS
<1>10. /\ v \in Seq(0 .. M) /\ m = (n + 1) \div 2 /\ 2 * m \in {n, n + 1}
       /\ \A i \in 1 .. m : v[i] = b[2 * i - 1]
                                   + (IF 2 * i <= n THEN Base * b[2 * i] ELSE 0)
  BY <1>5, <1>7, <1>9, WordsType, Zenon
<1>11. /\ w \in Seq(0 .. M) /\ Len(w) = m
       /\ \A i \in 1 .. m : w[i] = f[2 * i - 1]
                                   + (IF 2 * i <= n THEN Base * f[2 * i] ELSE 0)
  <2>1. Len(w) = (n + 1) \div 2
    BY <1>6, <1>7, WordsType, Zenon
  <2>2. Len(w) = m
    BY <1>10, <2>1
  <2> QED BY <1>6, <1>7, <2>2, WordsType, Zenon
<1>12. v \in Seq(Nat) /\ w \in Seq(Nat) /\ m \in Nat /\ m >= 2
  <2>1. 0 .. M \subseteq Nat
    BY Moduli
  <2>2. m \in Nat
    BY <1>9, <1>10, LenProperties
  <2>3. v \in Seq(Nat) /\ w \in Seq(Nat)
    BY <1>10, <1>11, <2>1, SeqMonotonic
  <2>4. m >= 2
    BY <1>1, <1>10, <2>2
  <2> QED BY <2>2, <2>3, <2>4
<1>13. w[2] = v[2] + c
  <2>1. 2 \in 1 .. m /\ 2 * 2 - 1 = 3 /\ 2 * 2 = 4 /\ 4 <= n /\ 3 \in 1 .. n /\ 4 \in 1 .. n
    BY <1>1, <1>12
  <2>2. v[2] = b[3] + Base * b[4] /\ w[2] = f[3] + Base * f[4]
    BY <1>10, <1>11, <2>1
  <2>3. b[3] = 0 /\ b[4] = 0 /\ f[3] = l /\ f[4] = h
    BY <1>5, <1>6, <2>1
  <2>4. PICK x \in Nat, y \in Nat : x = l /\ y = Base * h
    BY Weights
  <2>5. Base * 0 = 0
    BY Moduli
  <2> QED BY <1>8, <2>2, <2>3, <2>4, <2>5
<1>14. ASSUME NEW i \in 1 .. m, i # 2 PROVE w[i] = v[i]
  <2>1. PICK j, k : j = 2 * i - 1 /\ k = 2 * i
    OBVIOUS
  <2>2. /\ j \in 1 .. n /\ j # 3 /\ j # 4
        /\ k # 3 /\ k # 4 /\ (k <= n => k \in 1 .. n)
    BY <1>1, <1>10, <1>12, <1>14, <2>1
  <2>3. b[j] = f[j] /\ (k <= n => b[k] = f[k])
    BY <1>5, <1>6, <2>2
  <2>4. v[i] = b[j] + (IF k <= n THEN Base * b[k] ELSE 0)
        /\ w[i] = f[j] + (IF k <= n THEN Base * f[k] ELSE 0)
    BY <1>10, <1>11, <2>1
  <2> QED BY <2>3, <2>4
<1>15. Total(w) = Total(v) + c
  <2>1. 2 \in 1 .. Len(v)
    BY <1>9, <1>12
  <2> QED BY <1>8, <1>9, <1>11, <1>12, <1>13, <1>14, <2>1, TotalAdds, SMTT(30)
<1> QED BY <1>1, <1>4, <1>5, <1>6, <1>7, <1>8, <1>15

\* A receiver that checks a message that carries its checksum finds zero,
\* whatever the alignment of its copy.
THEOREM ReceiversAccept == Messages => []ReceiverAccepts
<1>1. MessageType => ReceiverAccepts
  <2> SUFFICES ASSUME MessageType, Len(data) \in 4 .. U16Mod - 1, NEW at \in BOOLEAN
               PROVE  Ip6Chksum(Stamped, at, proto, src, dest) = 0
    BY DEF ReceiverAccepts
  <2>1. PICK n \in Nat : n = Len(data) /\ n >= 4 /\ n < U16Mod /\ n <= 2 * U16Mod
    BY LengthFits, Moduli
  <2>2. PICK blank : blank = [data EXCEPT ![3] = 0, ![4] = 0]
    OBVIOUS
  <2>3. blank \in Seq(Byte) /\ Len(blank) = n
    <3>1. 0 \in Byte /\ Len(data) >= 4
      BY <2>1, Moduli DEF Byte
    <3> QED BY <2>1, <2>2, <3>1, LengthFits, StampAdds
  <2>4. PICK p : p = Total(src) + Total(dest) + Htons(proto) + Htons(n)
    OBVIOUS
  <2>5. PICK all, w : w = Total(Words(blank)) /\ all = w + p
    OBVIOUS
  <2>6. PICK x \in 0 .. M :
          all \in Nat /\ Same(x, all)
          /\ Ip6Chksum(blank, odd, proto, src, dest) = M - x
    BY <2>1, <2>3, <2>4, <2>5, PseudoIsSame DEF MessageType
  <2>7. PICK c \in 0 .. M : c = M - x /\ x + c = M /\ c \in Nat /\ x \in Nat /\ M \in Nat
    BY Moduli
  <2>8. PICK h \in Byte, l \in Byte :
          c = Base * h + l /\ h = c \div Base /\ l = c % Base
    BY BytesOf
  <2>9. PICK full : full = [data EXCEPT ![3] = l, ![4] = h]
    OBVIOUS
  <2>10. Stamped = full
    BY <2>2, <2>6, <2>7, <2>8, <2>9 DEF Stamped
  <2>11. full \in Seq(Byte) /\ Len(full) = n /\ Total(Words(full)) = w + c
    <3>1. Len(data) >= 4
      BY <2>1
    <3> QED BY <2>1, <2>2, <2>5, <2>8, <2>9, <3>1, LengthFits, StampAdds
  <2>12. PICK y \in 0 .. M :
           /\ w + c + p \in Nat /\ Same(y, w + c + p)
           /\ Ip6Chksum(full, at, proto, src, dest) = M - y
    BY <2>1, <2>4, <2>11, PseudoIsSame DEF MessageType
  <2>13. w + c + p = all + c
    <3>1. w \in Nat
      BY <2>3, <2>5, PairsAreWords
    <3>2. p \in Nat
      <4>1. Total(src) \in Nat /\ Total(dest) \in Nat
        BY AddressesFit DEF MessageType
      <4>2. Htons(proto) \in 0 .. M /\ Htons(n) \in 0 .. M
        BY <2>1, HeaderWords DEF MessageType
      <4> QED BY <2>4, <2>7, <4>1, <4>2
    <3> QED BY <2>5, <2>7, <3>1, <3>2
  <2>14. Same(M, all + c)
    <3>1. Same(c, c)
      BY <2>7, SameItself
    <3>2. Same(x + c, all + c)
      BY <2>6, <2>7, <3>1, SameAdds
    <3> QED BY <2>7, <3>2
  <2>15. y = OnesSum(all + c) /\ M = OnesSum(all + c)
    <3>1. M \in 0 .. M /\ all + c \in Nat
      BY <2>6, <2>7
    <3> QED BY <2>12, <2>13, <2>14, <3>1, SameUnique
  <2> QED BY <2>7, <2>10, <2>12, <2>15
<1> QED BY <1>1, MessagesAreTyped, PTL

-----------------------------------------------------------------------------
(* The reception of frames.                                                *)


\* A field that ends within a frame is the frame's after it was read.
LEMMA FieldOfFrame ==
  ASSUME NEW b, NEW f, NEW x \in Fields, f.len >= Ends[x]
  PROVE  Overlay(b, f)[x] = f.content[x]
BY DEF Overlay

\* Once the headers fit, the fields the code decides by are the frame's, as
\* far as the frame reaches.
LEMMA HeaderFields ==
  ASSUME NEW b, NEW f, f.len \in Nat, f.len >= EthSize + Ip6Size
  PROVE  /\ Overlay(b, f).proto = f.content.proto
         /\ Overlay(b, f).plen = f.content.plen
         /\ Overlay(b, f).next = f.content.next
<1>1. Ends["proto"] = 14 /\ Ends["plen"] = 20 /\ Ends["next"] = 21
  BY DEF Ends
<1>2. f.len >= 54 BY DEF EthSize, Ip6Size
<1>3. "proto" \in Fields /\ "plen" \in Fields /\ "next" \in Fields
  BY DEF Fields
<1> QED BY <1>1, <1>2, <1>3, FieldOfFrame

\* A frame that holds a whole heartbeat message leaves it in the buffer.
LEMMA MessageFields ==
  ASSUME NEW b, NEW f, f.len \in Nat,
         f.len >= PayloadAt + HeaderSize + HeartbeatSize
  PROVE  /\ Overlay(b, f).low = f.content.low
         /\ Overlay(b, f).high = f.content.high
         /\ Overlay(b, f).time = f.content.time
         /\ Overlay(b, f).lease = f.content.lease
<1>1. /\ Ends["low"] = 55 /\ Ends["high"] = 56
      /\ Ends["time"] = 68 /\ Ends["lease"] = 72
  BY DEF Ends
<1>2. f.len >= 72
  BY DEF PayloadAt, EthSize, Ip6Size, HeaderSize, HeartbeatSize
<1>3. {"low", "high", "time", "lease"} \subseteq Fields
  BY DEF Fields
<1> QED BY <1>1, <1>2, <1>3, FieldOfFrame

\* Lengths are numbers.
LEMMA Numbers == Lengths \subseteq Nat /\ Plens \subseteq Nat
<1>1. 1 .. MaxFrameSize \subseteq Nat /\ 0 .. MaxPlen \subseteq Nat
  OBVIOUS
<1> QED BY <1>1, FrameConstants DEF FrameConstants

\* The length of a frame is a number, and so is the payload length of one
\* that reaches past the IPv6 header.
LEMMA FrameTypes ==
  ASSUME NEW f \in Frames
  PROVE  /\ f.len \in Nat
         /\ f.len >= EthSize + Ip6Size => f.content.plen \in Nat
<1>1. f.len \in Lengths /\ f.content.plen \in Plens \cup {Absent}
  BY DEF Frames, Values
<1>2. f.content.plen = Absent <=> f.len <= Starts["plen"]
  <2>1. "plen" \in Fields BY DEF Fields
  <2>2. \A x \in Fields : f.content[x] = Absent <=> f.len <= Starts[x]
    BY DEF Frames
  <2>3. f.content["plen"] = Absent <=> f.len <= Starts["plen"]
    BY <2>1, <2>2
  <2> QED BY <2>3
<1>3. Starts["plen"] = 18 BY DEF Starts
<1>4. f.len \in Nat BY <1>1, Numbers
<1>5. f.len >= EthSize + Ip6Size => f.content.plen \in Plens
  BY <1>1, <1>2, <1>3, <1>4 DEF EthSize, Ip6Size
<1> QED BY <1>4, <1>5, Numbers

-----------------------------------------------------------------------------
\* The three facts of the step that read a frame: they need no history.
Judged == WholeFrameIsItself /\ HeadersAreItsOwn /\ OwnHeartbeatHeard

\* A frame that was accepted as a heartbeat is judged rightly.
LEMMA HeartbeatJudged ==
  ASSUME NEW f \in Frames, AcceptHeartbeat(f) PROVE Judged'
<1>1. /\ frame' = f /\ input' = Overlay(input, f)
      /\ verdict' = "heartbeat"
      /\ heard' = [time |-> input'.time, lease |-> input'.lease]
  BY DEF AcceptHeartbeat, ReadFrame
<1>2. f.len \in Nat /\ f.len >= EthSize + Ip6Size
  BY FrameTypes DEF AcceptHeartbeat, IsIpv6
<1>3. /\ f.content.plen \in Nat
      /\ input'.proto = f.content.proto /\ input'.plen = f.content.plen
      /\ input'.next = f.content.next
  BY <1>1, <1>2, FrameTypes, HeaderFields
<1>4. /\ f.content.proto = "ip6" /\ f.content.next = "bcmp"
      /\ f.content.plen >= HeaderSize + HeartbeatSize
      /\ input'.low = 1 /\ input'.high = 0
  BY <1>3 DEF AcceptHeartbeat, IsIpv6, IsHeartbeat
<1>5. HeadersAreItsOwn' BY <1>1, <1>4 DEF HeadersAreItsOwn
<1>6. ASSUME f.len >= PayloadAt + HeaderSize + HeartbeatSize
      PROVE  /\ f.content.low = 1 /\ f.content.high = 0
             /\ heard' = [time |-> f.content.time, lease |-> f.content.lease]
  <2>1. /\ input'.low = f.content.low /\ input'.high = f.content.high
        /\ input'.time = f.content.time /\ input'.lease = f.content.lease
    BY <1>1, <1>2, <1>6, MessageFields
  <2> QED BY <1>1, <1>4, <2>1
<1>7. WholeFrameIsItself'
  <2>1. ASSUME Whole(f)
        PROVE  f.len >= PayloadAt + HeaderSize + HeartbeatSize
    BY <1>2, <1>3, <1>4, <2>1
       DEF Whole, PayloadAt, EthSize, Ip6Size, HeaderSize, HeartbeatSize
  <2> QED BY <1>1, <1>6, <2>1 DEF WholeFrameIsItself
<1>8. OwnHeartbeatHeard'
  <2> SUFFICES ASSUME NEW time \in Stamps, NEW lease \in Stamps,
                      f = OwnFrame(time, lease)
               PROVE  heard' = [time |-> time, lease |-> lease]
    BY <1>1 DEF OwnHeartbeatHeard
  <2>1. /\ f.len = EthSize + Ip6Size + HeaderSize + HeartbeatSize
        /\ f.content.time = time /\ f.content.lease = lease
    BY DEF OwnFrame
  <2>2. f.len >= PayloadAt + HeaderSize + HeartbeatSize
    BY <2>1 DEF PayloadAt, EthSize, Ip6Size, HeaderSize, HeartbeatSize
  <2> QED BY <1>6, <2>1, <2>2
<1> QED BY <1>5, <1>7, <1>8 DEF Judged

\* So is one that was accepted as UDP or dropped: it is none the application
\* sends.
LEMMA OthersJudged ==
  ASSUME NEW f \in Frames, AcceptUdp(f) \/ Drop(f) PROVE Judged'
<1>1. /\ frame' = f /\ input' = Overlay(input, f)
      /\ verdict' \in {"udp", "drop"}
  BY DEF AcceptUdp, Drop, ReadFrame
<1>2. f.len \in Nat BY FrameTypes
<1>3. HeadersAreItsOwn'
  <2>1. CASE AcceptUdp(f)
    <3>1. /\ f.len >= EthSize + Ip6Size /\ verdict' = "udp"
          /\ input'.proto = "ip6" /\ input'.next = "udp"
      BY <2>1 DEF AcceptUdp, IsIpv6
    <3>2. /\ input'.proto = f.content.proto
          /\ input'.next = f.content.next
      BY <1>1, <1>2, <3>1, HeaderFields
    <3> QED BY <1>1, <3>1, <3>2 DEF HeadersAreItsOwn
  <2>2. CASE Drop(f)
    BY <2>2 DEF Drop, HeadersAreItsOwn
  <2> QED BY <2>1, <2>2
<1>4. WholeFrameIsItself' BY <1>1 DEF WholeFrameIsItself
<1>5. OwnHeartbeatHeard'
  <2> SUFFICES ASSUME NEW time \in Stamps, NEW lease \in Stamps,
                      f = OwnFrame(time, lease)
               PROVE  FALSE
    BY <1>1 DEF OwnHeartbeatHeard
  <2>1. /\ f.len = 72 /\ f.content.proto = "ip6"
        /\ f.content.next = "bcmp" /\ f.content.plen = 18
        /\ f.content.low = 1 /\ f.content.high = 0
    BY DEF OwnFrame, EthSize, Ip6Size, HeaderSize, HeartbeatSize
  <2>2. /\ f.len >= EthSize /\ f.len >= EthSize + Ip6Size
        /\ f.len >= PayloadAt + HeaderSize + HeartbeatSize
    BY <2>1 DEF EthSize, Ip6Size, PayloadAt, HeaderSize, HeartbeatSize
  <2>3. /\ input'.proto = "ip6" /\ input'.plen = 18
        /\ input'.next = "bcmp" /\ input'.low = 1 /\ input'.high = 0
    BY <1>1, <1>2, <2>1, <2>2, HeaderFields, MessageFields
  <2>4. IsIpv6(input', f.len) /\ IsHeartbeat(input')
    BY <2>2, <2>3 DEF IsIpv6, IsHeartbeat, HeaderSize, HeartbeatSize
  <2> QED BY <2>3, <2>4 DEF AcceptUdp, Drop
<1> QED BY <1>3, <1>4, <1>5 DEF Judged

\* Every frame is judged rightly, whatever was read before it.
LEMMA AllJudged == Reception => []Judged
<1>1. FirstBuffer => Judged
  <2> SUFFICES ASSUME FirstBuffer PROVE Judged
    OBVIOUS
  <2>1. verdict = "drop" /\ frame.len = 0 BY DEF FirstBuffer, NoFrame
  <2>2. OwnHeartbeatHeard
    BY <2>1 DEF OwnHeartbeatHeard, OwnFrame, EthSize, Ip6Size, HeaderSize,
                HeartbeatSize
  <2> QED BY <2>1, <2>2 DEF Judged, WholeFrameIsItself, HeadersAreItsOwn
<1>2. NextFrame => Judged' BY HeartbeatJudged, OthersJudged DEF NextFrame
<1>3. Judged /\ UNCHANGED rxVars => Judged'
  BY DEF Judged, WholeFrameIsItself, HeadersAreItsOwn, OwnHeartbeatHeard,
         rxVars
<1> QED BY <1>1, <1>2, <1>3, PTL DEF Reception

\* A frame as long as it says is judged by its own bytes alone.
THEOREM WholeFramesAreThemselves == Reception => []WholeFrameIsItself
<1>1. Judged => WholeFrameIsItself BY DEF Judged
<1> QED BY <1>1, AllJudged, PTL

\* No frame is accepted for another frame's Ethernet or IPv6 header.
THEOREM HeadersAreOwn == Reception => []HeadersAreItsOwn
<1>1. Judged => HeadersAreItsOwn BY DEF Judged
<1> QED BY <1>1, AllJudged, PTL

\* The frames the application sends are heard by it, after any history.
THEOREM OwnHeartbeatsHeard == Reception => []OwnHeartbeatHeard
<1>1. Judged => OwnHeartbeatHeard BY DEF Judged
<1> QED BY <1>1, AllJudged, PTL
=============================================================================
