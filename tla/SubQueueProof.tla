--------------------------- MODULE SubQueueProof ----------------------------
(***************************************************************************)
(* Proofs about the counters of SubQueue, for every number of consumers,   *)
(* every kind of sub-queue, every number of blocks and every wrap of the   *)
(* indices that is more than twice what is enqueued.                       *)
(*                                                                         *)
(* That nothing is claimed which was not published holds in behaviours in  *)
(* which nobody oversleeps.  The invariant speaks of the numbers the four  *)
(* counters stand for before they wrap, and of each consumer's share in    *)
(* what is published.  That the counters balance needs no condition; it is *)
(* shown at the end.                                                       *)
(***************************************************************************)
EXTENDS SubQueue, FiniteSetTheorems, TLAPS

-----------------------------------------------------------------------------
(* Numbers that count modulo w.                                            *)

\* The quotient and the remainder.
LEMMA Residue ==
  ASSUME NEW a \in Int, NEW w \in Nat \ {0}
  PROVE  /\ a % w \in 0 .. w - 1
         /\ \E q \in Int : a = w * q + (a % w)
<1>1. PICK q, r : q = a \div w /\ r = a % w
  OBVIOUS
<1>2. q \in Int /\ r \in 0 .. w - 1 /\ a = w * q + r
  BY <1>1, Z3
<1> QED BY <1>1, <1>2

\* There are no others.
LEMMA ResidueUnique ==
  ASSUME NEW a \in Int, NEW w \in Nat \ {0}, NEW q \in Int, NEW r \in 0 .. w - 1,
         a = w * q + r
  PROVE  a % w = r
<1>1. PICK p \in Int : a = w * p + (a % w)
  BY Residue
<1>2. PICK s : s = a % w
  OBVIOUS
<1>3. s \in 0 .. w - 1 /\ a = w * p + s
  BY <1>1, <1>2, Residue
<1>4. PICK m \in Int : m = q - p
  OBVIOUS
<1>5. w * m = w * q - w * p /\ w * q \in Int /\ w * p \in Int
  BY <1>4
<1>6. w * m = s - r
  BY <1>3, <1>5
<1>7. ASSUME m >= 1 PROVE FALSE
  <2>1. PICK l \in Nat : m = l + 1
    <3>1. m - 1 \in Nat /\ m = (m - 1) + 1
      BY <1>7
    <3> QED BY <3>1
  <2>2. w * m = w * l + w /\ w * l \in Nat
    BY <2>1
  <2> QED BY <1>3, <1>6, <2>2
<1>8. ASSUME m <= -1 PROVE FALSE
  <2>1. PICK l \in Nat : m = 0 - (l + 1)
    <3>1. 0 - m - 1 \in Nat /\ m = 0 - ((0 - m - 1) + 1)
      BY <1>8
    <3> QED BY <3>1
  <2>2. w * m = 0 - w * l - w /\ w * l \in Nat
    BY <2>1
  <2> QED BY <1>3, <1>6, <2>2
<1>9. m = 0
  BY <1>7, <1>8
<1>10. w * m = 0
  BY <1>9
<1> QED BY <1>2, <1>3, <1>6, <1>10

\* A number below w is its own remainder.
LEMMA SmallResidue ==
  ASSUME NEW w \in Nat \ {0}, NEW r \in 0 .. w - 1
  PROVE  r % w = r
<1>1. r = w * 0 + r
  OBVIOUS
<1> QED BY <1>1, ResidueUnique

\* Numbers a multiple of w apart have the same remainder.
LEMMA SameResidue ==
  ASSUME NEW w \in Nat \ {0}, NEW a \in Int, NEW b \in Int, NEW k \in Int,
         a = w * k + b
  PROVE  a % w = b % w
<1>1. PICK q \in Int : b = w * q + (b % w)
  BY Residue
<1>2. PICK r : r = b % w
  OBVIOUS
<1>3. r \in 0 .. w - 1 /\ b = w * q + r
  BY <1>1, <1>2, Residue
<1>4. PICK m \in Int : m = k + q
  OBVIOUS
<1>5. w * m = w * k + w * q /\ w * k \in Int /\ w * q \in Int
  BY <1>4
<1>6. a = w * m + r
  BY <1>3, <1>5
<1>7. a % w = r
  BY <1>3, <1>6, ResidueUnique
<1> QED BY <1>2, <1>7

\* Remainders add and subtract like the numbers.
LEMMA ResiduePlus ==
  ASSUME NEW w \in Nat \ {0}, NEW a \in Int, NEW b \in Int
  PROVE  ((a % w) + b) % w = (a + b) % w
<1>1. PICK q \in Int : a = w * q + (a % w)
  BY Residue
<1>2. PICK r : r = a % w
  OBVIOUS
<1>3. r \in 0 .. w - 1 /\ a = w * q + r
  BY <1>1, <1>2, Residue
<1>4. w * q \in Int
  OBVIOUS
<1>5. a + b = w * q + (r + b) /\ r + b \in Int /\ a + b \in Int
  BY <1>3, <1>4
<1>6. (a + b) % w = (r + b) % w
  BY <1>5, SameResidue
<1> QED BY <1>2, <1>6

LEMMA ResidueMinus ==
  ASSUME NEW w \in Nat \ {0}, NEW a \in Int, NEW b \in Int
  PROVE  (a - (b % w)) % w = (a - b) % w
<1>1. PICK q \in Int : b = w * q + (b % w)
  BY Residue
<1>2. PICK r : r = b % w
  OBVIOUS
<1>3. r \in 0 .. w - 1 /\ b = w * q + r
  BY <1>1, <1>2, Residue
<1>4. w * q \in Int
  OBVIOUS
<1>5. a - r = w * q + (a - b) /\ a - r \in Int /\ a - b \in Int
  BY <1>3, <1>4
<1>6. (a - r) % w = (a - b) % w
  BY <1>5, SameResidue
<1> QED BY <1>2, <1>6

LEMMA ResidueLess ==
  ASSUME NEW w \in Nat \ {0}, NEW a \in Int, NEW b \in Int
  PROVE  ((a % w) - (b % w)) % w = (a - b) % w
<1>1. PICK r : r = b % w
  OBVIOUS
<1>2. r \in Int /\ 0 - r \in Int
  BY <1>1, Residue
<1>3. ((a % w) + (0 - r)) % w = (a + (0 - r)) % w
  BY <1>2, ResiduePlus
<1>4. PICK s : s = a % w
  OBVIOUS
<1>5. s \in Int
  BY <1>4, Residue
<1>6. s + (0 - r) = s - r /\ a + (0 - r) = a - r
  BY <1>2, <1>5
<1> QED BY <1>1, <1>3, <1>4, <1>6, ResidueMinus

\* How far one number less another is ahead of a third, by their remainders.
LEMMA ResidueAhead ==
  ASSUME NEW w \in Nat \ {0}, NEW H \in Int, NEW O \in Int, NEW v \in Int
  PROVE  (((O % w) - (v % w)) - (H % w)) % w = ((O - v) - H) % w
<1>1. PICK a, b, h : a = O % w /\ b = v % w /\ h = H % w
  OBVIOUS
<1>2. a \in Int /\ b \in Int /\ h \in Int
  BY <1>1, Residue
<1>3. PICK y \in Int, z \in Int, u \in Int :
        y = a - b /\ z = a - H /\ u = 0 - (H + v)
  BY <1>2
<1>4. (y - h) % w = (y - H) % w
  BY <1>1, ResidueMinus
<1>5. (z - b) % w = (z - v) % w
  BY <1>1, ResidueMinus
<1>6. (a + u) % w = (O + u) % w
  BY <1>1, ResiduePlus
<1>7. y - H = z - b /\ z - v = a + u /\ (O - v) - H = O + u
  BY <1>2, <1>3
<1>8. ((a - b) - h) % w = (y - h) % w
  BY <1>3
<1> QED BY <1>1, <1>4, <1>5, <1>6, <1>7, <1>8

\* The order of two indices is that of the numbers they stand for, if these are
\* no further apart than half a round.
LEMMA CircularLess ==
  ASSUME NEW w \in Nat \ {0}, NEW a \in Int, NEW b \in Int,
         a - b <= w \div 2, b - a < w - (w \div 2)
  PROVE  ((a % w) - (b % w)) % w > w \div 2 <=> a < b
<1>1. ((a % w) - (b % w)) % w = (a - b) % w
  BY ResidueLess
<1>2. PICK h : h = w \div 2
  OBVIOUS
<1>3. h \in Nat /\ h < w
  <2>1. w \div 2 \in Nat /\ w \div 2 < w
    OBVIOUS
  <2> QED BY <1>2, <2>1
<1>4. PICK d \in Int : d = a - b
  OBVIOUS
<1>5. d <= h /\ 0 - d < w - h
  BY <1>2, <1>4
<1>6. CASE a < b
  <2>1. d + w \in 0 .. w - 1 /\ d + w > h
    BY <1>3, <1>4, <1>5, <1>6
  <2>2. d = w * (0 - 1) + (d + w) /\ 0 - 1 \in Int
    BY <1>3
  <2>3. d % w = d + w
    BY <2>1, <2>2, ResidueUnique
  <2> QED BY <1>1, <1>2, <1>4, <1>6, <2>1, <2>3
<1>7. CASE ~(a < b)
  <2>1. d \in 0 .. w - 1 /\ ~(d > h)
    BY <1>3, <1>4, <1>5, <1>7
  <2>2. d % w = d
    BY <2>1, SmallResidue
  <2> QED BY <1>1, <1>2, <1>4, <1>7, <2>1, <2>2
<1> QED BY <1>6, <1>7

-----------------------------------------------------------------------------
(* Sums, and how they change with one of their summands.                   *)

\* A sum as a set of cells, a row of them for each summand.
Row(f, x) == {x} \X (1 .. f[x])
Cells(S, f) == UNION {Row(f, x) : x \in S}

\* A sum is counted out in as many cells as the summands have units, and they
\* are finitely many.
LEMMA CellsAreFinite ==
  ASSUME NEW S, IsFiniteSet(S), NEW f \in [S -> Nat]
  PROVE  /\ IsFiniteSet(Cells(S, f)) /\ Total(S, f) = Cardinality(Cells(S, f))
         /\ \A x \in S : IsFiniteSet(Row(f, x)) /\ Cardinality(Row(f, x)) = f[x]
<1>1. \A x \in S : IsFiniteSet(Row(f, x)) /\ Cardinality(Row(f, x)) = f[x]
  <2> TAKE x \in S
  <2>1. f[x] \in Nat
    OBVIOUS
  <2>2. IsFiniteSet({x}) /\ Cardinality({x}) = 1
    BY FS_Singleton
  <2>3. IsFiniteSet(1 .. f[x]) /\ Cardinality(1 .. f[x]) = f[x]
    BY <2>1, FS_Interval
  <2>4. /\ IsFiniteSet({x} \X (1 .. f[x]))
        /\ Cardinality({x} \X (1 .. f[x])) = Cardinality({x}) * Cardinality(1 .. f[x])
    BY <2>2, <2>3, FS_Product
  <2>5. Cardinality({x}) * Cardinality(1 .. f[x]) = f[x]
    BY <2>1, <2>2, <2>3
  <2> QED
    BY <2>4, <2>5 DEF Row
<1>2. IsFiniteSet({Row(f, x) : x \in S})
  <2> DEFINE rows == {Row(f, x) : x \in S}
             h == [x \in S |-> Row(f, x)]
  <2>1. h \in Surjection(S, rows)
    BY DEF Surjection
  <2> QED
    BY <2>1, FS_Surjection
<1>3. IsFiniteSet(Cells(S, f))
  BY <1>1, <1>2, FS_UNION DEF Cells
<1> QED
  BY <1>1, <1>3 DEF Total, Cells, Row

\* If one summand changes the sum changes by as much.
LEMMA TotalChanges ==
  ASSUME NEW S, IsFiniteSet(S), NEW f \in [S -> Nat], NEW g \in [S -> Nat],
         NEW x \in S, \A y \in S \ {x} : g[y] = f[y]
  PROVE  /\ Total(S, f) \in Nat /\ Total(S, g) \in Nat
         /\ Total(S, g) = (Total(S, f) - f[x]) + g[x]
<1> DEFINE rest == Cells(S, f) \ Row(f, x)
<1>1. f[x] \in Nat /\ g[x] \in Nat
  OBVIOUS
<1>2. rest = Cells(S, g) \ Row(g, x)
  BY DEF Cells, Row
<1>3. Row(f, x) \subseteq Cells(S, f) /\ Row(g, x) \subseteq Cells(S, g)
  BY DEF Cells
<1>4. Cells(S, f) \cap Row(f, x) = Row(f, x) /\ Cells(S, g) \cap Row(g, x) = Row(g, x)
  BY <1>3
<1>5. /\ Cardinality(rest) = Cardinality(Cells(S, f)) - f[x]
      /\ Cardinality(Cells(S, f)) \in Nat
  <2>1. /\ IsFiniteSet(Cells(S, f)) /\ Cardinality(Row(f, x)) = f[x]
    BY CellsAreFinite
  <2>2. Cardinality(Cells(S, f)) \in Nat
    BY <2>1, FS_CardinalityType
  <2>3. Cardinality(Cells(S, f) \ Row(f, x))
          = Cardinality(Cells(S, f)) - Cardinality(Cells(S, f) \cap Row(f, x))
    BY <2>1, FS_Difference
  <2> QED
    BY <1>4, <2>1, <2>2, <2>3
<1>6. /\ Cardinality(rest) = Cardinality(Cells(S, g)) - g[x]
      /\ Cardinality(Cells(S, g)) \in Nat
  <2>1. /\ IsFiniteSet(Cells(S, g)) /\ Cardinality(Row(g, x)) = g[x]
    BY CellsAreFinite
  <2>2. Cardinality(Cells(S, g)) \in Nat
    BY <2>1, FS_CardinalityType
  <2>3. Cardinality(Cells(S, g) \ Row(g, x))
          = Cardinality(Cells(S, g)) - Cardinality(Cells(S, g) \cap Row(g, x))
    BY <2>1, FS_Difference
  <2> QED
    BY <1>2, <1>4, <2>1, <2>2, <2>3
<1>7. Total(S, f) = Cardinality(Cells(S, f)) /\ Total(S, g) = Cardinality(Cells(S, g))
  BY CellsAreFinite
<1> QED
  BY <1>1, <1>5, <1>6, <1>7

\* A sum of zeros is zero.
LEMMA TotalOfNone ==
  ASSUME NEW S, NEW f, \A x \in S : f[x] = 0
  PROVE  Total(S, f) = 0
<1>1. UNION {{x} \X (1 .. f[x]) : x \in S} = {}
  <2>1. \A x \in S : 1 .. f[x] = {}
    OBVIOUS
  <2> QED
    BY <2>1
<1> QED
  BY <1>1, FS_EmptySet DEF Total

\* A sum is a number, and no greater than one of greater summands.
LEMMA TotalAtMost ==
  ASSUME NEW S, IsFiniteSet(S), NEW f \in [S -> Nat], NEW g \in [S -> Nat],
         \A x \in S : f[x] <= g[x]
  PROVE  /\ Total(S, f) \in Nat /\ Total(S, g) \in Nat
         /\ Total(S, f) <= Total(S, g)
<1>1. /\ IsFiniteSet(Cells(S, f)) /\ Total(S, f) = Cardinality(Cells(S, f))
      /\ IsFiniteSet(Cells(S, g)) /\ Total(S, g) = Cardinality(Cells(S, g))
  BY CellsAreFinite
<1>2. \A x \in S : Row(f, x) \subseteq Row(g, x)
  <2> TAKE x \in S
  <2>1. f[x] \in Nat /\ g[x] \in Nat /\ f[x] <= g[x]
    OBVIOUS
  <2>2. 1 .. f[x] \subseteq 1 .. g[x]
    BY <2>1
  <2> QED BY <2>2 DEF Row
<1>3. Cells(S, f) \subseteq Cells(S, g)
  BY <1>2 DEF Cells
<1> QED BY <1>1, <1>3, FS_Subset, FS_CardinalityType

-----------------------------------------------------------------------------
(* The invariant.  T, H, O and V are the numbers the four counters stand    *)
(* for; of each consumer, o, l and x those its over, tail and first do.     *)

\* How many of the k elements from x on there are if there are those before t.
Among(x, k, t) == IF t <= x THEN 0 ELSE IF t - x <= k THEN t - x ELSE k

\* What a consumer has asked for, and how much of it it has or may get when t
\* is published.
AskOf(p, r) ==
  IF p = "recheck" THEN r.asked
  ELSE IF p \in {"giveBack", "advance"} THEN r.count + r.back
  ELSE 0
ShareOf(p, r, x, t) ==
  IF p = "recheck" THEN Among(x, r.asked, t)
  ELSE IF p \in {"giveBack", "advance"} THEN r.count
  ELSE 0
Shares(xs, t) == [c \in Consumers |-> ShareOf(cPc[c], my[c], xs[c], t)]

IsClaim(r) ==
  r = [want |-> r.want, tail |-> r.tail, over |-> r.over, asked |-> r.asked,
       first |-> r.first, count |-> r.count, back |-> r.back,
       header |-> r.header, last |-> r.last, pos |-> r.pos]

\* What is known of a consumer at p with the locals r.
Local(p, r, T, V, o, l, x) ==
  /\ p \in Claiming => IsClaim(r)
  /\ p \in {"overcommit", "optimistic"} =>
       /\ r.want \in Nat /\ r.want > 0
       /\ l >= shape.start /\ l <= T /\ r.tail = l % W
  /\ p \in {"optimistic", "claim"} => o <= V /\ r.over = o % W
  /\ p \in {"claim", "recheck"} => r.asked \in Nat /\ r.asked > 0 /\ r.asked <= shape.total
  /\ p = "recheck" => /\ shape.start <= x /\ x <= T + Leeway
                      /\ r.first = x % W
  /\ p \in {"giveBack", "advance"} => r.count \in Nat /\ r.back \in Nat
  /\ p = "advance" => r.back = 0

\* What it takes for overcommitted is not too old.
IsFresh(p, H, O, o) == p \in {"optimistic", "claim"} => (O - o) - H <= Leeway

IsCall(k) ==
  k = [n |-> k.n, alloc |-> k.alloc, left |-> k.left, fresh |-> k.fresh,
       start |-> k.start, front |-> k.front, used |-> k.used]

\* The producer publishes no more than there is a bound for.
Publishing(T) ==
  pPc \notin {"idle", "gone"} =>
    /\ IsCall(call) /\ call.n \in Nat
    /\ T + call.n <= shape.start + shape.total

Typed ==
  /\ shape \in Shapes
  /\ cPc = [c \in Consumers |-> cPc[c]] /\ my = [c \in Consumers |-> my[c]]

Numbered(T, H, O, V) ==
  /\ T \in Int /\ H \in Int /\ O \in Int /\ V \in Int
  /\ tailIndex = T % W /\ headIndex = H % W
  /\ dequeueOptimisticCount = O % W /\ dequeueOvercommit = V % W
  /\ shape.start <= H /\ T <= shape.start + shape.total

\* Everything asked for is claimed, overcommitted or in somebody's hands; and
\* whatever is published, there is enough of it for all shares.
Balanced(T, H, O, V, xs) ==
  /\ O - V = H + Total(Consumers, Asked)
  /\ (O - V) - H <= Leeway
  /\ \A t \in Int : t >= T => H + Total(Consumers, Shares(xs, t)) <= t

Locals(T, H, O, V, os, ls, xs) ==
  /\ os \in [Consumers -> Int] /\ ls \in [Consumers -> Int]
  /\ xs \in [Consumers -> Int]
  /\ \A c \in Consumers : /\ Local(cPc[c], my[c], T, V, os[c], ls[c], xs[c])
                          /\ IsFresh(cPc[c], H, O, os[c])

Accounts(T, H, O, V, os, ls, xs) ==
  /\ Typed /\ Numbered(T, H, O, V) /\ Publishing(T)
  /\ Balanced(T, H, O, V, xs) /\ Locals(T, H, O, V, os, ls, xs)

AccountsInv == \E T, H, O, V, os, ls, xs : Accounts(T, H, O, V, os, ls, xs)

-----------------------------------------------------------------------------
(* Facts about shapes and the parts of the invariant.                      *)

LEMMA ShapeFacts ==
  ASSUME shape \in Shapes
  PROVE  /\ W \in Nat \ {0} /\ shape.wrap = W
         /\ shape.start \in Nat /\ shape.total \in Nat
         /\ W \div 2 \in Nat /\ W \div 2 < W
         /\ Leeway \in Nat /\ Leeway + shape.total = W \div 2
         /\ shape.total < W - (W \div 2)
<1>1. /\ shape.wrap \in Nat /\ shape.start \in Nat /\ shape.total \in Nat
      /\ 2 * shape.total < shape.wrap
  BY SubQueueConstants DEF SubQueueConstants
<1>2. PICK w \in Nat, t \in Nat : w = shape.wrap /\ t = shape.total
  BY <1>1
<1>3. PICK h : h = w \div 2
  OBVIOUS
<1>4. h \in Nat /\ 2 * h <= w /\ w < 2 * h + 2
  BY <1>2, <1>3, Z3
<1>5. 2 * t < w
  BY <1>1, <1>2
<1>6. h < w /\ t <= h /\ h - t \in Nat /\ (h - t) + t = h /\ t < w - h /\ w # 0
  BY <1>2, <1>4, <1>5
<1> QED BY <1>1, <1>2, <1>3, <1>4, <1>6 DEF W, Leeway

\* What is asked for, and the shares in it, are numbers; a share is part of
\* what is asked for.
LEMMA AskFacts ==
  ASSUME NEW T \in Int, NEW H, NEW O, NEW V, NEW os, NEW ls, NEW xs, Typed,
         Locals(T, H, O, V, os, ls, xs)
  PROVE  /\ Asked = [c \in Consumers |-> AskOf(cPc[c], my[c])]
         /\ Asked \in [Consumers -> Nat]
         /\ \A t \in Int : /\ Shares(xs, t) \in [Consumers -> Nat]
                           /\ \A c \in Consumers : Shares(xs, t)[c] <= Asked[c]
         /\ IsFiniteSet(Consumers)
<1>1. Asked = [c \in Consumers |-> AskOf(cPc[c], my[c])]
  BY DEF Asked, AskOf
<1>2. ASSUME NEW c \in Consumers, NEW t \in Int
      PROVE  /\ AskOf(cPc[c], my[c]) \in Nat
             /\ ShareOf(cPc[c], my[c], xs[c], t) \in Nat
             /\ ShareOf(cPc[c], my[c], xs[c], t) <= AskOf(cPc[c], my[c])
  <2>1. xs[c] \in Int /\ Local(cPc[c], my[c], T, V, os[c], ls[c], xs[c])
    BY DEF Locals
  <2>2. CASE cPc[c] = "recheck"
    BY <2>1, <2>2 DEF Local, AskOf, ShareOf, Among
  <2>3. CASE cPc[c] \in {"giveBack", "advance"}
    BY <2>1, <2>3 DEF Local, AskOf, ShareOf
  <2>4. CASE cPc[c] \notin {"recheck", "giveBack", "advance"}
    BY <2>4 DEF AskOf, ShareOf
  <2> QED BY <2>2, <2>3, <2>4
<1>3. \A c \in Consumers : AskOf(cPc[c], my[c]) \in Nat
  BY <1>2
<1>4. Asked \in [Consumers -> Nat]
  BY <1>1, <1>3
<1>5. \A t \in Int : /\ Shares(xs, t) \in [Consumers -> Nat]
                     /\ \A c \in Consumers : Shares(xs, t)[c] <= Asked[c]
  BY <1>1, <1>2 DEF Shares
<1>6. IsFiniteSet(Consumers)
  BY SubQueueConstants DEF SubQueueConstants
<1> QED BY <1>1, <1>4, <1>5, <1>6

\* A distance of at most half a round that is within the leeway modulo W is
\* within it.
LEMMA WithinLeeway ==
  ASSUME shape \in Shapes, NEW d \in Int, d >= 0, d <= Leeway + shape.total,
         d % W <= Leeway
  PROVE  d <= Leeway
<1>1. PICK w \in Nat \ {0} : w = W BY ShapeFacts
<1>2. PICK h \in Nat : h = W \div 2 /\ h < W /\ Leeway + shape.total = h
  BY ShapeFacts
<1>3. d \in 0 .. w - 1
  BY <1>1, <1>2
<1>4. d % w = d
  BY <1>3, SmallResidue
<1> QED BY <1>1, <1>4

-----------------------------------------------------------------------------
(* Steps.                                                                  *)

\* A step of consumer c, to p with the locals r, keeps the invariant if it
\* keeps the balance: what it adds to the count of what was asked for less what
\* is overcommitted and claimed is what more it has in its hands, and what is
\* published is enough for its new share.
LEMMA ConsumerStep ==
  ASSUME NEW T, NEW H, NEW O, NEW V, NEW os, NEW ls, NEW xs,
         Accounts(T, H, O, V, os, ls, xs), NobodyOversleeps',
         NEW c \in Consumers, NEW p, NEW r,
         NEW H2 \in Int, NEW O2 \in Int, NEW V2 \in Int,
         NEW o \in Int, NEW l \in Int, NEW x \in Int,
         cPc' = [cPc EXCEPT ![c] = p], my' = [my EXCEPT ![c] = r],
         shape' = shape, tailIndex' = tailIndex, pPc' = pPc, call' = call,
         headIndex' = H2 % W, dequeueOptimisticCount' = O2 % W,
         dequeueOvercommit' = V2 % W,
         H <= H2, V <= V2, O2 - H2 <= (O - H) + shape.total,
         Local(p, r, T, V2, o, l, x),
         p \in {"optimistic", "claim"} =>
           (O2 - o) - H2 <= Leeway + shape.total,
         (O2 - V2) - H2
           = (((O - V) - H) - AskOf(cPc[c], my[c])) + AskOf(p, r),
         \A t \in Int : t >= T =>
           H2 + ((Total(Consumers, Shares(xs, t))
                    - ShareOf(cPc[c], my[c], xs[c], t))
                   + ShareOf(p, r, x, t)) <= t
  PROVE  Accounts(T, H2, O2, V2, [os EXCEPT ![c] = o], [ls EXCEPT ![c] = l],
                  [xs EXCEPT ![c] = x])'
<1> DEFINE os2 == [os EXCEPT ![c] = o]
           ls2 == [ls EXCEPT ![c] = l]
           xs2 == [xs EXCEPT ![c] = x]
<1>1. /\ Typed /\ Numbered(T, H, O, V) /\ Publishing(T)
      /\ Balanced(T, H, O, V, xs) /\ Locals(T, H, O, V, os, ls, xs)
  BY DEF Accounts
<1>2. /\ T \in Int /\ H \in Int /\ O \in Int /\ V \in Int /\ shape \in Shapes
      /\ os \in [Consumers -> Int] /\ ls \in [Consumers -> Int]
      /\ xs \in [Consumers -> Int]
  BY <1>1 DEF Typed, Numbered, Locals
<1>3. /\ cPc'[c] = p /\ my'[c] = r
      /\ \A d \in Consumers : d # c => cPc'[d] = cPc[d] /\ my'[d] = my[d]
  BY <1>1 DEF Typed
<1>4. Typed'
  BY <1>1 DEF Typed
<1>5. W' = W /\ Leeway' = Leeway /\ Leeway \in Nat /\ shape.total \in Nat /\ shape.start \in Nat
  BY <1>2, ShapeFacts DEF W, Leeway
<1>6. Numbered(T, H2, O2, V2)'
  BY <1>1, <1>2, <1>5 DEF Numbered
<1>7. Publishing(T)'
  BY <1>1 DEF Publishing
<1>8. /\ os2 \in [Consumers -> Int] /\ ls2 \in [Consumers -> Int]
      /\ xs2 \in [Consumers -> Int]
      /\ os2[c] = o /\ ls2[c] = l /\ xs2[c] = x
      /\ \A d \in Consumers : d # c => /\ os2[d] = os[d] /\ ls2[d] = ls[d]
                                       /\ xs2[d] = xs[d]
  BY <1>2
<1>9. \A d \in Consumers : Local(cPc[d], my[d], T, V2, os2[d], ls2[d], xs2[d])'
  <2> TAKE d \in Consumers
  <2>1. CASE d = c
    <3>1. Local(p, r, T, V2, o, l, x)'
      BY <1>5 DEF Local
    <3> QED BY <2>1, <3>1, <1>3, <1>8
  <2>2. CASE d # c
    <3>1. Local(cPc[d], my[d], T, V, os[d], ls[d], xs[d])
      BY <1>1 DEF Locals
    <3>2. os[d] \in Int
      BY <1>2
    <3> QED BY <2>2, <3>1, <3>2, <1>2, <1>3, <1>5, <1>8 DEF Local
  <2> QED BY <2>1, <2>2
<1>10. /\ AskOf(cPc[c], my[c]) \in Nat /\ Asked \in [Consumers -> Nat]
       /\ IsFiniteSet(Consumers) /\ Asked[c] = AskOf(cPc[c], my[c])
       /\ \A t \in Int : Shares(xs, t) \in [Consumers -> Nat]
  BY <1>1, <1>2, AskFacts
<1>11. AskOf(p, r) \in Nat /\ \A t \in Int : ShareOf(p, r, x, t) \in Nat
  BY DEF Local, AskOf, ShareOf, Among
<1>12. Asked' = [Asked EXCEPT ![c] = AskOf(p, r)]
  <2>1. Asked' = [d \in Consumers |-> AskOf(cPc'[d], my'[d])]
    BY DEF Asked, AskOf
  <2>2. Asked = [d \in Consumers |-> AskOf(cPc[d], my[d])]
    BY DEF Asked, AskOf
  <2> QED BY <2>1, <2>2, <1>3
<1>13. /\ Total(Consumers, Asked')
             = (Total(Consumers, Asked) - AskOf(cPc[c], my[c])) + AskOf(p, r)
       /\ Total(Consumers, Asked) \in Nat /\ Total(Consumers, Asked') \in Nat
  <2>1. PICK f, g : f = Asked /\ g = Asked'
    OBVIOUS
  <2>2. /\ f \in [Consumers -> Nat] /\ g \in [Consumers -> Nat]
        /\ g[c] = AskOf(p, r) /\ \A d \in Consumers \ {c} : g[d] = f[d]
    BY <1>10, <1>11, <1>12, <2>1
  <2>3. /\ Total(Consumers, f) \in Nat /\ Total(Consumers, g) \in Nat
        /\ Total(Consumers, g) = (Total(Consumers, f) - f[c]) + g[c]
    <3>1. IsFiniteSet(Consumers)
      BY <1>10
    <3>2. Total(Consumers, g) = (Total(Consumers, f) - f[c]) + g[c]
      BY <3>1, <2>2, TotalChanges
    <3>3. Total(Consumers, f) \in Nat /\ Total(Consumers, g) \in Nat
      BY <3>1, <2>2, TotalChanges
    <3> QED BY <3>2, <3>3
  <2> QED BY <1>10, <2>1, <2>2, <2>3
<1>14. (O2 - V2) - H2 = Total(Consumers, Asked')
  <2>1. PICK n, m, a, b : /\ n = Total(Consumers, Asked)
                          /\ m = Total(Consumers, Asked')
                          /\ a = AskOf(cPc[c], my[c]) /\ b = AskOf(p, r)
    OBVIOUS
  <2>2. n \in Nat /\ m \in Nat /\ a \in Nat /\ b \in Nat /\ m = (n - a) + b
    BY <1>10, <1>11, <1>13, <2>1
  <2>3. O - V = H + n /\ (O2 - V2) - H2 = (((O - V) - H) - a) + b
    BY <1>1, <2>1 DEF Balanced
  <2> QED BY <1>2, <2>1, <2>2, <2>3
<1>15. (O2 - V2) - H2 >= 0 /\ (O2 - V2) - H2 <= Leeway + shape.total
  BY <1>1, <1>2, <1>5, <1>13, <1>14 DEF Balanced
<1>16. PICK w \in Nat \ {0} : w = W
  BY <1>2, ShapeFacts
<1>17. (O2 - V2) - H2 <= Leeway
  <2>1. (((O2 % w) - (V2 % w)) - (H2 % w)) % w <= Leeway
    BY <1>5, <1>16 DEF NobodyOversleeps, Ahead
  <2>2. (((O2 % w) - (V2 % w)) - (H2 % w)) % w = ((O2 - V2) - H2) % w
    <3>1. O2 \in Int /\ H2 \in Int /\ V2 \in Int
      BY <1>2
    <3> QED BY <3>1, ResidueAhead, Zenon
  <2>3. PICK d \in Int : d = (O2 - V2) - H2
    BY <1>2
  <2>4. d % W <= Leeway
    BY <2>1, <2>2, <2>3, <1>16
  <2> QED BY <1>15, <2>3, <2>4, <1>2, WithinLeeway
<1>18. \A d \in Consumers : IsFresh(cPc[d], H2, O2, os2[d])'
  <2> SUFFICES ASSUME NEW d \in Consumers, cPc'[d] \in {"optimistic", "claim"}
               PROVE  (O2 - os2[d]) - H2 <= Leeway
    BY <1>5 DEF IsFresh
  <2>1. os2[d] \in Int /\ os2[d] <= V2 /\ my'[d].over = os2[d] % W
    BY <1>5, <1>8, <1>9 DEF Local
  <2>2. PICK v \in Int : v = os2[d]
    BY <2>1
  <2>3. (O2 - v) - H2 >= 0
    BY <1>2, <1>15, <2>1, <2>2
  <2>4. (O2 - v) - H2 <= Leeway + shape.total
    <3>1. CASE d = c
      BY <3>1, <2>2, <1>3, <1>8
    <3>2. CASE d # c
      <4>1. (O - v) - H <= Leeway
        BY <3>2, <2>2, <1>1, <1>3, <1>8 DEF Locals, IsFresh
      <4> QED BY <4>1, <1>2, <1>5
    <3> QED BY <3>1, <3>2
  <2>5. (((O2 % w) - (v % w)) - (H2 % w)) % w <= Leeway
    <3>1. Ahead(my[d].over)' <= Leeway'
      BY DEF NobodyOversleeps
    <3>2. Ahead(my[d].over)' = (((O2 % w) - (v % w)) - (H2 % w)) % w
      BY <1>5, <1>16, <2>1, <2>2 DEF Ahead
    <3> QED BY <1>5, <3>1, <3>2
  <2>6. (((O2 % w) - (v % w)) - (H2 % w)) % w = ((O2 - v) - H2) % w
    <3>1. O2 \in Int /\ H2 \in Int /\ v \in Int
      BY <1>2
    <3> QED BY <3>1, ResidueAhead, Zenon
  <2>7. PICK e \in Int : e = (O2 - v) - H2
    BY <1>2
  <2>8. e % W <= Leeway
    BY <2>5, <2>6, <2>7, <1>16
  <2> QED BY <2>2, <2>3, <2>4, <2>7, <2>8, <1>2, WithinLeeway
<1>19. \A t \in Int : t >= T => H2 + Total(Consumers, Shares(xs2, t)') <= t
  <2> SUFFICES ASSUME NEW t \in Int, t >= T
               PROVE  H2 + Total(Consumers, Shares(xs2, t)') <= t
    OBVIOUS
  <2>1. Shares(xs2, t)' = [Shares(xs, t) EXCEPT ![c] = ShareOf(p, r, x, t)]
    <3>1. Shares(xs2, t)' = [d \in Consumers |-> ShareOf(cPc'[d], my'[d], xs2[d], t)]
      BY DEF Shares, ShareOf, Among
    <3>2. Shares(xs, t) = [d \in Consumers |-> ShareOf(cPc[d], my[d], xs[d], t)]
      BY DEF Shares
    <3> QED BY <3>1, <3>2, <1>3, <1>8
  <2>2. Shares(xs, t)[c] = ShareOf(cPc[c], my[c], xs[c], t)
    BY DEF Shares
  <2>3. PICK f, g : f = Shares(xs, t) /\ g = Shares(xs2, t)'
    OBVIOUS
  <2>4. Total(Consumers, g) = (Total(Consumers, f) - f[c]) + ShareOf(p, r, x, t)
    <3>1. /\ f \in [Consumers -> Nat] /\ g \in [Consumers -> Nat]
          /\ g[c] = ShareOf(p, r, x, t) /\ \A d \in Consumers \ {c} : g[d] = f[d]
      BY <1>10, <1>11, <2>1, <2>3
    <3>2. Total(Consumers, g) = (Total(Consumers, f) - f[c]) + g[c]
      <4>1. IsFiniteSet(Consumers)
        BY <1>10
      <4> QED BY <4>1, <3>1, TotalChanges
    <3> QED BY <3>1, <3>2
  <2> QED BY <2>2, <2>3, <2>4
<1>20. Balanced(T, H2, O2, V2, xs2)'
  <2>1. O2 - V2 = H2 + Total(Consumers, Asked')
    BY <1>2, <1>13, <1>14
  <2> QED BY <2>1, <1>5, <1>17, <1>19 DEF Balanced, Total
<1>21. Locals(T, H2, O2, V2, os2, ls2, xs2)'
  BY <1>8, <1>9, <1>18 DEF Locals
<1> QED BY <1>4, <1>6, <1>7, <1>20, <1>21 DEF Accounts

\* The invariant, spelt out: the head is behind the tail, and the sums are
\* numbers.
LEMMA AccountsFacts ==
  ASSUME NEW T, NEW H, NEW O, NEW V, NEW os, NEW ls, NEW xs,
         Accounts(T, H, O, V, os, ls, xs)
  PROVE  /\ T \in Int /\ H \in Int /\ O \in Int /\ V \in Int
         /\ shape \in Shapes /\ shape.start <= H /\ H <= T
         /\ T <= shape.start + shape.total
         /\ O - V >= H /\ (O - V) - H <= Leeway
         /\ \A c \in Consumers : /\ os[c] \in Int /\ ls[c] \in Int /\ xs[c] \in Int
                                 /\ Local(cPc[c], my[c], T, V, os[c], ls[c], xs[c])
                                 /\ IsFresh(cPc[c], H, O, os[c])
         /\ \A t \in Int : /\ Total(Consumers, Shares(xs, t)) \in Nat
                           /\ H + Total(Consumers, Shares(xs, t)) <= O - V
                           /\ t >= T => H + Total(Consumers, Shares(xs, t)) <= t
<1>1. /\ Typed /\ Numbered(T, H, O, V) /\ Balanced(T, H, O, V, xs)
      /\ Locals(T, H, O, V, os, ls, xs)
  BY DEF Accounts
<1>2. /\ T \in Int /\ H \in Int /\ O \in Int /\ V \in Int
      /\ shape \in Shapes /\ shape.start <= H
      /\ T <= shape.start + shape.total
  BY <1>1 DEF Typed, Numbered
<1>3. ASSUME NEW t \in Int
      PROVE  /\ Total(Consumers, Shares(xs, t)) \in Nat
             /\ Total(Consumers, Shares(xs, t)) <= Total(Consumers, Asked)
             /\ Total(Consumers, Asked) \in Nat
  <2>1. /\ IsFiniteSet(Consumers) /\ Asked \in [Consumers -> Nat]
        /\ Shares(xs, t) \in [Consumers -> Nat]
        /\ \A c \in Consumers : Shares(xs, t)[c] <= Asked[c]
    BY <1>1, <1>2, AskFacts
  <2>2. PICK f, g : f = Shares(xs, t) /\ g = Asked
    OBVIOUS
  <2>3. /\ Total(Consumers, f) \in Nat /\ Total(Consumers, g) \in Nat
        /\ Total(Consumers, f) <= Total(Consumers, g)
    BY <2>1, <2>2, TotalAtMost
  <2> QED BY <2>2, <2>3
<1>4. PICK n : n = Total(Consumers, Asked)
  OBVIOUS
<1>5. n \in Nat /\ O - V = H + n /\ (O - V) - H <= Leeway
  BY <1>1, <1>2, <1>3, <1>4 DEF Balanced
<1>6. ASSUME NEW t \in Int
      PROVE  /\ Total(Consumers, Shares(xs, t)) \in Nat
             /\ H + Total(Consumers, Shares(xs, t)) <= O - V
             /\ t >= T => H + Total(Consumers, Shares(xs, t)) <= t
  <2>1. PICK m : m = Total(Consumers, Shares(xs, t))
    OBVIOUS
  <2>2. m \in Nat /\ m <= n
    BY <1>3, <1>4, <2>1
  <2>3. t >= T => H + m <= t
    BY <1>1, <2>1 DEF Balanced
  <2> QED BY <1>2, <1>5, <2>1, <2>2, <2>3
<1>7. H <= T
  <2>1. PICK m : m = Total(Consumers, Shares(xs, T))
    OBVIOUS
  <2>2. m \in Nat /\ H + m <= T
    BY <1>2, <1>6, <2>1
  <2> QED BY <1>2, <2>2
<1>8. \A c \in Consumers : /\ os[c] \in Int /\ ls[c] \in Int /\ xs[c] \in Int
                           /\ Local(cPc[c], my[c], T, V, os[c], ls[c], xs[c])
                           /\ IsFresh(cPc[c], H, O, os[c])
  BY <1>1 DEF Locals
<1>9. O - V >= H
  BY <1>2, <1>5
<1> QED BY <1>2, <1>5, <1>6, <1>7, <1>8, <1>9

\* A step of consumer c, to p with the locals r, that leaves the counters alone
\* and neither asks for more nor gets a greater share.
Quiet(T, H, O, V, xs, c, p, r, o, l, x) ==
  /\ o \in Int /\ l \in Int /\ x \in Int
  /\ cPc' = [cPc EXCEPT ![c] = p] /\ my' = [my EXCEPT ![c] = r]
  /\ shape' = shape /\ UNCHANGED countVars /\ UNCHANGED producerVars
  /\ Local(p, r, T, V, o, l, x)
  /\ p \in {"optimistic", "claim"} => (O - o) - H <= Leeway
  /\ AskOf(p, r) = AskOf(cPc[c], my[c])
  /\ \A t \in Int : t >= T =>
       ShareOf(p, r, x, t) <= ShareOf(cPc[c], my[c], xs[c], t)

LEMMA QuietStep ==
  ASSUME NEW T, NEW H, NEW O, NEW V, NEW os, NEW ls, NEW xs,
         Accounts(T, H, O, V, os, ls, xs), NobodyOversleeps',
         NEW c \in Consumers, NEW p, NEW r, NEW o, NEW l, NEW x,
         Quiet(T, H, O, V, xs, c, p, r, o, l, x)
  PROVE  AccountsInv'
<1> USE DEF Quiet
<1>1. /\ T \in Int /\ H \in Int /\ O \in Int /\ V \in Int /\ shape \in Shapes
      /\ Local(cPc[c], my[c], T, V, os[c], ls[c], xs[c]) /\ xs[c] \in Int
  BY AccountsFacts
<1>2. /\ tailIndex' = tailIndex /\ headIndex' = H % W
      /\ dequeueOptimisticCount' = O % W /\ dequeueOvercommit' = V % W
      /\ pPc' = pPc /\ call' = call
  BY DEF Accounts, Numbered, countVars, producerVars
<1>3. shape.total \in Nat /\ Leeway \in Nat
  BY <1>1, ShapeFacts
<1>4. AskOf(p, r) \in Nat /\ AskOf(cPc[c], my[c]) \in Nat
  BY <1>1 DEF Local, AskOf
<1>5. ASSUME NEW t \in Int, t >= T
      PROVE  H + ((Total(Consumers, Shares(xs, t))
                     - ShareOf(cPc[c], my[c], xs[c], t))
                    + ShareOf(p, r, x, t)) <= t
  <2>1. PICK n, a, b : /\ n = Total(Consumers, Shares(xs, t))
                       /\ a = ShareOf(cPc[c], my[c], xs[c], t)
                       /\ b = ShareOf(p, r, x, t)
    OBVIOUS
  <2>2. n \in Nat /\ H + n <= t
    BY <1>5, <2>1, AccountsFacts
  <2>3. a \in Nat
    BY <1>1, <2>1 DEF Local, ShareOf, Among
  <2>4. b \in Nat
    BY <2>1 DEF Local, ShareOf, Among
  <2>5. b <= a
    BY <1>5, <2>1
  <2> QED BY <1>1, <2>1, <2>2, <2>3, <2>4, <2>5
<1>6. (O - V) - H = (((O - V) - H) - AskOf(cPc[c], my[c])) + AskOf(p, r)
  BY <1>1, <1>4
<1>7. /\ H <= H /\ V <= V /\ O - H <= (O - H) + shape.total
      /\ p \in {"optimistic", "claim"} => (O - o) - H <= Leeway + shape.total
  BY <1>1, <1>3
<1>8. Accounts(T, H, O, V, [os EXCEPT ![c] = o], [ls EXCEPT ![c] = l],
               [xs EXCEPT ![c] = x])'
  BY <1>1, <1>2, <1>5, <1>6, <1>7, ConsumerStep
<1> QED BY <1>8 DEF AccountsInv

\* A step that moves the counters.
Moved(T, H, O, V, xs, c, p, r, H2, O2, V2, o, l, x) ==
  /\ H2 \in Int /\ O2 \in Int /\ V2 \in Int
  /\ o \in Int /\ l \in Int /\ x \in Int
  /\ cPc' = [cPc EXCEPT ![c] = p] /\ my' = [my EXCEPT ![c] = r]
  /\ shape' = shape /\ tailIndex' = tailIndex /\ pPc' = pPc /\ call' = call
  /\ headIndex' = H2 % W /\ dequeueOptimisticCount' = O2 % W
  /\ dequeueOvercommit' = V2 % W
  /\ H <= H2 /\ V <= V2 /\ O2 - H2 <= (O - H) + shape.total
  /\ Local(p, r, T, V2, o, l, x)
  /\ p \notin {"optimistic", "claim"}
  /\ (O2 - V2) - H2 = (((O - V) - H) - AskOf(cPc[c], my[c])) + AskOf(p, r)
  /\ \A t \in Int : t >= T =>
       H2 + ((Total(Consumers, Shares(xs, t))
                - ShareOf(cPc[c], my[c], xs[c], t))
               + ShareOf(p, r, x, t)) <= t

LEMMA MoveStep ==
  ASSUME NEW T, NEW H, NEW O, NEW V, NEW os, NEW ls, NEW xs,
         Accounts(T, H, O, V, os, ls, xs), NobodyOversleeps',
         NEW c \in Consumers, NEW p, NEW r, NEW H2, NEW O2, NEW V2,
         NEW o, NEW l, NEW x,
         Moved(T, H, O, V, xs, c, p, r, H2, O2, V2, o, l, x)
  PROVE  AccountsInv'
<1>1. Accounts(T, H2, O2, V2, [os EXCEPT ![c] = o], [ls EXCEPT ![c] = l],
               [xs EXCEPT ![c] = x])'
  BY ConsumerStep DEF Moved
<1> QED BY <1>1 DEF AccountsInv

\* Consumers that have claimed their elements, or want none, count for nothing.
LEMMA OutsideStep ==
  ASSUME AccountsInv, NobodyOversleeps', NEW c \in Consumers, NEW p, NEW r,
         cPc[c] \notin Claiming, p \notin Claiming,
         cPc' = [cPc EXCEPT ![c] = p], my' = [my EXCEPT ![c] = r],
         shape' = shape, UNCHANGED countVars, UNCHANGED producerVars
  PROVE  AccountsInv'
<1>1. PICK T, H, O, V, os, ls, xs : Accounts(T, H, O, V, os, ls, xs)
  BY DEF AccountsInv
<1>2. /\ AskOf(p, r) = 0 /\ AskOf(cPc[c], my[c]) = 0
      /\ \A t \in Int : /\ ShareOf(p, r, 0, t) = 0
                        /\ ShareOf(cPc[c], my[c], xs[c], t) = 0
  BY DEF Claiming, AskOf, ShareOf
<1>3. /\ Local(p, r, T, V, 0, 0, 0)
      /\ p \notin {"optimistic", "claim"}
  BY DEF Claiming, Local
<1>4. Quiet(T, H, O, V, xs, c, p, r, 0, 0, 0)
  BY <1>2, <1>3 DEF Quiet
<1> QED BY <1>1, <1>4, QuietStep

\* A call begins.
LEMMA DequeueKeeps ==
  ASSUME AccountsInv, NobodyOversleeps', NEW c \in Consumers, NEW n \in Nat,
         n > 0, Dequeue(c, n)
  PROVE  AccountsInv'
<1>1. PICK T, H, O, V, os, ls, xs : Accounts(T, H, O, V, os, ls, xs)
  BY DEF AccountsInv
<1>2. PICK r : r = [NoClaim EXCEPT !.want = n, !.tail = tailIndex]
  OBVIOUS
<1>3. /\ cPc[c] = "idle" /\ cPc' = [cPc EXCEPT ![c] = "overcommit"]
      /\ my' = [my EXCEPT ![c] = r]
      /\ shape' = shape /\ UNCHANGED countVars /\ UNCHANGED producerVars
  BY <1>2 DEF Dequeue, CGoes, Sets
<1>4. T \in Int /\ shape.start <= T /\ tailIndex = T % W
  <2>1. /\ T \in Int /\ H \in Int /\ shape \in Shapes
        /\ shape.start <= H /\ H <= T
    BY <1>1, AccountsFacts
  <2>2. shape.start \in Nat
    BY <2>1, ShapeFacts
  <2>3. tailIndex = T % W
    BY <1>1 DEF Accounts, Numbered
  <2> QED BY <2>1, <2>2, <2>3
<1>5. IsClaim(r) /\ r.want = n /\ r.tail = tailIndex
  BY <1>2 DEF IsClaim, NoClaim
<1>6. Local("overcommit", r, T, V, 0, T, 0)
  BY <1>4, <1>5 DEF Local
<1>7. /\ AskOf("overcommit", r) = 0 /\ AskOf(cPc[c], my[c]) = 0
      /\ \A t \in Int : /\ ShareOf("overcommit", r, 0, t) = 0
                        /\ ShareOf(cPc[c], my[c], xs[c], t) = 0
  BY <1>3 DEF AskOf, ShareOf
<1>8. Quiet(T, H, O, V, xs, c, "overcommit", r, 0, T, 0)
  BY <1>3, <1>4, <1>6, <1>7 DEF Quiet
<1> QED BY <1>1, <1>8, QuietStep

LEMMA LoadOvercommitKeeps ==
  ASSUME AccountsInv, NobodyOversleeps', NEW c \in Consumers, LoadOvercommit(c)
  PROVE  AccountsInv'
<1>1. PICK T, H, O, V, os, ls, xs : Accounts(T, H, O, V, os, ls, xs)
  BY DEF AccountsInv
<1>2. PICK r : r = [my[c] EXCEPT !.over = dequeueOvercommit]
  OBVIOUS
<1>3. /\ cPc[c] = "overcommit" /\ cPc' = [cPc EXCEPT ![c] = "optimistic"]
      /\ my' = [my EXCEPT ![c] = r]
      /\ shape' = shape /\ UNCHANGED countVars /\ UNCHANGED producerVars
  BY <1>2 DEF LoadOvercommit, CGoes, Sets
<1>4. /\ Local(cPc[c], my[c], T, V, os[c], ls[c], xs[c])
      /\ V \in Int /\ ls[c] \in Int /\ (O - V) - H <= Leeway
  BY <1>1, AccountsFacts
<1>5. dequeueOvercommit = V % W
  BY <1>1 DEF Accounts, Numbered
<1>6. IsClaim(my[c])
  BY <1>3, <1>4 DEF Local, Claiming
<1>7. /\ IsClaim(r) /\ r.want = my[c].want /\ r.tail = my[c].tail
      /\ r.over = V % W
  BY <1>2, <1>5, <1>6 DEF IsClaim
<1>8. Local("optimistic", r, T, V, V, ls[c], 0)
  BY <1>3, <1>4, <1>7 DEF Local
<1>9. /\ AskOf("optimistic", r) = 0 /\ AskOf(cPc[c], my[c]) = 0
      /\ \A t \in Int : /\ ShareOf("optimistic", r, 0, t) = 0
                        /\ ShareOf(cPc[c], my[c], xs[c], t) = 0
  BY <1>3 DEF AskOf, ShareOf
<1>10. Quiet(T, H, O, V, xs, c, "optimistic", r, V, ls[c], 0)
  BY <1>3, <1>4, <1>8, <1>9 DEF Quiet
<1> QED BY <1>1, <1>10, QuietStep

LEMMA SeemsEmptyKeeps ==
  ASSUME AccountsInv, NobodyOversleeps', NEW c \in Consumers, SeemsEmpty(c)
  PROVE  AccountsInv'
<1>1. PICK T, H, O, V, os, ls, xs : Accounts(T, H, O, V, os, ls, xs)
  BY DEF AccountsInv
<1>2. /\ cPc[c] = "optimistic" /\ cPc' = [cPc EXCEPT ![c] = "idle"]
      /\ my' = [my EXCEPT ![c] = NoClaim]
      /\ shape' = shape /\ UNCHANGED countVars /\ UNCHANGED producerVars
  BY DEF SeemsEmpty, CGoes, Sets
<1>3. Local("idle", NoClaim, T, V, 0, 0, 0)
  BY DEF Local, Claiming
<1>4. /\ AskOf("idle", NoClaim) = 0 /\ AskOf(cPc[c], my[c]) = 0
      /\ \A t \in Int : /\ ShareOf("idle", NoClaim, 0, t) = 0
                        /\ ShareOf(cPc[c], my[c], xs[c], t) = 0
  BY <1>2 DEF AskOf, ShareOf
<1>5. Quiet(T, H, O, V, xs, c, "idle", NoClaim, 0, 0, 0)
  BY <1>2, <1>3, <1>4 DEF Quiet
<1> QED BY <1>1, <1>5, QuietStep

\* The lesser of two numbers.
LEMMA MinOfTwo ==
  ASSUME NEW a \in Int, NEW b \in Int
  PROVE  Min({a, b}) = IF a <= b THEN a ELSE b
<1> DEFINE m == IF a <= b THEN a ELSE b
<1>1. m \in {a, b} /\ \A y \in {a, b} : m <= y
  OBVIOUS
<1>2. \A z \in {a, b} : (\A y \in {a, b} : z <= y) => z = m
  OBVIOUS
<1>3. Min({a, b}) = CHOOSE z \in {a, b} : \A y \in {a, b} : z <= y
  BY DEF Min
<1> HIDE DEF m
<1> QED BY <1>1, <1>2, <1>3

\* The elements that seem to be there, and those that are: numbers below half
\* a round.
LEMMA SeemIs ==
  ASSUME NEW T, NEW H, NEW O, NEW V, NEW os, NEW ls, NEW xs,
         Accounts(T, H, O, V, os, ls, xs), NEW c \in Consumers,
         cPc[c] = "optimistic"
  PROVE  LET d == ls[c] - (O - os[c])
         IN  /\ d \in Int /\ d <= shape.total /\ d <= T - H
             /\ circular_less_than(0, Seem(c)) <=> d > 0
             /\ d > 0 => Seem(c) = d
<1>1. /\ T \in Int /\ H \in Int /\ O \in Int /\ V \in Int /\ shape \in Shapes
      /\ shape.start <= H /\ H <= T /\ T <= shape.start + shape.total
      /\ O - V >= H /\ os[c] \in Int /\ ls[c] \in Int
      /\ Local(cPc[c], my[c], T, V, os[c], ls[c], xs[c])
      /\ IsFresh(cPc[c], H, O, os[c])
  BY AccountsFacts
<1>2. PICK o \in Int, l \in Int : o = os[c] /\ l = ls[c]
  BY <1>1
<1>3. /\ l >= shape.start /\ l <= T /\ my[c].tail = l % W
      /\ o <= V /\ my[c].over = o % W /\ (O - o) - H <= Leeway
  BY <1>1, <1>2 DEF Local, IsFresh
<1>4. PICK w \in Nat \ {0}, s \in Nat, n \in Nat, k \in Nat, h \in Nat :
        /\ w = W /\ s = shape.start /\ n = shape.total /\ k = Leeway
        /\ h = w \div 2 /\ h < w /\ k + n = h /\ n < w - h
  BY <1>1, ShapeFacts
<1>5. PICK d \in Int : d = l - (O - o)
  BY <1>1
<1>6. d <= n /\ d <= T - H /\ 0 - d <= h
  BY <1>1, <1>3, <1>4, <1>5
<1>7. Seem(c) = d % w
  <2>1. PICK q : q = o % w
    OBVIOUS
  <2>2. q \in Int
    BY <2>1, Residue
  <2>3. PICK b, g : b = O % w /\ g = l % w
    OBVIOUS
  <2>4. Seem(c) = (g - (b - q)) % w
    BY <1>2, <1>3, <1>4, <2>1, <2>3 DEF Seem, Accounts, Numbered
  <2>5. g \in Int /\ b \in Int
    BY <1>1, <2>3, Residue
  <2>6. PICK y \in Int, z \in Int, u \in Int :
          y = g + q /\ z = g - O /\ u = o - O
    BY <2>2, <2>5, <1>1
  <2>7. (y - b) % w = (y - O) % w
    BY <2>3, <1>1, ResidueMinus
  <2>8. (q + z) % w = (o + z) % w
    BY <2>1, ResiduePlus
  <2>9. (g + u) % w = (l + u) % w
    BY <2>3, ResiduePlus
  <2>10. /\ g - (b - q) = y - b /\ y - O = q + z /\ o + z = g + u /\ l + u = d
    BY <1>1, <1>5, <2>2, <2>3, <2>5, <2>6
  <2> QED BY <2>4, <2>7, <2>8, <2>9, <2>10
<1>8. ((0 % w) - (d % w)) % w > w \div 2 <=> 0 < d
  <2>1. 0 - d <= w \div 2 /\ d - 0 < w - (w \div 2)
    BY <1>4, <1>6
  <2> QED BY <2>1, CircularLess
<1>9. 0 % w = 0
  BY <1>4, SmallResidue
<1>10. circular_less_than(0, Seem(c)) <=> d > 0
  BY <1>4, <1>7, <1>8, <1>9 DEF circular_less_than
<1>11. ASSUME d > 0 PROVE Seem(c) = d
  <2>1. d \in 0 .. w - 1
    BY <1>4, <1>6, <1>11
  <2> QED BY <2>1, <1>7, SmallResidue
<1> QED BY <1>2, <1>4, <1>5, <1>6, <1>10, <1>11

LEMMA SeemsFilledKeeps ==
  ASSUME AccountsInv, NobodyOversleeps', NEW c \in Consumers, SeemsFilled(c)
  PROVE  AccountsInv'
<1>1. PICK T, H, O, V, os, ls, xs : Accounts(T, H, O, V, os, ls, xs)
  BY DEF AccountsInv
<1>2. PICK k, r : /\ k = Min({Seem(c), my[c].want})
                  /\ r = [my[c] EXCEPT !.asked = k, !.tail = 0]
  OBVIOUS
<1>3. /\ cPc[c] = "optimistic" /\ cPc' = [cPc EXCEPT ![c] = "claim"]
      /\ my' = [my EXCEPT ![c] = r]
      /\ circular_less_than(0, Seem(c))
      /\ shape' = shape /\ UNCHANGED countVars /\ UNCHANGED producerVars
  BY <1>2 DEF SeemsFilled, CGoes, Sets
<1>4. /\ Local(cPc[c], my[c], T, V, os[c], ls[c], xs[c])
      /\ os[c] \in Int /\ shape \in Shapes /\ IsFresh(cPc[c], H, O, os[c])
  BY <1>1, AccountsFacts
<1>5. PICK d \in Int : /\ d > 0 /\ d <= shape.total /\ Seem(c) = d
  BY <1>1, <1>3, SeemIs
<1>6. /\ IsClaim(my[c]) /\ my[c].want \in Nat /\ my[c].want > 0
      /\ os[c] <= V /\ my[c].over = os[c] % W /\ (O - os[c]) - H <= Leeway
  BY <1>3, <1>4 DEF Local, Claiming, IsFresh
<1>7. k \in Nat /\ k > 0 /\ k <= shape.total
  <2>1. shape.total \in Nat
    BY <1>4, ShapeFacts
  <2>2. PICK m \in Nat : m = my[c].want
    BY <1>6
  <2>3. k = IF d <= m THEN d ELSE m
    BY <1>2, <1>5, <2>2, MinOfTwo
  <2> QED BY <1>5, <1>6, <2>1, <2>2, <2>3
<1>8. IsClaim(r) /\ r.asked = k /\ r.over = my[c].over
  BY <1>2, <1>6 DEF IsClaim
<1>9. Local("claim", r, T, V, os[c], 0, 0)
  BY <1>6, <1>7, <1>8 DEF Local
<1>10. /\ AskOf("claim", r) = 0 /\ AskOf(cPc[c], my[c]) = 0
       /\ \A t \in Int : /\ ShareOf("claim", r, 0, t) = 0
                         /\ ShareOf(cPc[c], my[c], xs[c], t) = 0
  BY <1>3 DEF AskOf, ShareOf
<1>11. Quiet(T, H, O, V, xs, c, "claim", r, os[c], 0, 0)
  BY <1>3, <1>4, <1>6, <1>9, <1>10 DEF Quiet
<1> QED BY <1>1, <1>11, QuietStep

\* A claim begins where everything that was asked for before it ends, or later.
LEMMA ClaimKeeps ==
  ASSUME AccountsInv, NobodyOversleeps', NEW c \in Consumers, Claim(c)
  PROVE  AccountsInv'
<1>1. PICK T, H, O, V, os, ls, xs : Accounts(T, H, O, V, os, ls, xs)
  BY DEF AccountsInv
<1>2. PICK r : r = [my[c] EXCEPT !.first = (dequeueOptimisticCount - my[c].over) % W,
                                 !.over = 0]
  OBVIOUS
<1>3. /\ cPc[c] = "claim" /\ cPc' = [cPc EXCEPT ![c] = "recheck"]
      /\ my' = [my EXCEPT ![c] = r] /\ shape' = shape
      /\ dequeueOptimisticCount' = (dequeueOptimisticCount + my[c].asked) % W
      /\ tailIndex' = tailIndex /\ headIndex' = headIndex
      /\ dequeueOvercommit' = dequeueOvercommit
      /\ pPc' = pPc /\ call' = call
  BY <1>2 DEF Claim, CGoes, Sets, Plus, producerVars
<1>4. /\ T \in Int /\ H \in Int /\ O \in Int /\ V \in Int /\ shape \in Shapes
      /\ shape.start <= H /\ H <= T /\ O - V >= H
      /\ Local(cPc[c], my[c], T, V, os[c], ls[c], xs[c])
      /\ os[c] \in Int /\ IsFresh(cPc[c], H, O, os[c])
  BY <1>1, AccountsFacts
<1>5. PICK o, k, x : o = os[c] /\ k = my[c].asked /\ x = O - o
  OBVIOUS
<1>6. /\ IsClaim(my[c]) /\ k \in Nat /\ k > 0 /\ k <= shape.total
      /\ o <= V /\ my[c].over = o % W /\ (O - o) - H <= Leeway
  BY <1>3, <1>4, <1>5 DEF Local, Claiming, IsFresh
<1>7. PICK w \in Nat \ {0} : w = W
  BY <1>4, ShapeFacts
<1> o \in Int /\ x \in Int
  BY <1>4, <1>5
<1>8. /\ headIndex = H % W /\ dequeueOptimisticCount = O % W
      /\ dequeueOvercommit = V % W
  BY <1>1 DEF Accounts, Numbered
<1>9. dequeueOptimisticCount' = (O + k) % W
  <2>1. ((O % w) + k) % w = (O + k) % w
    <3>1. O \in Int /\ k \in Int
      BY <1>4, <1>6
    <3> QED BY <3>1, ResiduePlus
  <2> QED BY <1>3, <1>5, <1>7, <1>8, <2>1
<1>10. r.first = x % W
  <2>1. ((O % w) - (o % w)) % w = (O - o) % w
    BY <1>4, ResidueLess
  <2>2. r.first = (dequeueOptimisticCount - my[c].over) % W
    BY <1>2, <1>6 DEF IsClaim
  <2> QED BY <1>5, <1>6, <1>7, <1>8, <2>1, <2>2
<1>11. IsClaim(r) /\ r.asked = k
  BY <1>2, <1>5, <1>6 DEF IsClaim
<1>12. /\ shape.total \in Nat /\ shape.start \in Nat /\ Leeway \in Nat
  BY <1>4, ShapeFacts
<1>13. shape.start <= x /\ x <= T + Leeway
  BY <1>4, <1>5, <1>6, <1>12
<1>14. Local("recheck", r, T, V, 0, 0, x)
  BY <1>6, <1>10, <1>11, <1>13 DEF Local
<1>15. AskOf("recheck", r) = k /\ AskOf(cPc[c], my[c]) = 0
  BY <1>3, <1>11 DEF AskOf
<1>16. ((O + k) - V) - H = (((O - V) - H) - AskOf(cPc[c], my[c])) + AskOf("recheck", r)
  BY <1>4, <1>6, <1>15
<1>17. ASSUME NEW t \in Int, t >= T
       PROVE  H + ((Total(Consumers, Shares(xs, t))
                      - ShareOf(cPc[c], my[c], xs[c], t))
                     + ShareOf("recheck", r, x, t)) <= t
  <2>1. PICK n : n = Total(Consumers, Shares(xs, t))
    OBVIOUS
  <2>2. n \in Nat /\ H + n <= O - V /\ H + n <= t
    BY <1>1, <1>17, <2>1, AccountsFacts
  <2>3. ShareOf(cPc[c], my[c], xs[c], t) = 0
    BY <1>3 DEF ShareOf
  <2>4. ShareOf("recheck", r, x, t) = Among(x, k, t)
    BY <1>11 DEF ShareOf
  <2>5. H + n <= x
    BY <1>4, <1>5, <1>6, <2>2
  <2>6. Among(x, k, t) = 0 \/ (Among(x, k, t) \in Nat /\ Among(x, k, t) <= t - x)
    BY <1>6 DEF Among
  <2>7. PICK m : m = Among(x, k, t)
    OBVIOUS
  <2>8. H + ((n - 0) + m) <= t
    BY <1>4, <1>17, <2>2, <2>5, <2>6, <2>7
  <2> QED BY <2>1, <2>3, <2>4, <2>7, <2>8
<1>18. Moved(T, H, O, V, xs, c, "recheck", r, H, O + k, V, 0, 0, x)
  <2>1. O + k \in Int /\ (O + k) - H <= (O - H) + shape.total
    BY <1>4, <1>6, <1>12
  <2> QED BY <1>3, <1>4, <1>8, <1>9, <1>14, <1>16, <1>17, <2>1 DEF Moved
<1> QED BY <1>1, <1>18, MoveStep

\* The elements a consumer gets are those of its claim that are published.
LEMMA ActualIs ==
  ASSUME NEW T, NEW H, NEW O, NEW V, NEW os, NEW ls, NEW xs,
         Accounts(T, H, O, V, os, ls, xs), NEW c \in Consumers,
         cPc[c] = "recheck"
  PROVE  Actual(c) = Among(xs[c], my[c].asked, T)
<1>1. /\ T \in Int /\ H \in Int /\ shape \in Shapes
      /\ T <= shape.start + shape.total /\ xs[c] \in Int
      /\ Local(cPc[c], my[c], T, V, os[c], ls[c], xs[c])
  BY AccountsFacts
<1>2. PICK x, k : x = xs[c] /\ k = my[c].asked
  OBVIOUS
<1>3. /\ k \in Nat /\ k > 0 /\ shape.start <= x /\ x <= T + Leeway
      /\ my[c].first = x % W /\ x \in Int
  BY <1>1, <1>2 DEF Local
<1>4. PICK w \in Nat \ {0}, s \in Nat, n \in Nat, y \in Nat, h \in Nat :
        /\ w = W /\ s = shape.start /\ n = shape.total /\ y = Leeway
        /\ h = w \div 2 /\ h < w /\ y + n = h /\ n < w - h
  BY <1>1, ShapeFacts
<1>5. PICK d : d = T - x
  OBVIOUS
<1>6. d \in Int /\ d <= n /\ 0 - d <= h
  <2>1. s <= x /\ x <= T + y /\ T <= s + n /\ y + n = h
    BY <1>1, <1>3, <1>4
  <2> QED BY <1>1, <1>3, <1>5, <2>1
<1>7. PICK u : u = (tailIndex - my[c].first) % W
  OBVIOUS
<1>8. u = d % w
  <2>1. ((T % w) - (x % w)) % w = (T - x) % w
    BY <1>1, <1>3, ResidueLess
  <2>2. tailIndex = T % W
    BY DEF Accounts, Numbered
  <2> QED BY <1>3, <1>4, <1>5, <1>7, <2>1, <2>2
<1>9. circular_less_than(0, u) <=> d > 0
  <2>1. 0 - d <= w \div 2 /\ d - 0 < w - (w \div 2)
    BY <1>4, <1>6
  <2>2. ((0 % w) - (d % w)) % w > w \div 2 <=> 0 < d
    BY <1>6, <2>1, CircularLess
  <2>3. 0 % w = 0
    BY <1>4, SmallResidue
  <2>4. circular_less_than(0, u) <=> 0 < d
    BY <1>4, <1>8, <2>2, <2>3 DEF circular_less_than
  <2> QED BY <2>4, <1>6
<1>10. d > 0 => u = d
  <2> SUFFICES ASSUME d > 0 PROVE u = d
    OBVIOUS
  <2>1. d \in 0 .. w - 1
    BY <1>4, <1>6
  <2> QED BY <1>8, <2>1, SmallResidue
<1>11. Actual(c) = IF circular_less_than(0, u) THEN Min({u, k}) ELSE 0
  BY <1>2, <1>7 DEF Actual
<1>12. Among(x, k, T) = IF d > 0 THEN (IF d <= k THEN d ELSE k) ELSE 0
  BY <1>1, <1>3, <1>5 DEF Among
<1>13. CASE d > 0
  <2>1. Min({d, k}) = IF d <= k THEN d ELSE k
    BY <1>3, <1>6, MinOfTwo
  <2> QED BY <1>2, <1>9, <1>10, <1>11, <1>12, <1>13, <2>1
<1>14. CASE ~(d > 0)
  BY <1>2, <1>9, <1>11, <1>12, <1>14
<1> QED BY <1>13, <1>14

LEMMA RecheckKeeps ==
  ASSUME AccountsInv, NobodyOversleeps', NEW c \in Consumers, Recheck(c)
  PROVE  AccountsInv'
<1>1. PICK T, H, O, V, os, ls, xs : Accounts(T, H, O, V, os, ls, xs)
  BY DEF AccountsInv
<1>2. PICK a, k, r, p :
        /\ a = Actual(c) /\ k = my[c].asked
        /\ r = [my[c] EXCEPT !.count = a, !.back = k - a, !.first = 0]
        /\ p = IF a < k THEN "giveBack" ELSE "advance"
  OBVIOUS
<1>3. /\ cPc[c] = "recheck" /\ cPc' = [cPc EXCEPT ![c] = p]
      /\ my' = [my EXCEPT ![c] = r]
      /\ shape' = shape /\ UNCHANGED countVars /\ UNCHANGED producerVars
  BY <1>2 DEF Recheck, CGoes, Sets
<1>4. /\ Local(cPc[c], my[c], T, V, os[c], ls[c], xs[c])
      /\ xs[c] \in Int /\ T \in Int
  BY <1>1, AccountsFacts
<1>5. PICK x \in Int : x = xs[c]
  BY <1>4
<1>6. /\ IsClaim(my[c]) /\ k \in Nat /\ k > 0
  BY <1>2, <1>3, <1>4 DEF Local, Claiming
<1>7. a = Among(x, k, T)
  BY <1>1, <1>2, <1>3, <1>5, ActualIs
<1>8. a \in Nat /\ a <= k
  BY <1>4, <1>6, <1>7 DEF Among
<1>9. IsClaim(r) /\ r.count = a /\ r.back = k - a
  BY <1>2, <1>6 DEF IsClaim
<1>10. Local(p, r, T, V, 0, 0, 0)
  BY <1>2, <1>6, <1>8, <1>9 DEF Local
<1>11. AskOf(p, r) = k /\ AskOf(cPc[c], my[c]) = k
  <2>1. a + (k - a) = k
    BY <1>6, <1>8
  <2> QED BY <1>2, <1>3, <1>9, <2>1 DEF AskOf
<1>12. ASSUME NEW t \in Int, t >= T
       PROVE  ShareOf(p, r, 0, t) <= ShareOf(cPc[c], my[c], xs[c], t)
  <2>1. ShareOf(p, r, 0, t) = a /\ ShareOf(cPc[c], my[c], xs[c], t) = Among(x, k, t)
    BY <1>2, <1>3, <1>5, <1>9 DEF ShareOf
  <2>2. a <= Among(x, k, t)
    BY <1>4, <1>6, <1>7, <1>12 DEF Among
  <2> QED BY <2>1, <2>2
<1>13. Quiet(T, H, O, V, xs, c, p, r, 0, 0, 0)
  BY <1>2, <1>3, <1>10, <1>11, <1>12 DEF Quiet
<1> QED BY <1>1, <1>13, QuietStep

LEMMA GiveBackKeeps ==
  ASSUME AccountsInv, NobodyOversleeps', NEW c \in Consumers, GiveBack(c)
  PROVE  AccountsInv'
<1>1. PICK T, H, O, V, os, ls, xs : Accounts(T, H, O, V, os, ls, xs)
  BY DEF AccountsInv
<1>2. PICK a, b, r, p :
        /\ a = my[c].count /\ b = my[c].back
        /\ r = IF a > 0 THEN [my[c] EXCEPT !.back = 0] ELSE NoClaim
        /\ p = IF a > 0 THEN "advance" ELSE "idle"
  OBVIOUS
<1>3. /\ cPc[c] = "giveBack" /\ cPc' = [cPc EXCEPT ![c] = p]
      /\ my' = [my EXCEPT ![c] = r] /\ shape' = shape
      /\ dequeueOvercommit' = (dequeueOvercommit + b) % W
      /\ tailIndex' = tailIndex /\ headIndex' = headIndex
      /\ dequeueOptimisticCount' = dequeueOptimisticCount
      /\ pPc' = pPc /\ call' = call
  BY <1>2 DEF GiveBack, CGoes, Sets, Plus, producerVars
<1>4. /\ T \in Int /\ H \in Int /\ O \in Int /\ V \in Int /\ shape \in Shapes
      /\ Local(cPc[c], my[c], T, V, os[c], ls[c], xs[c])
  BY <1>1, AccountsFacts
<1>5. IsClaim(my[c]) /\ a \in Nat /\ b \in Nat
  BY <1>2, <1>3, <1>4 DEF Local, Claiming
<1>6. PICK w \in Nat \ {0} : w = W
  BY <1>4, ShapeFacts
<1>7. /\ headIndex = H % W /\ dequeueOptimisticCount = O % W
      /\ dequeueOvercommit = V % W
  BY <1>1 DEF Accounts, Numbered
<1>8. dequeueOvercommit' = (V + b) % W
  <2>1. ((V % w) + b) % w = (V + b) % w
    <3>1. V \in Int /\ b \in Int
      BY <1>4, <1>5
    <3> QED BY <3>1, ResiduePlus
  <2> QED BY <1>3, <1>6, <1>7, <2>1
<1>9. Local(p, r, T, V + b, 0, 0, 0) /\ AskOf(p, r) = a
      /\ \A t \in Int : ShareOf(p, r, 0, t) = a
  <2>1. CASE a > 0
    <3>1. IsClaim(r) /\ r.count = a /\ r.back = 0 /\ p = "advance"
      BY <1>2, <1>5, <2>1 DEF IsClaim
    <3> QED BY <3>1, <1>5 DEF Local, AskOf, ShareOf
  <2>2. CASE ~(a > 0)
    <3>1. a = 0 /\ p = "idle"
      BY <1>2, <1>5, <2>2
    <3> QED BY <3>1 DEF Local, Claiming, AskOf, ShareOf
  <2> QED BY <2>1, <2>2
<1>10. /\ AskOf(cPc[c], my[c]) = a + b
       /\ \A t \in Int : ShareOf(cPc[c], my[c], xs[c], t) = a
  BY <1>2, <1>3 DEF AskOf, ShareOf
<1>11. (O - (V + b)) - H = (((O - V) - H) - AskOf(cPc[c], my[c])) + AskOf(p, r)
  BY <1>4, <1>5, <1>9, <1>10
<1>12. ASSUME NEW t \in Int, t >= T
       PROVE  H + ((Total(Consumers, Shares(xs, t))
                      - ShareOf(cPc[c], my[c], xs[c], t))
                     + ShareOf(p, r, 0, t)) <= t
  <2>1. PICK n : n = Total(Consumers, Shares(xs, t))
    OBVIOUS
  <2>2. n \in Nat /\ H + n <= t
    BY <1>1, <1>12, <2>1, AccountsFacts
  <2>3. H + ((n - a) + a) <= t
    BY <1>4, <1>5, <2>2
  <2> QED BY <1>9, <1>10, <2>1, <2>3
<1>13. shape.total \in Nat
  BY <1>4, ShapeFacts
<1>14. p \notin {"optimistic", "claim"}
  BY <1>2
<1>15. Moved(T, H, O, V, xs, c, p, r, H, O, V + b, 0, 0, 0)
  <2>1. V + b \in Int /\ V <= V + b /\ O - H <= (O - H) + shape.total /\ H <= H
    BY <1>4, <1>5, <1>13
  <2> QED BY <1>3, <1>4, <1>7, <1>8, <1>9, <1>11, <1>12, <1>14, <2>1 DEF Moved
<1> QED BY <1>1, <1>15, MoveStep

LEMMA AdvanceKeeps ==
  ASSUME AccountsInv, NobodyOversleeps', NEW c \in Consumers, Advance(c)
  PROVE  AccountsInv'
<1>1. PICK T, H, O, V, os, ls, xs : Accounts(T, H, O, V, os, ls, xs)
  BY DEF AccountsInv
<1>2. PICK a, r :
        /\ a = my[c].count
        /\ r = [my[c] EXCEPT !.first = headIndex, !.asked = 0, !.want = 0]
  OBVIOUS
<1>3. /\ cPc[c] = "advance" /\ cPc' = [cPc EXCEPT ![c] = "header"]
      /\ my' = [my EXCEPT ![c] = r] /\ shape' = shape
      /\ headIndex' = (headIndex + a) % W
      /\ tailIndex' = tailIndex /\ dequeueOvercommit' = dequeueOvercommit
      /\ dequeueOptimisticCount' = dequeueOptimisticCount
      /\ pPc' = pPc /\ call' = call
  BY <1>2 DEF Advance, CGoes, Sets, Plus, producerVars
<1>4. /\ T \in Int /\ H \in Int /\ O \in Int /\ V \in Int /\ shape \in Shapes
      /\ Local(cPc[c], my[c], T, V, os[c], ls[c], xs[c])
  BY <1>1, AccountsFacts
<1>5. a \in Nat /\ my[c].back = 0
  BY <1>2, <1>3, <1>4 DEF Local
<1>6. PICK w \in Nat \ {0} : w = W
  BY <1>4, ShapeFacts
<1>7. /\ headIndex = H % W /\ dequeueOptimisticCount = O % W
      /\ dequeueOvercommit = V % W
  BY <1>1 DEF Accounts, Numbered
<1>8. headIndex' = (H + a) % W
  <2>1. ((H % w) + a) % w = (H + a) % w
    <3>1. H \in Int /\ a \in Int
      BY <1>4, <1>5
    <3> QED BY <3>1, ResiduePlus
  <2> QED BY <1>3, <1>6, <1>7, <2>1
<1>9. Local("header", r, T, V, 0, 0, 0) /\ AskOf("header", r) = 0
      /\ \A t \in Int : ShareOf("header", r, 0, t) = 0
  BY DEF Local, Claiming, AskOf, ShareOf
<1>10. /\ AskOf(cPc[c], my[c]) = a
       /\ \A t \in Int : ShareOf(cPc[c], my[c], xs[c], t) = a
  BY <1>2, <1>3, <1>5 DEF AskOf, ShareOf
<1>11. (O - V) - (H + a)
         = (((O - V) - H) - AskOf(cPc[c], my[c])) + AskOf("header", r)
  BY <1>4, <1>5, <1>9, <1>10
<1>12. ASSUME NEW t \in Int, t >= T
       PROVE  (H + a) + ((Total(Consumers, Shares(xs, t))
                            - ShareOf(cPc[c], my[c], xs[c], t))
                           + ShareOf("header", r, 0, t)) <= t
  <2>1. PICK n : n = Total(Consumers, Shares(xs, t))
    OBVIOUS
  <2>2. n \in Nat /\ H + n <= t
    BY <1>1, <1>12, <2>1, AccountsFacts
  <2>3. (H + a) + ((n - a) + 0) <= t
    BY <1>4, <1>5, <2>2
  <2> QED BY <1>9, <1>10, <2>1, <2>3
<1>13. shape.total \in Nat
  BY <1>4, ShapeFacts
<1>14. Moved(T, H, O, V, xs, c, "header", r, H + a, O, V, 0, 0, 0)
  <2>1. H + a \in Int /\ V <= V /\ H <= H + a
        /\ O - (H + a) <= (O - H) + shape.total
    BY <1>4, <1>5, <1>13
  <2> QED BY <1>3, <1>4, <1>7, <1>8, <1>9, <1>11, <1>12, <2>1 DEF Moved
<1> QED BY <1>1, <1>14, MoveStep

-----------------------------------------------------------------------------
(* The producer's steps.                                                   *)

\* Steps that publish nothing, and leave the consumers alone.
LEMMA ProducerStep ==
  ASSUME NEW T, NEW H, NEW O, NEW V, NEW os, NEW ls, NEW xs,
         Accounts(T, H, O, V, os, ls, xs), Publishing(T)',
         shape' = shape, UNCHANGED countVars, UNCHANGED consumerVars
  PROVE  AccountsInv'
<1>1. /\ Typed /\ Numbered(T, H, O, V)
      /\ Balanced(T, H, O, V, xs) /\ Locals(T, H, O, V, os, ls, xs)
  BY DEF Accounts
<1>2. W' = W /\ Leeway' = Leeway /\ cPc' = cPc /\ my' = my
  BY DEF W, Leeway, consumerVars
<1>3. Typed' /\ Numbered(T, H, O, V)'
  BY <1>1, <1>2 DEF Typed, Numbered, countVars
<1>4. Balanced(T, H, O, V, xs)'
  <2>1. Asked' = Asked /\ \A t \in Int : Shares(xs, t)' = Shares(xs, t)
    BY <1>2 DEF Asked, Shares, ShareOf, Among
  <2>2. Total(Consumers, Asked)' = Total(Consumers, Asked)
    BY <2>1 DEF Total
  <2>3. \A t \in Int : Total(Consumers, Shares(xs, t))' = Total(Consumers, Shares(xs, t))
    BY <2>1 DEF Total
  <2> QED BY <1>1, <1>2, <2>2, <2>3 DEF Balanced
<1>5. Locals(T, H, O, V, os, ls, xs)'
  BY <1>1, <1>2 DEF Locals, Local, IsFresh
<1> QED BY <1>3, <1>4, <1>5 DEF Accounts, AccountsInv

\* A call begins only if the bound allows it.
LEMMA BeginKeeps ==
  ASSUME AccountsInv, NEW n \in Nat, Begin(n)
  PROVE  AccountsInv'
<1>1. PICK T, H, O, V, os, ls, xs : Accounts(T, H, O, V, os, ls, xs)
  BY DEF AccountsInv
<1>2. /\ T \in Int /\ H \in Int /\ shape \in Shapes /\ shape.start <= H
      /\ H <= T /\ T <= shape.start + shape.total
  BY <1>1, AccountsFacts
<1>3. PICK w \in Nat \ {0}, s \in Nat, m \in Nat :
        w = W /\ s = shape.start /\ m = shape.total /\ m < w
  <2>1. shape.total < W
    <3>1. PICK h : h = W \div 2
      OBVIOUS
    <3>2. h \in Nat /\ W \in Nat /\ shape.total \in Nat /\ shape.total < W - h
      BY <1>2, <3>1, ShapeFacts
    <3> QED BY <3>2
  <2> QED BY <1>2, <2>1, ShapeFacts
<1>4. /\ ((tailIndex - shape.start) % W) + n <= shape.total
      /\ shape' = shape /\ UNCHANGED countVars /\ UNCHANGED consumerVars
      /\ \E a \in BOOLEAN :
           call' = [n |-> n, alloc |-> a, left |-> BlocksNeeded(n),
                    fresh |-> <<>>, start |-> tailBlock,
                    front |-> indexFront, used |-> slotsUsed]
  BY DEF Begin
<1>5. (tailIndex - shape.start) % W = T - s
  <2>1. tailIndex = T % w
    BY <1>1, <1>3 DEF Accounts, Numbered
  <2>2. T - s \in 0 .. w - 1
    BY <1>2, <1>3
  <2>3. PICK y \in Int, d \in Int : y = 0 - s /\ d = T - s
    BY <1>2, <1>3
  <2>4. ((T % w) + y) % w = (T + y) % w
    BY <1>2, ResiduePlus
  <2>5. PICK q : q = T % w
    OBVIOUS
  <2>6. q \in Int /\ q + y = q - s /\ T + y = d
    <3>1. q \in Int
      BY <1>2, <2>5, Residue
    <3> QED BY <1>2, <1>3, <2>3, <3>1
  <2>7. d % w = d
    BY <2>2, <2>3, SmallResidue
  <2> QED BY <1>3, <2>1, <2>3, <2>4, <2>5, <2>6, <2>7
<1>6. T + n <= s + m
  BY <1>2, <1>3, <1>4, <1>5
<1>7. IsCall(call') /\ call'.n = n
  BY <1>4 DEF IsCall
<1>8. Publishing(T)'
  BY <1>3, <1>4, <1>6, <1>7 DEF Publishing, IsCall
<1> QED BY <1>1, <1>4, <1>8, ProducerStep

\* A call goes on with as many elements, or ends.
Onward ==
  /\ shape' = shape /\ UNCHANGED countVars /\ UNCHANGED consumerVars
  /\ \/ pPc' \in {"idle", "gone"}
     \/ /\ pPc \notin {"idle", "gone"}
        /\ IsCall(call) => IsCall(call') /\ call'.n = call.n

LEMMA OnwardKeeps ==
  ASSUME AccountsInv, Onward
  PROVE  AccountsInv'
<1>1. PICK T, H, O, V, os, ls, xs : Accounts(T, H, O, V, os, ls, xs)
  BY DEF AccountsInv
<1>2. Publishing(T)
  BY <1>1 DEF Accounts
<1>3. Publishing(T)'
  <2>1. CASE pPc' \in {"idle", "gone"}
    BY <2>1 DEF Publishing
  <2>2. CASE /\ pPc \notin {"idle", "gone"}
             /\ IsCall(call) => IsCall(call') /\ call'.n = call.n
    <3>1. IsCall(call') /\ call'.n = call.n /\ call.n \in Nat
          /\ T + call.n <= shape.start + shape.total
      BY <1>2, <2>2 DEF Publishing
    <3> QED BY <3>1 DEF Publishing, IsCall, Onward
  <2> QED BY <2>1, <2>2 DEF Onward
<1> QED BY <1>1, <1>3, ProducerStep DEF Onward

\* The steps that get the blocks and construct.
LEMMA BlocksAreOnward ==
  ASSUME \/ TakeAhead \/ LeaveCircle \/ HeadIsRead \/ GrowExplicit \/ GrowImplicit
         \/ Enter \/ TakeExplicit \/ TakeImplicit \/ EnqueueFails \/ Expose
         \/ Construct \/ ConstructThrows
  PROVE  Onward
<1>1. CASE LeaveCircle
  BY <1>1 DEF Onward, LeaveCircle, PGoes
<1>2. CASE HeadIsRead
  BY <1>2 DEF Onward, HeadIsRead, PGoes
<1>3. CASE GrowExplicit
  <2>1. /\ pPc = "room" /\ shape' = shape
        /\ UNCHANGED countVars /\ UNCHANGED consumerVars
        /\ call' = [call EXCEPT !.front = call.used]
    BY <1>3 DEF GrowExplicit, PGoes
  <2>2. IsCall(call) => IsCall(call') /\ call'.n = call.n
    BY <2>1 DEF IsCall
  <2> QED BY <2>1, <2>2 DEF Onward
<1>4. CASE GrowImplicit
  BY <1>4 DEF Onward, GrowImplicit, PGoes
<1>5. CASE Enter
  BY <1>5 DEF Onward, Enter, PGoes
<1>6. ASSUME pPc \in {"ahead", "block"}, shape' = shape, UNCHANGED countVars,
             UNCHANGED consumerVars, NEW b, Got(b)
      PROVE  Onward
  <2>1. call' = [call EXCEPT !.fresh = Append(@, b),
                             !.left = @ - 1, !.alloc = @ /\ call.left > 1]
    BY <1>6 DEF Got
  <2>2. IsCall(call) => IsCall(call') /\ call'.n = call.n
    BY <2>1 DEF IsCall
  <2> QED BY <1>6, <2>2 DEF Onward
<1>7. CASE TakeAhead
  <2>1. /\ pPc = "ahead" /\ shape' = shape /\ UNCHANGED countVars
        /\ UNCHANGED consumerVars /\ Got(next[tailBlock])
    BY <1>7 DEF TakeAhead, PGoes
  <2> QED BY <2>1, <1>6
<1>8. CASE TakeExplicit
  <2>1. /\ pPc = "block" /\ shape' = shape /\ UNCHANGED countVars
        /\ UNCHANGED consumerVars /\ Got(Min(Available))
    BY <1>8 DEF TakeExplicit, PGoes
  <2> QED BY <2>1, <1>6
<1>9. CASE TakeImplicit
  <2>1. /\ pPc = "block" /\ shape' = shape /\ UNCHANGED countVars
        /\ UNCHANGED consumerVars /\ Got(Min(Available))
    BY <1>9 DEF TakeImplicit, PGoes
  <2> QED BY <2>1, <1>6
<1>10. CASE EnqueueFails
  <2>1. /\ pPc' = "idle" /\ shape' = shape
        /\ UNCHANGED countVars /\ UNCHANGED consumerVars
    BY <1>10 DEF EnqueueFails, PGoes
  <2> QED BY <2>1 DEF Onward
<1>11. CASE Expose
  BY <1>11 DEF Onward, Expose, PGoes
<1>12. CASE Construct
  BY <1>12 DEF Onward, Construct, PGoes
<1>13. CASE ConstructThrows
  <2>1. /\ pPc' = "idle" /\ shape' = shape
        /\ UNCHANGED countVars /\ UNCHANGED consumerVars
    BY <1>13 DEF ConstructThrows, PGoes
  <2> QED BY <2>1 DEF Onward
<1> QED BY <1>1, <1>2, <1>3, <1>4, <1>5, <1>7, <1>8, <1>9, <1>10, <1>11,
           <1>12, <1>13

\* More is published.
LEMMA PublishKeeps ==
  ASSUME AccountsInv, Publish
  PROVE  AccountsInv'
<1>1. PICK T, H, O, V, os, ls, xs : Accounts(T, H, O, V, os, ls, xs)
  BY DEF AccountsInv
<1>2. PICK n : n = call.n
  OBVIOUS
<1>3. /\ pPc = "publish" /\ pPc' = "idle" /\ shape' = shape
      /\ tailIndex' = (tailIndex + n) % W /\ headIndex' = headIndex
      /\ dequeueOptimisticCount' = dequeueOptimisticCount
      /\ dequeueOvercommit' = dequeueOvercommit /\ cPc' = cPc /\ my' = my
  BY <1>2 DEF Publish, PGoes, Plus, consumerVars
<1>4. /\ Typed /\ Numbered(T, H, O, V) /\ Publishing(T)
      /\ Balanced(T, H, O, V, xs) /\ Locals(T, H, O, V, os, ls, xs)
  BY <1>1 DEF Accounts
<1>5. T \in Int /\ n \in Nat /\ T + n <= shape.start + shape.total /\ shape \in Shapes
  BY <1>2, <1>3, <1>4 DEF Publishing, Numbered, Typed
<1>6. PICK w \in Nat \ {0} : w = W
  BY <1>5, ShapeFacts
<1>7. tailIndex' = (T + n) % W
  <2>1. ((T % w) + n) % w = (T + n) % w
    <3>1. T \in Int /\ n \in Int
      BY <1>5
    <3> QED BY <3>1, ResiduePlus
  <2> QED BY <1>3, <1>4, <1>6, <2>1 DEF Numbered
<1>8. W' = W /\ Leeway' = Leeway /\ Leeway \in Nat /\ shape.start \in Nat
  BY <1>3, <1>5, ShapeFacts DEF W, Leeway
<1>9. PICK u \in Int : u = T + n
  BY <1>5
<1>10. Typed' /\ Publishing(u)'
  BY <1>3, <1>4 DEF Typed, Publishing
<1>11. Numbered(u, H, O, V)'
  BY <1>3, <1>4, <1>5, <1>7, <1>8, <1>9 DEF Numbered
<1>12. Balanced(u, H, O, V, xs)'
  <2>1. Asked' = Asked /\ \A t \in Int : Shares(xs, t)' = Shares(xs, t)
    BY <1>3 DEF Asked, Shares, ShareOf, Among
  <2>2. Total(Consumers, Asked)' = Total(Consumers, Asked)
    BY <2>1 DEF Total
  <2>3. \A t \in Int : Total(Consumers, Shares(xs, t))' = Total(Consumers, Shares(xs, t))
    BY <2>1 DEF Total
  <2>4. \A t \in Int : t >= u => t >= T
    BY <1>5, <1>9
  <2> QED BY <1>4, <1>8, <2>2, <2>3, <2>4 DEF Balanced
<1>13. Locals(u, H, O, V, os, ls, xs)'
  <2>1. \A c \in Consumers : Local(cPc[c], my[c], u, V, os[c], ls[c], xs[c])'
    <3> TAKE c \in Consumers
    <3>1. /\ Local(cPc[c], my[c], T, V, os[c], ls[c], xs[c])
          /\ ls[c] \in Int /\ xs[c] \in Int
      BY <1>4 DEF Locals
    <3>2. /\ ls[c] <= T => ls[c] <= u
          /\ xs[c] <= T + Leeway => xs[c] <= u + Leeway
      BY <3>1, <1>5, <1>8, <1>9
    <3> QED BY <3>1, <3>2, <1>3, <1>8 DEF Local
  <2>2. \A c \in Consumers : IsFresh(cPc[c], H, O, os[c])'
    BY <1>3, <1>4, <1>8 DEF Locals, IsFresh
  <2> QED BY <1>4, <2>1, <2>2 DEF Locals
<1> QED BY <1>10, <1>11, <1>12, <1>13 DEF Accounts, AccountsInv

-----------------------------------------------------------------------------
(* The destructors, the first state, and all steps.                        *)

LEMMA DestroyKeeps ==
  ASSUME AccountsInv, Destroy
  PROVE  AccountsInv'
<1>1. PICK T, H, O, V, os, ls, xs : Accounts(T, H, O, V, os, ls, xs)
  BY DEF AccountsInv
<1>2. /\ \A c \in Consumers : cPc[c] = "idle"
      /\ cPc' = [c \in Consumers |-> "gone"] /\ pPc' = "gone"
      /\ shape' = shape /\ UNCHANGED countVars /\ my' = my
  BY DEF Destroy, PGoes
<1>3. /\ Typed /\ Numbered(T, H, O, V)
      /\ Balanced(T, H, O, V, xs) /\ Locals(T, H, O, V, os, ls, xs)
  BY <1>1 DEF Accounts
<1>4. W' = W /\ Leeway' = Leeway
  BY <1>2 DEF W, Leeway
<1>5. Typed' /\ Numbered(T, H, O, V)' /\ Publishing(T)'
  BY <1>2, <1>3, <1>4 DEF Typed, Numbered, Publishing, countVars
<1>6. Balanced(T, H, O, V, xs)'
  <2>1. Asked' = Asked /\ \A t \in Int : Shares(xs, t)' = Shares(xs, t)
    BY <1>2 DEF Asked, Shares, ShareOf
  <2>2. Total(Consumers, Asked)' = Total(Consumers, Asked)
    BY <2>1 DEF Total
  <2>3. \A t \in Int : Total(Consumers, Shares(xs, t))' = Total(Consumers, Shares(xs, t))
    BY <2>1 DEF Total
  <2> QED BY <1>3, <1>4, <2>2, <2>3 DEF Balanced
<1>7. Locals(T, H, O, V, os, ls, xs)'
  BY <1>2, <1>3 DEF Locals, Local, IsFresh, Claiming
<1> QED BY <1>5, <1>6, <1>7 DEF Accounts, AccountsInv

LEMMA InitAccounts == Init => AccountsInv
<1> SUFFICES ASSUME Init PROVE AccountsInv
  OBVIOUS
<1>1. PICK s : s = shape.start
  OBVIOUS
<1>2. /\ shape \in Shapes /\ tailIndex = s /\ headIndex = s
      /\ dequeueOptimisticCount = s /\ dequeueOvercommit = 0
      /\ pPc = "idle" /\ cPc = [c \in Consumers |-> "idle"]
      /\ my = [c \in Consumers |-> NoClaim]
  BY <1>1 DEF Init
<1>3. PICK w \in Nat \ {0} : w = W
  BY <1>2, ShapeFacts
<1>4. s \in Nat /\ shape.total \in Nat /\ Leeway \in Nat /\ s < w
  <2>1. shape.start < shape.wrap
    BY <1>2, SubQueueConstants DEF SubQueueConstants
  <2> QED BY <1>1, <1>2, <1>3, <2>1, ShapeFacts
<1>5. s % W = s /\ 0 % W = 0
  <2>1. s \in 0 .. w - 1 /\ 0 \in 0 .. w - 1
    BY <1>4
  <2> QED BY <1>3, <2>1, SmallResidue
<1>6. Typed /\ Publishing(s)
  BY <1>2 DEF Typed, Publishing
<1>7. Numbered(s, s, s, 0)
  BY <1>1, <1>2, <1>4, <1>5 DEF Numbered
<1> DEFINE zero == [c \in Consumers |-> 0]
<1>8. Balanced(s, s, s, 0, zero)
  <2>1. Total(Consumers, Asked) = 0
    <3>1. \A c \in Consumers : Asked[c] = 0
      BY <1>2 DEF Asked
    <3> QED BY <3>1, TotalOfNone
  <2>2. \A t \in Int : Total(Consumers, Shares(zero, t)) = 0
    <3> TAKE t \in Int
    <3>1. \A c \in Consumers : Shares(zero, t)[c] = 0
      BY <1>2 DEF Shares, ShareOf
    <3>2. PICK f : f = Shares(zero, t)
      OBVIOUS
    <3>3. Total(Consumers, f) = 0
      BY <3>1, <3>2, TotalOfNone
    <3> QED BY <3>2, <3>3
  <2> HIDE DEF zero
  <2> QED BY <1>4, <2>1, <2>2 DEF Balanced
<1>9. Locals(s, s, s, 0, zero, zero, zero)
  BY <1>2 DEF Locals, Local, IsFresh, Claiming
<1> HIDE DEF zero
<1> QED BY <1>6, <1>7, <1>8, <1>9 DEF Accounts, AccountsInv

\* The invariant is kept as long as nobody oversleeps.
LEMMA ConsumeKeeps ==
  ASSUME AccountsInv, NobodyOversleeps', NEW c \in Consumers, Consume(c)
  PROVE  AccountsInv'
<1>1. CASE DequeueOne(c) \/ DequeueBulk(c)
  <2>1. PICK n \in Nat : n > 0 /\ Dequeue(c, n)
    BY <1>1 DEF DequeueOne, DequeueBulk
  <2> QED BY <2>1, DequeueKeeps
<1>2. CASE LoadHeader(c) \/ LoadLast(c) \/ Locate(c) \/ TakeOut(c) \/ SetEmpty(c)
             \/ Return(c)
  <2>1. cPc[c] \in {"header", "last", "locate", "take", "setEmpty", "clear"}
    BY <1>2 DEF LoadHeader, LoadLast, Locate, TakeOut, SetEmpty, Return, CGoes
  <2>2. shape' = shape /\ UNCHANGED countVars /\ UNCHANGED producerVars
    BY <1>2 DEF LoadHeader, LoadLast, Locate, TakeOut, SetEmpty, Return
  <2>3. \E p : p \notin Claiming /\ cPc' = [cPc EXCEPT ![c] = p]
    BY <1>2 DEF LoadHeader, LoadLast, Locate, TakeOut, SetEmpty, Return, CGoes,
                MoreAfter, Claiming
  <2>4. \E r : my' = [my EXCEPT ![c] = r]
    <3>1. CASE TakeOut(c) \/ UNCHANGED my
      <4>1. my' = my
        BY <3>1 DEF TakeOut
      <4>2. my = [d \in Consumers |-> my[d]]
        BY DEF AccountsInv, Accounts, Typed
      <4>3. my = [my EXCEPT ![c] = my[c]]
        BY <4>2
      <4> QED BY <4>1, <4>3
    <3>2. CASE ~(TakeOut(c) \/ UNCHANGED my)
      BY <1>2, <3>2 DEF LoadHeader, LoadLast, Locate, SetEmpty, Return, Sets, NextBlock
    <3> QED BY <3>1, <3>2
  <2>5. cPc[c] \notin Claiming
    BY <2>1 DEF Claiming
  <2> QED BY <2>2, <2>3, <2>4, <2>5, OutsideStep
<1> QED BY <1>1, <1>2, LoadOvercommitKeeps, SeemsEmptyKeeps, SeemsFilledKeeps,
           ClaimKeeps, RecheckKeeps, GiveBackKeeps, AdvanceKeeps DEF Consume

LEMMA NextKeeps ==
  ASSUME AccountsInv, NobodyOversleeps', [Next]_vars
  PROVE  AccountsInv'
<1>1. CASE Produce
  <2>1. CASE EnqueueOne \/ EnqueueBulk
    <3>1. PICK n \in Nat : Begin(n)
      BY <2>1 DEF EnqueueOne, EnqueueBulk
    <3> QED BY <3>1, BeginKeeps
  <2>2. CASE Publish
    BY <2>2, PublishKeeps
  <2>3. CASE ~(EnqueueOne \/ EnqueueBulk \/ Publish)
    BY <1>1, <2>3, BlocksAreOnward, OnwardKeeps DEF Produce
  <2> QED BY <2>1, <2>2, <2>3
<1>2. CASE \E c \in Consumers : Consume(c)
  BY <1>2, ConsumeKeeps
<1>3. CASE Destroy
  BY <1>3, DestroyKeeps
<1>4. CASE UNCHANGED vars
  <2>1. PICK T, H, O, V, os, ls, xs : Accounts(T, H, O, V, os, ls, xs)
    BY DEF AccountsInv
  <2>2. /\ shape' = shape /\ UNCHANGED countVars /\ UNCHANGED consumerVars
        /\ pPc' = pPc /\ call' = call
    BY <1>4 DEF vars, producerVars
  <2>3. Publishing(T)'
    BY <2>1, <2>2 DEF Accounts, Publishing
  <2> QED BY <2>1, <2>2, <2>3, ProducerStep
<1> QED BY <1>1, <1>2, <1>3, <1>4 DEF Next, Done

LEMMA AccountsHold == Spec /\ []NobodyOversleeps => []AccountsInv
<1>1. Init => AccountsInv
  BY InitAccounts
<1>2. AccountsInv /\ NobodyOversleeps' /\ [Next]_vars => AccountsInv'
  BY NextKeeps
<1> QED BY <1>1, <1>2, PTL DEF Spec

-----------------------------------------------------------------------------
(* What the invariant says of the counters.                                *)

LEMMA AccountsMatch ==
  ASSUME AccountsInv
  PROVE  CountersMatch
<1>1. PICK T, H, O, V, os, ls, xs : Accounts(T, H, O, V, os, ls, xs)
  BY DEF AccountsInv
<1>2. /\ T \in Int /\ H \in Int /\ O \in Int /\ V \in Int /\ shape \in Shapes
      /\ shape.start <= H /\ H <= T /\ T <= shape.start + shape.total
  BY <1>1, AccountsFacts
<1>3. PICK w \in Nat \ {0}, h \in Nat, s \in Nat, m \in Nat, k \in Nat :
        /\ w = W /\ h = w \div 2 /\ s = shape.start /\ m = shape.total
        /\ k = Leeway /\ k + m = h /\ h < w
  BY <1>2, ShapeFacts
<1>4. /\ tailIndex = T % w /\ headIndex = H % w
      /\ dequeueOptimisticCount = O % w /\ dequeueOvercommit = V % w
  BY <1>1, <1>3 DEF Accounts, Numbered
<1>5. /\ Typed /\ Balanced(T, H, O, V, xs) /\ Locals(T, H, O, V, os, ls, xs)
  BY <1>1 DEF Accounts
<1>6. /\ Asked \in [Consumers -> Nat] /\ IsFiniteSet(Consumers)
      /\ Shares(xs, T) \in [Consumers -> Nat]
  BY <1>2, <1>5, AskFacts
<1>7. PICK n : n = Total(Consumers, Asked)
  OBVIOUS
<1>8. n \in Nat /\ O - V = H + n
  <2>1. \A c \in Consumers : Asked[c] \in Nat /\ Asked[c] <= Asked[c]
    BY <1>6
  <2>2. Total(Consumers, Asked) \in Nat
    BY <1>6, <2>1, TotalAtMost
  <2> QED BY <1>5, <1>7, <2>2 DEF Balanced
<1>9. (((dequeueOptimisticCount - dequeueOvercommit) - headIndex) - n) % w = 0
  <2>1. PICK a, b, g : a = O % w /\ b = V % w /\ g = H % w
    OBVIOUS
  <2>2. a \in Int /\ b \in Int /\ g \in Int
    BY <1>2, <2>1, Residue
  <2>3. PICK y \in Int, z \in Int : y = (a - b) - g /\ z = 0 - n
    BY <1>8, <2>2
  <2>4. y % w = ((O - V) - H) % w
    <3>1. (((O % w) - (V % w)) - (H % w)) % w = ((O - V) - H) % w
      <4>1. O \in Int /\ H \in Int /\ V \in Int
        BY <1>2
      <4> QED BY <4>1, ResidueAhead, Zenon
    <3> QED BY <2>1, <2>3, <3>1
  <2>5. (O - V) - H = n
    BY <1>2, <1>8
  <2>6. PICK q : q = y % w
    OBVIOUS
  <2>7. (q + z) % w = (y + z) % w
    BY <2>6, ResiduePlus
  <2>8. (q + z) % w = (n + z) % w
    <3>1. q = n % w /\ n \in Int
      BY <1>8, <2>4, <2>5, <2>6
    <3> QED BY <3>1, ResiduePlus
  <2>9. n + z = 0 /\ y + z = y - n
    BY <1>8, <2>3
  <2>10. 0 % w = 0
    <3>1. 0 \in 0 .. w - 1
      OBVIOUS
    <3> QED BY <3>1, SmallResidue
  <2> QED BY <1>4, <2>1, <2>3, <2>7, <2>8, <2>9, <2>10
<1>10. PICK r : r = Total(Consumers, Secured)
  OBVIOUS
<1>11. r \in Nat /\ H + r <= T
  <2>1. \A c \in Consumers :
          Secured[c] \in Nat /\ Secured[c] <= Shares(xs, T)[c]
    <3> TAKE c \in Consumers
    <3>1. /\ Local(cPc[c], my[c], T, V, os[c], ls[c], xs[c])
          /\ Shares(xs, T)[c] = ShareOf(cPc[c], my[c], xs[c], T)
          /\ Shares(xs, T)[c] \in Nat
      BY <1>5, <1>6 DEF Locals, Shares
    <3>2. Secured[c] = IF cPc[c] \in {"giveBack", "advance"} THEN my[c].count ELSE 0
      BY DEF Secured
    <3>3. CASE cPc[c] \in {"giveBack", "advance"}
      BY <3>1, <3>2, <3>3 DEF Local, ShareOf
    <3>4. CASE cPc[c] \notin {"giveBack", "advance"}
      BY <3>1, <3>2, <3>4
    <3> QED BY <3>3, <3>4
  <2>2. PICK f, g : f = Secured /\ g = Shares(xs, T)
    OBVIOUS
  <2>3. f \in [Consumers -> Nat]
    BY <2>1, <2>2 DEF Secured
  <2>4. g \in [Consumers -> Nat] /\ \A c \in Consumers : f[c] <= g[c]
    BY <1>6, <2>1, <2>2
  <2>5. /\ Total(Consumers, f) \in Nat /\ Total(Consumers, g) \in Nat
        /\ Total(Consumers, f) <= Total(Consumers, g)
    BY <1>6, <2>3, <2>4, TotalAtMost
  <2>6. H + Total(Consumers, g) <= T
    BY <1>2, <1>5, <2>2 DEF Balanced
  <2> QED BY <1>2, <1>10, <2>2, <2>5, <2>6
<1>12. ~circular_less_than(tailIndex, Plus(headIndex, r))
  <2>1. PICK b \in Int : b = H + r
    BY <1>2, <1>11
  <2>2. Plus(headIndex, r) = b % w
    <3>1. ((H % w) + r) % w = (H + r) % w
      <4>1. r \in Int
        BY <1>11
      <4> QED BY <1>2, <4>1, ResiduePlus
    <3> QED BY <1>3, <1>4, <2>1, <3>1 DEF Plus
  <2>3. T - b <= w \div 2 /\ b - T < w - (w \div 2) /\ ~(T < b)
    BY <1>2, <1>3, <1>11, <2>1
  <2>4. ~(((T % w) - (b % w)) % w > w \div 2)
    BY <1>2, <2>3, CircularLess
  <2> QED BY <1>3, <1>4, <2>2, <2>4 DEF circular_less_than
<1> QED BY <1>3, <1>7, <1>9, <1>10, <1>12
       DEF CountersMatch, CountersBalance, NothingOverclaimed

\* As long as no consumer sleeps through half a round of the indices, what the
\* consumers asked for is claimed, overcommitted or in their hands, and no more
\* is claimed than was published.
THEOREM CountersStayMatched == Spec /\ []NobodyOversleeps => []CountersMatch
<1>1. AccountsInv => CountersMatch
  BY AccountsMatch
<1> QED BY <1>1, AccountsHold, PTL

-----------------------------------------------------------------------------
(* Why a dequeue comes back empty.  A consumer that had elements before it   *)
(* and no rival asks for what there is and gets it.                          *)

\* The elements nobody claimed yet.
Gap == (tailIndex - headIndex) % W

\* What is known of a consumer that had elements and no rival since it began.
Sure(c) ==
  /\ cPc[c] \in Claiming \ {"giveBack"}
  /\ \A d \in Consumers \ {c} : cPc[d] \notin Claiming
  /\ cPc[c] \in {"overcommit", "optimistic"} =>
       (my[c].tail - headIndex) % W \in 1 .. Gap
  /\ cPc[c] \in {"optimistic", "claim"} => my[c].over = dequeueOvercommit
  /\ cPc[c] \in {"claim", "recheck"} => my[c].asked <= Gap
  /\ cPc[c] = "recheck" => my[c].first = headIndex

SureInv == \A c \in Consumers : ample[c] => Sure(c)

LEMMA GapIs ==
  ASSUME NEW T, NEW H, NEW O, NEW V, NEW os, NEW ls, NEW xs,
         Accounts(T, H, O, V, os, ls, xs)
  PROVE  Gap = T - H
<1>1. /\ T \in Int /\ H \in Int /\ shape \in Shapes
      /\ shape.start <= H /\ H <= T /\ T <= shape.start + shape.total
  BY AccountsFacts
<1>2. PICK w \in Nat \ {0}, h \in Nat, s \in Nat, m \in Nat :
        w = W /\ h = w \div 2 /\ s = shape.start /\ m = shape.total /\ m < w - h
  BY <1>1, ShapeFacts
<1>3. PICK g \in Int : g = T - H
  BY <1>1
<1>4. g \in 0 .. w - 1
  BY <1>1, <1>2, <1>3
<1>5. ((T % w) - (H % w)) % w = g % w
  BY <1>1, <1>3, ResidueLess
<1>6. g % w = g
  BY <1>4, SmallResidue
<1>7. tailIndex = T % w /\ headIndex = H % w
  BY <1>2 DEF Accounts, Numbered
<1> QED BY <1>2, <1>3, <1>5, <1>6, <1>7 DEF Gap

LEMMA GapFacts ==
  ASSUME AccountsInv
  PROVE  /\ Typed /\ W \in Nat \ {0} /\ shape.total \in Nat
         /\ tailIndex \in Int /\ headIndex \in 0 .. W - 1
         /\ dequeueOptimisticCount \in Int /\ dequeueOvercommit \in Int
         /\ Gap \in Nat /\ Gap <= shape.total
         /\ tailIndex # headIndex => Gap > 0
<1>1. PICK T, H, O, V, os, ls, xs : Accounts(T, H, O, V, os, ls, xs)
  BY DEF AccountsInv
<1>2. /\ T \in Int /\ H \in Int /\ O \in Int /\ V \in Int /\ shape \in Shapes
      /\ shape.start <= H /\ H <= T /\ T <= shape.start + shape.total
  BY <1>1, AccountsFacts
<1>3. PICK w \in Nat \ {0}, s \in Nat, m \in Nat :
        w = W /\ s = shape.start /\ m = shape.total
  BY <1>2, ShapeFacts
<1>4. /\ tailIndex = T % w /\ headIndex = H % w
      /\ dequeueOptimisticCount = O % w /\ dequeueOvercommit = V % w /\ Typed
  BY <1>1, <1>3 DEF Accounts, Numbered
<1>5. /\ T % w \in 0 .. w - 1 /\ H % w \in 0 .. w - 1
      /\ O % w \in 0 .. w - 1 /\ V % w \in 0 .. w - 1
  BY <1>2, Residue
<1>6. Gap = T - H
  BY <1>1, GapIs
<1>7. T - H \in Nat /\ T - H <= m
  BY <1>2, <1>3
<1>8. T # H => T - H > 0
  BY <1>2
<1> QED BY <1>3, <1>4, <1>5, <1>6, <1>7, <1>8

\* When nobody holds a claim that is not settled, all that was asked for is
\* claimed or overcommitted.
LEMMA NobodyAsks ==
  ASSUME AccountsInv, \A c \in Consumers : Asked[c] = 0
  PROVE  (dequeueOptimisticCount - dequeueOvercommit) % W = headIndex
<1>1. PICK T, H, O, V, os, ls, xs : Accounts(T, H, O, V, os, ls, xs)
  BY DEF AccountsInv
<1>2. H \in Int /\ O \in Int /\ V \in Int /\ shape \in Shapes
  BY <1>1, AccountsFacts
<1>3. PICK w \in Nat \ {0} : w = W
  BY <1>2, ShapeFacts
<1>4. /\ headIndex = H % w /\ dequeueOptimisticCount = O % w
      /\ dequeueOvercommit = V % w
  BY <1>1, <1>3 DEF Accounts, Numbered
<1>5. Total(Consumers, Asked) = 0
  BY TotalOfNone
<1>6. O - V = H
  BY <1>1, <1>2, <1>5 DEF Accounts, Balanced
<1>7. ((O % w) - (V % w)) % w = (O - V) % w
  BY <1>2, ResidueLess
<1> QED BY <1>3, <1>4, <1>6, <1>7

LEMMA PublishWidens ==
  ASSUME AccountsInv, Publish
  PROVE  Gap' \in Nat /\ Gap' >= Gap
<1>1. PICK T, H, O, V, os, ls, xs : Accounts(T, H, O, V, os, ls, xs)
  BY DEF AccountsInv
<1>2. PICK n : n = call.n
  OBVIOUS
<1>3. /\ pPc = "publish" /\ tailIndex' = (tailIndex + n) % W
      /\ headIndex' = headIndex /\ W' = W
  BY <1>2 DEF Publish, PGoes, Plus, W
<1>4. /\ T \in Int /\ H \in Int /\ shape \in Shapes
      /\ shape.start <= H /\ H <= T
  BY <1>1, AccountsFacts
<1>5. n \in Nat /\ T + n <= shape.start + shape.total
  BY <1>1, <1>2, <1>3 DEF Accounts, Publishing
<1>6. PICK w \in Nat \ {0}, h \in Nat, s \in Nat, m \in Nat :
        w = W /\ h = w \div 2 /\ s = shape.start /\ m = shape.total /\ m < w - h
  BY <1>4, ShapeFacts
<1>7. tailIndex = T % w /\ headIndex = H % w
  BY <1>1, <1>6 DEF Accounts, Numbered
<1>8. PICK u \in Int, g \in Int : u = T + n /\ g = u - H
  BY <1>4, <1>5
<1>9. tailIndex' = u % w
  <2>1. ((T % w) + n) % w = (T + n) % w
    <3>1. T \in Int /\ n \in Int
      BY <1>4, <1>5
    <3> QED BY <3>1, ResiduePlus
  <2> QED BY <1>3, <1>6, <1>7, <1>8, <2>1
<1>10. ((u % w) - (H % w)) % w = g % w
  BY <1>4, <1>8, ResidueLess
<1>11. g \in 0 .. w - 1 /\ g >= T - H
  BY <1>4, <1>5, <1>6, <1>8
<1>12. g % w = g
  BY <1>11, SmallResidue
<1>13. Gap' = g
  BY <1>3, <1>6, <1>7, <1>9, <1>10, <1>12 DEF Gap
<1>14. Gap = T - H
  BY <1>1, GapIs
<1> QED BY <1>11, <1>13, <1>14

\* A number of elements is told from none.
LEMMA SomeIsAhead ==
  ASSUME shape \in Shapes, NEW k \in Nat, k <= shape.total, k > 0
  PROVE  circular_less_than(0, k)
<1>1. PICK w \in Nat \ {0}, h \in Nat, m \in Nat :
        w = W /\ h = w \div 2 /\ h < w /\ m = shape.total /\ m < w - h
  BY ShapeFacts
<1>2. 0 \in 0 .. w - 1 /\ k \in 0 .. w - 1
  BY <1>1
<1>3. 0 % w = 0 /\ k % w = k
  BY <1>2, SmallResidue
<1>4. 0 - k <= w \div 2 /\ k - 0 < w - (w \div 2)
  BY <1>1
<1>5. k \in Int
  OBVIOUS
<1>6. ((0 % w) - (k % w)) % w > w \div 2 <=> 0 < k
  BY <1>4, <1>5, CircularLess
<1> QED BY <1>1, <1>3, <1>6 DEF circular_less_than

LEMMA ClaimFacts ==
  ASSUME AccountsInv, NEW c \in Consumers
  PROVE  /\ cPc[c] \in Claiming => IsClaim(my[c])
         /\ cPc[c] \in {"overcommit", "optimistic"} =>
              my[c].want \in Nat /\ my[c].want > 0
         /\ cPc[c] \in {"claim", "recheck"} =>
              my[c].asked \in Nat /\ my[c].asked > 0
<1>1. PICK T, H, O, V, os, ls, xs : Accounts(T, H, O, V, os, ls, xs)
  BY DEF AccountsInv
<1>2. Local(cPc[c], my[c], T, V, os[c], ls[c], xs[c])
  BY <1>1, AccountsFacts
<1> QED BY <1>2 DEF Local

\* What such a consumer sees.
LEMMA SureSees ==
  ASSUME AccountsInv, NEW c \in Consumers, Sure(c), cPc[c] = "optimistic"
  PROVE  Seem(c) \in 1 .. Gap /\ circular_less_than(0, Seem(c))
<1>1. /\ Typed /\ W \in Nat \ {0} /\ shape.total \in Nat
      /\ dequeueOptimisticCount \in Int /\ dequeueOvercommit \in Int
      /\ Gap \in Nat /\ Gap <= shape.total /\ headIndex \in Int
  BY GapFacts
<1>2. /\ (my[c].tail - headIndex) % W \in 1 .. Gap
      /\ my[c].over = dequeueOvercommit
  BY DEF Sure
<1>3. (dequeueOptimisticCount - dequeueOvercommit) % W = headIndex
  <2>1. \A d \in Consumers : Asked[d] = 0
    BY DEF Sure, Asked, Claiming
  <2> QED BY <2>1, NobodyAsks
<1>4. my[c].tail \in Int
  <2>1. PICK T, H, O, V, os, ls, xs : Accounts(T, H, O, V, os, ls, xs)
    BY DEF AccountsInv
  <2>2. Local(cPc[c], my[c], T, V, os[c], ls[c], xs[c]) /\ ls[c] \in Int
    BY <2>1, AccountsFacts
  <2>3. my[c].tail = ls[c] % W
    BY <2>2 DEF Local
  <2>4. PICK l \in Int, w \in Nat \ {0} : l = ls[c] /\ w = W
    BY <1>1, <2>2
  <2>5. l % w \in 0 .. w - 1
    BY Residue
  <2> QED BY <2>3, <2>4, <2>5
<1>5. PICK a \in Int, b \in Int, w \in Nat \ {0} :
        /\ a = my[c].tail /\ b = dequeueOptimisticCount - dequeueOvercommit /\ w = W
  BY <1>1, <1>4
<1>6. (a - (b % w)) % w = (a - b) % w
  BY ResidueMinus
<1>7. Seem(c) = (a - headIndex) % w
  BY <1>2, <1>3, <1>5, <1>6 DEF Seem
<1>8. PICK k : k = Seem(c)
  OBVIOUS
<1>9. k \in 1 .. Gap
  BY <1>2, <1>5, <1>7, <1>8
<1>10. k \in Nat /\ k <= shape.total /\ k > 0
  BY <1>1, <1>9
<1>11. circular_less_than(0, k)
  BY <1>1, <1>10, SomeIsAhead DEF Typed
<1> QED BY <1>8, <1>9, <1>11

\* It keeps what it is sure of while others act.
LEMMA SureWaits ==
  ASSUME AccountsInv, NEW c \in Consumers, Sure(c), Ample(c)',
         my'[c] = my[c], cPc'[c] = cPc[c], W' = W, headIndex' = headIndex,
         dequeueOvercommit' = dequeueOvercommit, Gap' \in Nat, Gap' >= Gap
  PROVE  Sure(c)'
<1>1. Gap \in Nat
  BY GapFacts
<1>2. \A k \in 1 .. Gap : k \in 1 .. Gap'
  BY <1>1
<1>3. cPc[c] \in {"claim", "recheck"} => my[c].asked <= Gap'
  BY <1>1, ClaimFacts DEF Sure
<1>4. \A d \in Consumers \ {c} : cPc'[d] \notin Claiming
  BY DEF Ample
<1> QED BY <1>2, <1>3, <1>4 DEF Sure

\* It asks for what it sees, and gets it.
LEMMA SureActs ==
  ASSUME AccountsInv, NEW c \in Consumers, Sure(c), Consume(c), Ample(c)',
         cPc'[c] \in Claiming
  PROVE  Sure(c)'
<1>1. /\ cPc = [d \in Consumers |-> cPc[d]] /\ my = [d \in Consumers |-> my[d]]
      /\ W \in Nat \ {0} /\ shape.total \in Nat /\ headIndex \in 0 .. W - 1
      /\ dequeueOptimisticCount \in Int /\ dequeueOvercommit \in Int
      /\ Gap \in Nat /\ Gap <= shape.total /\ shape \in Shapes
  BY GapFacts DEF Typed
<1>2. \A d \in Consumers \ {c} : cPc'[d] \notin Claiming
  BY DEF Ample
<1>3. IsClaim(my[c])
  BY ClaimFacts DEF Sure
<1>4. CASE LoadOvercommit(c)
  <2>1. /\ cPc[c] = "overcommit" /\ cPc'[c] = "optimistic"
        /\ my'[c] = [my[c] EXCEPT !.over = dequeueOvercommit]
        /\ W' = W /\ headIndex' = headIndex /\ Gap' = Gap
        /\ dequeueOvercommit' = dequeueOvercommit
    BY <1>1, <1>4 DEF LoadOvercommit, CGoes, Sets, countVars, W, Gap
  <2>2. my'[c].over = dequeueOvercommit /\ my'[c].tail = my[c].tail
    BY <1>3, <2>1 DEF IsClaim
  <2> QED BY <1>2, <2>1, <2>2 DEF Sure, Claiming
<1>5. CASE SeemsEmpty(c)
  BY <1>5, SureSees DEF SeemsEmpty, CGoes
<1>6. CASE SeemsFilled(c)
  <2>1. PICK k : k = Min({Seem(c), my[c].want})
    OBVIOUS
  <2>2. /\ cPc[c] = "optimistic" /\ cPc'[c] = "claim"
        /\ my'[c] = [my[c] EXCEPT !.asked = k, !.tail = 0]
        /\ W' = W /\ headIndex' = headIndex /\ Gap' = Gap
        /\ dequeueOvercommit' = dequeueOvercommit
    BY <1>1, <1>6, <2>1 DEF SeemsFilled, CGoes, Sets, countVars, W, Gap
  <2>3. my'[c].over = my[c].over /\ my'[c].asked = k
    BY <1>3, <2>2 DEF IsClaim
  <2>4. k <= Gap
    <3>1. PICK a \in Int, b \in Int : a = Seem(c) /\ b = my[c].want /\ a <= Gap
      BY <1>1, <2>2, SureSees, ClaimFacts
    <3>2. k = IF a <= b THEN a ELSE b
      BY <2>1, <3>1, MinOfTwo
    <3> QED BY <1>1, <3>1, <3>2
  <2> QED BY <1>2, <2>2, <2>3, <2>4 DEF Sure, Claiming
<1>7. CASE Claim(c)
  <2>1. /\ cPc[c] = "claim" /\ cPc'[c] = "recheck"
        /\ my'[c] = [my[c] EXCEPT !.first = (dequeueOptimisticCount - my[c].over) % W,
                                  !.over = 0]
        /\ W' = W /\ headIndex' = headIndex /\ Gap' = Gap
    BY <1>1, <1>7 DEF Claim, CGoes, Sets, W, Gap
  <2>2. /\ my'[c].asked = my[c].asked
        /\ my'[c].first = (dequeueOptimisticCount - my[c].over) % W
    BY <1>3, <2>1 DEF IsClaim
  <2>3. my'[c].first = headIndex
    <3>1. \A d \in Consumers : Asked[d] = 0
      BY <2>1 DEF Sure, Asked, Claiming
    <3>2. my[c].over = dequeueOvercommit
      BY <2>1 DEF Sure
    <3> QED BY <2>2, <3>1, <3>2, NobodyAsks
  <2> QED BY <1>2, <2>1, <2>2, <2>3 DEF Sure, Claiming
<1>8. CASE Recheck(c)
  <2>1. cPc[c] = "recheck" /\ my[c].first = headIndex /\ my[c].asked <= Gap
    BY <1>8 DEF Recheck, CGoes, Sure
  <2>2. PICK k \in Nat : k = my[c].asked /\ k > 0 /\ k <= Gap
    BY <2>1, ClaimFacts
  <2>3. Actual(c) = k
    <3>1. PICK g : g = Gap
      OBVIOUS
    <3>2. g \in Nat /\ g <= shape.total /\ g > 0 /\ k <= g
      BY <1>1, <2>2, <3>1
    <3>3. circular_less_than(0, g)
      BY <1>1, <3>2, SomeIsAhead
    <3>4. Actual(c) = IF circular_less_than(0, g) THEN Min({g, k}) ELSE 0
      BY <2>1, <2>2, <3>1 DEF Actual, Gap
    <3>5. Min({g, k}) = IF g <= k THEN g ELSE k
      BY <2>2, <3>2, MinOfTwo
    <3> QED BY <2>2, <3>2, <3>3, <3>4, <3>5
  <2>4. cPc'[c] = "advance"
    BY <1>1, <1>8, <2>2, <2>3 DEF Recheck, CGoes
  <2> QED BY <1>2, <2>4 DEF Sure, Claiming
<1>9. CASE Advance(c)
  BY <1>1, <1>9 DEF Advance, CGoes, Claiming
<1>10. CASE \/ DequeueOne(c) \/ DequeueBulk(c) \/ GiveBack(c) \/ LoadHeader(c)
            \/ LoadLast(c) \/ Locate(c) \/ TakeOut(c) \/ SetEmpty(c) \/ Return(c)
  <2>1. cPc[c] \notin Claiming \ {"giveBack"}
    BY <1>10 DEF DequeueOne, DequeueBulk, Dequeue, GiveBack, LoadHeader, LoadLast,
                 Locate, TakeOut, SetEmpty, Return, CGoes, Claiming
  <2> QED BY <2>1 DEF Sure
<1> QED BY <1>4, <1>5, <1>6, <1>7, <1>8, <1>9, <1>10 DEF Consume

\* A consumer that begins with elements before it and no rival is sure of them.
LEMMA SureBegins ==
  ASSUME AccountsInv, NEW c \in Consumers, Consume(c), cPc[c] = "idle", Ample(c)',
         AccountsInv'
  PROVE  Sure(c)'
<1>1. PICK n : Dequeue(c, n)
  BY DEF Consume, DequeueOne, DequeueBulk, LoadOvercommit, SeemsEmpty, SeemsFilled,
         Claim, Recheck, GiveBack, Advance, LoadHeader, LoadLast, Locate, TakeOut,
         SetEmpty, Return, CGoes
<1>2. cPc = [d \in Consumers |-> cPc[d]] /\ my = [d \in Consumers |-> my[d]]
  BY GapFacts DEF Typed
<1>3. /\ cPc'[c] = "overcommit" /\ my'[c].tail = tailIndex
      /\ W' = W /\ tailIndex' = tailIndex /\ headIndex' = headIndex /\ Gap' = Gap
  BY <1>1, <1>2 DEF Dequeue, CGoes, Sets, NoClaim, countVars, W, Gap
<1>4. tailIndex # headIndex /\ \A d \in Consumers \ {c} : cPc'[d] \notin Claiming
  BY <1>3 DEF Ample
<1>5. Gap \in Nat /\ Gap > 0
  BY <1>4, GapFacts
<1>6. (my'[c].tail - headIndex) % W \in 1 .. Gap
  BY <1>3, <1>5 DEF Gap
<1> QED BY <1>3, <1>4, <1>6 DEF Sure, Claiming

\* The steps of others: consumers that are not about to claim change no counter,
\* and the producer only adds.
LEMMA OthersStep ==
  ASSUME AccountsInv, NEW c \in Consumers, Sure(c), Ample(c)', [Next]_vars,
         ~Consume(c)
  PROVE  Sure(c)'
<1>1. /\ cPc = [d \in Consumers |-> cPc[d]] /\ my = [d \in Consumers |-> my[d]]
      /\ Gap \in Nat
  BY GapFacts DEF Typed
<1>2. ASSUME UNCHANGED countVars, shape' = shape, my'[c] = my[c], cPc'[c] = cPc[c]
      PROVE  Sure(c)'
  <2>1. /\ W' = W /\ headIndex' = headIndex
        /\ dequeueOvercommit' = dequeueOvercommit /\ Gap' = Gap
    BY <1>2 DEF countVars, W, Gap
  <2> QED BY <1>1, <1>2, <2>1, SureWaits
<1>3. CASE Publish
  <2>1. /\ my' = my /\ cPc' = cPc /\ W' = W /\ headIndex' = headIndex
        /\ dequeueOvercommit' = dequeueOvercommit
    BY <1>3 DEF Publish, W, consumerVars
  <2> QED BY <1>3, <2>1, PublishWidens, SureWaits
<1>4. CASE Produce /\ ~Publish
  <2>1. UNCHANGED countVars /\ shape' = shape /\ UNCHANGED consumerVars
    BY <1>4 DEF Produce, EnqueueOne, EnqueueBulk, Begin, TakeAhead, LeaveCircle,
                HeadIsRead, GrowExplicit, GrowImplicit, Enter, TakeExplicit,
                TakeImplicit, EnqueueFails, Expose, Construct, ConstructThrows
  <2> QED BY <1>2, <2>1 DEF consumerVars
<1>5. ASSUME NEW d \in Consumers, Consume(d) PROVE Sure(c)'
  <2>1. d # c /\ cPc[d] \notin Claiming
    BY <1>5 DEF Sure
  <2>2. /\ UNCHANGED countVars /\ shape' = shape
    BY <1>5, <2>1 DEF Consume, DequeueOne, DequeueBulk, Dequeue, LoadOvercommit,
         SeemsEmpty, SeemsFilled, Claim, Recheck, GiveBack, Advance, LoadHeader,
         LoadLast, Locate, TakeOut, SetEmpty, Return, CGoes, Claiming
  <2>3. cPc'[c] = cPc[c]
    BY <1>1, <1>5, <2>1 DEF Consume, DequeueOne, DequeueBulk, Dequeue, LoadOvercommit,
         SeemsEmpty, SeemsFilled, Claim, Recheck, GiveBack, Advance, LoadHeader,
         LoadLast, Locate, TakeOut, SetEmpty, Return, CGoes
  <2>4. my'[c] = my[c]
    BY <1>1, <1>5, <2>1 DEF Consume, DequeueOne, DequeueBulk, Dequeue, LoadOvercommit,
         SeemsEmpty, SeemsFilled, Claim, Recheck, GiveBack, Advance, LoadHeader,
         LoadLast, Locate, TakeOut, SetEmpty, Return, Sets, NextBlock
  <2> QED BY <1>2, <2>2, <2>3, <2>4
<1>6. CASE Destroy
  BY <1>6 DEF Destroy, Sure, Claiming
<1>7. CASE UNCHANGED vars
  BY <1>2, <1>7 DEF vars, consumerVars
<1> QED BY <1>3, <1>4, <1>5, <1>6, <1>7 DEF Next, Done

LEMMA EveryStepWatches ==
  ASSUME Next, ~Done
  PROVE  Watch
<1>1. CASE Produce
  BY <1>1 DEF Produce, EnqueueOne, EnqueueBulk, Begin, TakeAhead, LeaveCircle,
              HeadIsRead, GrowExplicit, GrowImplicit, Enter, TakeExplicit,
              TakeImplicit, EnqueueFails, Expose, Construct, ConstructThrows, Publish
<1>2. ASSUME NEW c \in Consumers, Consume(c) PROVE Watch
  BY <1>2 DEF Consume, DequeueOne, DequeueBulk, Dequeue, LoadOvercommit, SeemsEmpty,
              SeemsFilled, Claim, Recheck, GiveBack, Advance, LoadHeader, LoadLast,
              Locate, TakeOut, SetEmpty, Return
<1>3. CASE Destroy
  BY <1>3 DEF Destroy
<1> QED BY <1>1, <1>2, <1>3 DEF Next

LEMMA SureKeeps ==
  ASSUME AccountsInv, AccountsInv', SureInv, [Next]_vars
  PROVE  SureInv'
<1>1. CASE UNCHANGED vars
  BY <1>1 DEF vars, countVars, consumerVars, SureInv, Sure, Gap, W
<1>2. CASE ~UNCHANGED vars
  <2>1. Next /\ Watch
    BY <1>2, EveryStepWatches DEF Done
  <2> SUFFICES ASSUME NEW c \in Consumers, ample'[c] PROVE Sure(c)'
    BY DEF SureInv
  <2>2. cPc'[c] \in Claiming /\ Ample(c)' /\ (cPc[c] = "idle" \/ ample[c])
    BY <2>1 DEF Watch
  <2>3. CASE ample[c] /\ Consume(c)
    BY <2>2, <2>3, SureActs DEF SureInv
  <2>4. CASE ample[c] /\ ~Consume(c)
    BY <2>2, <2>4, OthersStep DEF SureInv
  <2>5. CASE cPc[c] = "idle" /\ Consume(c)
    BY <2>2, <2>5, SureBegins
  <2>6. CASE cPc[c] = "idle" /\ ~Consume(c)
    <3>1. cPc = [d \in Consumers |-> cPc[d]]
      BY GapFacts DEF Typed
    <3>2. cPc'[c] \notin Claiming
      <4>1. CASE Produce
        <5>1. cPc' = cPc
          BY <4>1 DEF Produce, EnqueueOne, EnqueueBulk, Begin, TakeAhead, LeaveCircle,
                HeadIsRead, GrowExplicit, GrowImplicit, Enter, TakeExplicit,
                TakeImplicit, EnqueueFails, Expose, Construct, ConstructThrows,
                Publish, consumerVars
        <5> QED BY <5>1, <2>6 DEF Claiming
      <4>2. ASSUME NEW d \in Consumers, Consume(d) PROVE cPc'[c] \notin Claiming
        <5>1. d # c
          BY <2>6, <4>2
        <5>2. cPc'[c] = cPc[c]
          BY <3>1, <4>2, <5>1 DEF Consume, DequeueOne, DequeueBulk, Dequeue,
               LoadOvercommit, SeemsEmpty, SeemsFilled, Claim, Recheck, GiveBack,
               Advance, LoadHeader, LoadLast, Locate, TakeOut, SetEmpty, Return, CGoes
        <5> QED BY <2>6, <5>2 DEF Claiming
      <4>3. CASE Destroy
        BY <4>3 DEF Destroy, Claiming
      <4> QED BY <1>2, <2>1, <4>1, <4>2, <4>3 DEF Next, Done
    <3> QED BY <2>2, <3>2
  <2> QED BY <2>2, <2>3, <2>4, <2>5, <2>6
<1> QED BY <1>1, <1>2

\* A step that comes back empty is not one of a consumer that is sure.
LEMMA SureSucceeds ==
  ASSUME AccountsInv, SureInv, [Next]_vars, NEW c \in Consumers,
         cPc[c] \in {"optimistic", "giveBack"}, cPc'[c] = "idle"
  PROVE  ~ample[c]
<1> SUFFICES ASSUME ample[c] PROVE FALSE
  OBVIOUS
<1>1. Sure(c) /\ cPc[c] = "optimistic"
  BY DEF SureInv, Sure
<1>2. circular_less_than(0, Seem(c))
  BY <1>1, SureSees
<1>3. cPc = [d \in Consumers |-> cPc[d]]
  BY GapFacts DEF Typed
<1>4. ~Consume(c)
  BY <1>1, <1>2, <1>3 DEF Consume, DequeueOne, DequeueBulk, Dequeue, LoadOvercommit,
       SeemsEmpty, SeemsFilled, Claim, Recheck, GiveBack, Advance, LoadHeader,
       LoadLast, Locate, TakeOut, SetEmpty, Return, CGoes
<1>5. ASSUME NEW d \in Consumers, Consume(d), d # c PROVE cPc'[c] = cPc[c]
  BY <1>3, <1>5 DEF Consume, DequeueOne, DequeueBulk, Dequeue, LoadOvercommit,
       SeemsEmpty, SeemsFilled, Claim, Recheck, GiveBack, Advance, LoadHeader,
       LoadLast, Locate, TakeOut, SetEmpty, Return, CGoes
<1>6. CASE Produce
  BY <1>1, <1>6 DEF Produce, EnqueueOne, EnqueueBulk, Begin, TakeAhead, LeaveCircle,
       HeadIsRead, GrowExplicit, GrowImplicit, Enter, TakeExplicit, TakeImplicit,
       EnqueueFails, Expose, Construct, ConstructThrows, Publish, consumerVars
<1>7. CASE Destroy
  BY <1>1, <1>7 DEF Destroy
<1>8. CASE UNCHANGED vars
  BY <1>1, <1>8 DEF vars, consumerVars
<1> QED BY <1>1, <1>4, <1>5, <1>6, <1>7, <1>8 DEF Next, Done

\* Under the same condition, a dequeue that had elements before it and no rival
\* all along brings some back, whatever failed before.
THEOREM RefusalsAreJustified == Spec /\ []NobodyOversleeps => RefusalsHaveReason
<1>1. Init => SureInv
  BY DEF Init, SureInv
<1>2. AccountsInv /\ AccountsInv' /\ SureInv /\ [Next]_vars => SureInv'
  BY SureKeeps
<1>3. AccountsInv /\ SureInv /\ [Next]_vars
        => [\A c \in Consumers :
              cPc[c] \in {"optimistic", "giveBack"} /\ cPc'[c] = "idle"
                => ~ample[c]]_vars
  BY SureSucceeds
<1> QED BY <1>1, <1>2, <1>3, AccountsHold, PTL DEF Spec, RefusalsHaveReason

-----------------------------------------------------------------------------
(* What holds without the condition: the counters balance, however far they *)
(* run apart.                                                                *)

Lag == (dequeueOptimisticCount - dequeueOvercommit) - headIndex

\* What is known of a consumer at p with the locals r.
Counted(p, r) ==
  /\ p \in Claiming => IsClaim(r)
  /\ p \in {"overcommit", "optimistic"} => r.want \in Nat /\ r.tail \in Int
  /\ p \in {"optimistic", "claim"} => r.over \in Int
  /\ p \in {"claim", "recheck"} => r.asked \in Nat
  /\ p = "recheck" => r.first \in Int
  /\ p \in {"giveBack", "advance"} => r.count \in Nat /\ r.back \in Nat
  /\ p = "advance" => r.back = 0

Numbers ==
  /\ tailIndex \in Int /\ headIndex \in Int
  /\ dequeueOptimisticCount \in Int /\ dequeueOvercommit \in Int
  /\ pPc \notin {"idle", "gone"} => IsCall(call) /\ call.n \in Nat

BalanceInv ==
  /\ Typed /\ Numbers
  /\ \A c \in Consumers : Counted(cPc[c], my[c])
  /\ CountersBalance

\* Wrapping changes a counter by a multiple of W.
LEMMA PlusWraps ==
  ASSUME shape \in Shapes, NEW i \in Int, NEW j \in Int
  PROVE  Plus(i, j) \in Int /\ \E k \in Int : Plus(i, j) = (i + j) + W * k
<1>1. PICK w \in Nat \ {0}, a \in Int : w = W /\ a = i + j
  BY ShapeFacts
<1>2. PICK q \in Int : a = w * q + (a % w)
  BY Residue
<1>3. a % w \in 0 .. w - 1
  BY Residue
<1>4. PICK r \in Int : r = a % w /\ a = w * q + r
  BY <1>2, <1>3
<1>5. PICK k \in Int : k = 0 - q
  OBVIOUS
<1>6. r = a + w * k
  BY <1>4, <1>5
<1> QED BY <1>1, <1>4, <1>6 DEF Plus

\* What is asked for in all is a number.
LEMMA CountedAsk ==
  ASSUME Typed, \A c \in Consumers : Counted(cPc[c], my[c])
  PROVE  /\ Asked = [c \in Consumers |-> AskOf(cPc[c], my[c])]
         /\ Asked \in [Consumers -> Nat] /\ IsFiniteSet(Consumers)
         /\ Total(Consumers, Asked) \in Nat
<1>1. Asked = [c \in Consumers |-> AskOf(cPc[c], my[c])]
  BY DEF Asked, AskOf
<1>2. \A c \in Consumers : AskOf(cPc[c], my[c]) \in Nat
  BY DEF Counted, AskOf
<1>3. IsFiniteSet(Consumers)
  BY SubQueueConstants DEF SubQueueConstants
<1>4. Asked \in [Consumers -> Nat]
  BY <1>1, <1>2
<1>5. PICK f : f = Asked
  OBVIOUS
<1>6. f \in [Consumers -> Nat] /\ \A c \in Consumers : f[c] <= f[c]
  BY <1>4, <1>5
<1>7. Total(Consumers, f) \in Nat
  BY <1>3, <1>6, TotalAtMost
<1> QED BY <1>1, <1>3, <1>4, <1>5, <1>7

\* A consumer goes from its place to p, with locals r; the counters change by
\* what it then asks for more, or a multiple of W besides.
LEMMA BalanceStep ==
  ASSUME BalanceInv, NEW c \in Consumers, NEW p, NEW r, NEW k \in Int,
         cPc' = [cPc EXCEPT ![c] = p], my' = [my EXCEPT ![c] = r],
         shape' = shape, UNCHANGED producerVars, tailIndex' = tailIndex,
         headIndex' \in Int, dequeueOptimisticCount' \in Int,
         dequeueOvercommit' \in Int, Counted(p, r),
         Lag' = (Lag + (AskOf(p, r) - AskOf(cPc[c], my[c]))) + W * k
  PROVE  BalanceInv'
<1>1. /\ Typed /\ Numbers /\ \A d \in Consumers : Counted(cPc[d], my[d])
      /\ CountersBalance
  BY DEF BalanceInv
<1>2. /\ cPc'[c] = p /\ my'[c] = r
      /\ \A d \in Consumers : d # c => cPc'[d] = cPc[d] /\ my'[d] = my[d]
  BY <1>1 DEF Typed
<1>3. Typed' /\ Numbers'
  BY <1>1 DEF Typed, Numbers, producerVars
<1>4. \A d \in Consumers : Counted(cPc'[d], my'[d])
  BY <1>1, <1>2
<1>5. /\ Asked \in [Consumers -> Nat] /\ Asked = [d \in Consumers |-> AskOf(cPc[d], my[d])]
      /\ IsFiniteSet(Consumers)
  BY <1>1, CountedAsk
<1>6. Asked' = [d \in Consumers |-> AskOf(cPc'[d], my'[d])]
  BY DEF Asked, AskOf
<1>7. \A d \in Consumers : AskOf(cPc'[d], my'[d]) \in Nat
  BY <1>4 DEF Counted, AskOf
<1>8. PICK f, g, m, n, a, b :
        /\ f = Asked /\ g = Asked' /\ m = Total(Consumers, f) /\ n = Total(Consumers, g)
        /\ a = AskOf(cPc[c], my[c]) /\ b = AskOf(p, r)
  OBVIOUS
<1>9. /\ f \in [Consumers -> Nat] /\ g \in [Consumers -> Nat]
      /\ f[c] = a /\ g[c] = b /\ \A d \in Consumers \ {c} : g[d] = f[d]
  BY <1>2, <1>5, <1>6, <1>7, <1>8
<1>10. m \in Nat /\ n \in Nat /\ n = (m - a) + b /\ a \in Nat /\ b \in Nat
  BY <1>5, <1>8, <1>9, TotalChanges
<1>11. PICK w \in Nat \ {0}, d \in Int, e \in Int :
         w = W /\ W' = w /\ d = Lag - m /\ e = Lag' - n
  <2>1. W \in Nat \ {0} /\ W' = W
    BY <1>1, ShapeFacts DEF W, Typed
  <2>2. Lag \in Int /\ Lag' \in Int
    BY <1>1, <1>3 DEF Lag, Numbers
  <2>3. m \in Int /\ n \in Int
    BY <1>10
  <2>4. Lag - m \in Int /\ Lag' - n \in Int
    BY <2>2, <2>3
  <2> QED BY <2>1, <2>4
<1>12. d % w = 0
  BY <1>1, <1>8, <1>11 DEF CountersBalance, Lag
<1>13. e = w * k + d
  <2>1. Lag \in Int /\ Lag' \in Int /\ w * k \in Int
    BY <1>1, <1>3 DEF Lag, Numbers
  <2>2. Lag' = (Lag + (b - a)) + w * k
    BY <1>8, <1>11
  <2> QED BY <1>10, <1>11, <2>1, <2>2
<1>14. e % w = 0
  BY <1>12, <1>13, SameResidue
<1>15. CountersBalance'
  BY <1>8, <1>11, <1>14 DEF CountersBalance, Lag, Total
<1> QED BY <1>3, <1>4, <1>15 DEF BalanceInv

\* The same when no counter changes.
LEMMA BalanceWaits ==
  ASSUME BalanceInv, NEW c \in Consumers, NEW p, NEW r,
         cPc' = [cPc EXCEPT ![c] = p], my' = [my EXCEPT ![c] = r],
         shape' = shape, UNCHANGED producerVars, UNCHANGED countVars,
         Counted(p, r), AskOf(p, r) = AskOf(cPc[c], my[c])
  PROVE  BalanceInv'
<1>1. Numbers /\ AskOf(cPc[c], my[c]) \in Nat /\ shape \in Shapes
  BY DEF BalanceInv, Counted, AskOf, Typed
<1>2. /\ headIndex' \in Int /\ dequeueOptimisticCount' \in Int
      /\ dequeueOvercommit' \in Int /\ tailIndex' = tailIndex
  BY <1>1 DEF Numbers, countVars
<1>3. Lag \in Int /\ Lag' = Lag
  BY <1>1 DEF Lag, Numbers, countVars
<1>4. PICK w \in Nat : w = W
  BY <1>1, ShapeFacts
<1>5. w * 0 = 0
  OBVIOUS
<1>6. Lag' = (Lag + (AskOf(p, r) - AskOf(cPc[c], my[c]))) + W * 0
  BY <1>1, <1>3, <1>4, <1>5
<1>7. 0 \in Int
  OBVIOUS
<1> QED BY <1>2, <1>6, <1>7, BalanceStep

\* The elements there are of those asked for: never more than were asked for.
LEMMA ActualIsPart ==
  ASSUME BalanceInv, NEW c \in Consumers, cPc[c] = "recheck"
  PROVE  /\ Actual(c) \in Nat /\ my[c].asked \in Nat
         /\ my[c].asked - Actual(c) \in Nat
<1>1. PICK k \in Nat, x \in Int, t \in Int, w \in Nat \ {0} :
        k = my[c].asked /\ x = my[c].first /\ t = tailIndex /\ w = W
  <2>1. my[c].asked \in Nat /\ my[c].first \in Int /\ tailIndex \in Int
    BY DEF BalanceInv, Counted, Numbers
  <2>2. W \in Nat \ {0}
    BY ShapeFacts DEF BalanceInv, Typed
  <2> QED BY <2>1, <2>2
<1>2. PICK u, d \in Int : d = t - x /\ u = d % w
  OBVIOUS
<1>3. u \in Nat
  <2>1. d % w \in 0 .. w - 1
    BY <1>1, <1>2, Residue
  <2> QED BY <1>2, <2>1
<1>4. Actual(c) = IF circular_less_than(0, u) THEN Min({u, k}) ELSE 0
  BY <1>1, <1>2 DEF Actual
<1>5. Min({u, k}) = IF u <= k THEN u ELSE k
  BY <1>3, MinOfTwo
<1> QED BY <1>1, <1>3, <1>4, <1>5

\* What a consumer asks for is a number.
LEMMA SeemIsNumber ==
  ASSUME BalanceInv, NEW c \in Consumers, cPc[c] = "optimistic"
  PROVE  Min({Seem(c), my[c].want}) \in Nat
<1>1. PICK n \in Nat, d \in Int, w \in Nat \ {0} :
        /\ n = my[c].want /\ w = W
        /\ d = my[c].tail - (dequeueOptimisticCount - my[c].over)
  <2>1. /\ my[c].want \in Nat /\ my[c].tail \in Int /\ my[c].over \in Int
        /\ dequeueOptimisticCount \in Int
    BY DEF BalanceInv, Counted, Numbers
  <2>2. W \in Nat \ {0}
    BY ShapeFacts DEF BalanceInv, Typed
  <2> QED BY <2>1, <2>2
<1>2. PICK u : u = d % w
  OBVIOUS
<1>3. u \in Nat
  <2>1. d % w \in 0 .. w - 1
    BY <1>1, Residue
  <2> QED BY <1>2, <2>1
<1>4. Min({u, n}) = IF u <= n THEN u ELSE n
  BY <1>3, MinOfTwo
<1> QED BY <1>1, <1>2, <1>3, <1>4 DEF Seem

\* Asking and claiming move a counter and what is in the consumer's hands alike.
LEMMA ClaimBalances ==
  ASSUME BalanceInv, NEW c \in Consumers, Claim(c)
  PROVE  BalanceInv'
<1>1. Typed /\ Numbers /\ Counted(cPc[c], my[c])
  BY DEF BalanceInv
<1>2. PICK x, r : /\ x = (dequeueOptimisticCount - my[c].over) % W
                  /\ r = [my[c] EXCEPT !.first = x, !.over = 0]
  OBVIOUS
<1>3. /\ cPc[c] = "claim" /\ cPc' = [cPc EXCEPT ![c] = "recheck"]
      /\ my' = [my EXCEPT ![c] = r] /\ shape' = shape /\ tailIndex' = tailIndex
      /\ dequeueOptimisticCount' = Plus(dequeueOptimisticCount, my[c].asked)
      /\ headIndex' = headIndex /\ dequeueOvercommit' = dequeueOvercommit
      /\ UNCHANGED producerVars
  BY <1>2 DEF Claim, CGoes, Sets
<1>4. IsClaim(my[c]) /\ my[c].asked \in Nat /\ my[c].over \in Int
  BY <1>1, <1>3 DEF Counted, Claiming
<1>5. x \in Int
  <2>1. PICK d \in Int, w \in Nat \ {0} :
          d = dequeueOptimisticCount - my[c].over /\ w = W
    BY <1>1, <1>4, ShapeFacts DEF Typed, Numbers
  <2>2. d % w \in 0 .. w - 1
    BY Residue
  <2> QED BY <1>2, <2>1, <2>2
<1>6. IsClaim(r) /\ r.asked = my[c].asked /\ r.first = x
  BY <1>2, <1>4 DEF IsClaim
<1>7. Counted("recheck", r)
  BY <1>4, <1>5, <1>6 DEF Counted
<1>8. AskOf("recheck", r) = my[c].asked /\ AskOf(cPc[c], my[c]) = 0
  BY <1>3, <1>6 DEF AskOf
<1>9. PICK a \in Int, o \in Int, v \in Int, g \in Int :
        /\ a = my[c].asked /\ o = dequeueOptimisticCount
        /\ v = dequeueOvercommit /\ g = headIndex
  BY <1>1, <1>4 DEF Numbers
<1>10. PICK k \in Int, w \in Int, z \in Int :
         /\ z = w * k /\ w = W /\ Plus(o, a) \in Int /\ Plus(o, a) = (o + a) + z
  <2>1. PICK k \in Int : Plus(o, a) = (o + a) + W * k /\ Plus(o, a) \in Int
    BY <1>1, PlusWraps DEF Typed
  <2>2. PICK w \in Int : w = W
    BY <1>1, ShapeFacts DEF Typed
  <2>3. w * k \in Int
    OBVIOUS
  <2> QED BY <2>1, <2>2, <2>3
<1>11. Lag' = (Lag + (AskOf("recheck", r) - AskOf(cPc[c], my[c]))) + W * k
  BY <1>3, <1>8, <1>9, <1>10 DEF Lag
<1> QED BY <1>3, <1>7, <1>9, <1>10, <1>11, BalanceStep

LEMMA GiveBackBalances ==
  ASSUME BalanceInv, NEW c \in Consumers, GiveBack(c)
  PROVE  BalanceInv'
<1>1. Typed /\ Numbers /\ Counted(cPc[c], my[c])
  BY DEF BalanceInv
<1>2. PICK p, r, n, b :
        /\ n = my[c].count /\ b = my[c].back
        /\ p = (IF n > 0 THEN "advance" ELSE "idle")
        /\ r = (IF n > 0 THEN [my[c] EXCEPT !.back = 0] ELSE NoClaim)
  OBVIOUS
<1>3. /\ cPc[c] = "giveBack" /\ cPc' = [cPc EXCEPT ![c] = p]
      /\ my' = [my EXCEPT ![c] = r] /\ shape' = shape /\ tailIndex' = tailIndex
      /\ dequeueOvercommit' = Plus(dequeueOvercommit, b)
      /\ headIndex' = headIndex /\ dequeueOptimisticCount' = dequeueOptimisticCount
      /\ UNCHANGED producerVars
  BY <1>2 DEF GiveBack, CGoes, Sets
<1>4. IsClaim(my[c]) /\ n \in Nat /\ b \in Nat
  BY <1>1, <1>2, <1>3 DEF Counted, Claiming
<1>5. Counted(p, r) /\ AskOf(p, r) = n
  <2>1. CASE n > 0
    <3>1. p = "advance" /\ IsClaim(r) /\ r.count = n /\ r.back = 0
      BY <1>2, <1>4, <2>1 DEF IsClaim
    <3> QED BY <1>4, <3>1 DEF Counted, AskOf
  <2>2. CASE ~(n > 0)
    BY <1>2, <1>4, <2>2 DEF Counted, AskOf, Claiming
  <2> QED BY <2>1, <2>2
<1>6. AskOf(cPc[c], my[c]) = n + b
  BY <1>2, <1>3 DEF AskOf
<1>7. PICK o \in Int, v \in Int, g \in Int :
        /\ o = dequeueOptimisticCount /\ v = dequeueOvercommit /\ g = headIndex
  BY <1>1 DEF Numbers
<1>8. PICK k \in Int, w \in Int, z \in Int :
        /\ z = w * k /\ w = W /\ Plus(v, b) \in Int /\ Plus(v, b) = (v + b) - z
  <2>1. b \in Int
    BY <1>4
  <2>2. PICK q \in Int : Plus(v, b) = (v + b) + W * q /\ Plus(v, b) \in Int
    BY <1>1, <2>1, PlusWraps DEF Typed
  <2>3. PICK w \in Int : w = W
    BY <1>1, ShapeFacts DEF Typed
  <2>4. PICK k \in Int : k = 0 - q
    OBVIOUS
  <2>5. w * k \in Int /\ w * q = 0 - w * k
    BY <2>4
  <2>6. Plus(v, b) = (v + b) - w * k
    BY <1>4, <2>2, <2>3, <2>5
  <2> QED BY <2>2, <2>3, <2>5, <2>6
<1>9. Lag' = (Lag + (AskOf(p, r) - AskOf(cPc[c], my[c]))) + W * k
  BY <1>3, <1>4, <1>5, <1>6, <1>7, <1>8 DEF Lag
<1> QED BY <1>3, <1>5, <1>7, <1>8, <1>9, BalanceStep

LEMMA AdvanceBalances ==
  ASSUME BalanceInv, NEW c \in Consumers, Advance(c)
  PROVE  BalanceInv'
<1>1. Typed /\ Numbers /\ Counted(cPc[c], my[c])
  BY DEF BalanceInv
<1>2. PICK r, n : /\ n = my[c].count
                  /\ r = [my[c] EXCEPT !.first = headIndex, !.asked = 0, !.want = 0]
  OBVIOUS
<1>3. /\ cPc[c] = "advance" /\ cPc' = [cPc EXCEPT ![c] = "header"]
      /\ my' = [my EXCEPT ![c] = r] /\ shape' = shape /\ tailIndex' = tailIndex
      /\ headIndex' = Plus(headIndex, n)
      /\ dequeueOvercommit' = dequeueOvercommit
      /\ dequeueOptimisticCount' = dequeueOptimisticCount
      /\ UNCHANGED producerVars
  BY <1>2 DEF Advance, CGoes, Sets
<1>4. n \in Nat /\ AskOf(cPc[c], my[c]) = n
  BY <1>1, <1>2, <1>3 DEF Counted, AskOf
<1>5. Counted("header", r) /\ AskOf("header", r) = 0
  BY DEF Counted, AskOf, Claiming
<1>6. PICK o \in Int, v \in Int, g \in Int :
        /\ o = dequeueOptimisticCount /\ v = dequeueOvercommit /\ g = headIndex
  BY <1>1 DEF Numbers
<1>7. PICK k \in Int, w \in Int, z \in Int :
        /\ z = w * k /\ w = W /\ Plus(g, n) \in Int /\ Plus(g, n) = (g + n) - z
  <2>1. n \in Int
    BY <1>4
  <2>2. PICK q \in Int : Plus(g, n) = (g + n) + W * q /\ Plus(g, n) \in Int
    BY <1>1, <2>1, PlusWraps DEF Typed
  <2>3. PICK w \in Int : w = W
    BY <1>1, ShapeFacts DEF Typed
  <2>4. PICK k \in Int : k = 0 - q
    OBVIOUS
  <2>5. w * k \in Int /\ w * q = 0 - w * k
    BY <2>4
  <2>6. Plus(g, n) = (g + n) - w * k
    BY <1>4, <2>2, <2>3, <2>5
  <2> QED BY <2>2, <2>3, <2>5, <2>6
<1>8. Lag' = (Lag + (AskOf("header", r) - AskOf(cPc[c], my[c]))) + W * k
  BY <1>3, <1>4, <1>5, <1>6, <1>7 DEF Lag
<1> QED BY <1>3, <1>5, <1>6, <1>7, <1>8, BalanceStep

\* The steps of a consumer that change no counter.
LEMMA OtherStepsBalance ==
  ASSUME BalanceInv, NEW c \in Consumers, Consume(c),
         ~Claim(c), ~GiveBack(c), ~Advance(c)
  PROVE  BalanceInv'
<1>1. /\ Typed /\ Numbers /\ Counted(cPc[c], my[c])
      /\ my = [d \in Consumers |-> my[d]]
  BY DEF BalanceInv, Typed
<1>2. CASE DequeueOne(c) \/ DequeueBulk(c)
  <2>1. PICK n \in Nat : Dequeue(c, n)
    BY <1>2 DEF DequeueOne, DequeueBulk
  <2>2. PICK r : r = [NoClaim EXCEPT !.want = n, !.tail = tailIndex]
    OBVIOUS
  <2>3. Counted("overcommit", r) /\ AskOf("overcommit", r) = 0
    BY <1>1, <2>2 DEF Counted, AskOf, NoClaim, IsClaim, Numbers
  <2>4. AskOf(cPc[c], my[c]) = 0
    BY <2>1 DEF Dequeue, CGoes, AskOf
  <2> QED BY <2>1, <2>2, <2>3, <2>4, BalanceWaits DEF Dequeue, CGoes, Sets
<1>3. CASE LoadOvercommit(c)
  <2>1. PICK r : r = [my[c] EXCEPT !.over = dequeueOvercommit]
    OBVIOUS
  <2>2. cPc[c] = "overcommit"
    BY <1>3 DEF LoadOvercommit, CGoes
  <2>3. Counted("optimistic", r)
    BY <1>1, <2>1, <2>2 DEF Counted, IsClaim, Claiming, Numbers
  <2>4. AskOf("optimistic", r) = 0 /\ AskOf(cPc[c], my[c]) = 0
    BY <2>2 DEF AskOf
  <2> QED BY <1>3, <2>1, <2>3, <2>4, BalanceWaits DEF LoadOvercommit, CGoes, Sets
<1>4. CASE SeemsEmpty(c)
  <2>1. Counted("idle", NoClaim) /\ AskOf("idle", NoClaim) = 0
    BY DEF Counted, AskOf, Claiming
  <2>2. AskOf(cPc[c], my[c]) = 0
    BY <1>4 DEF SeemsEmpty, CGoes, AskOf
  <2> QED BY <1>4, <2>1, <2>2, BalanceWaits DEF SeemsEmpty, CGoes, Sets
<1>5. CASE SeemsFilled(c)
  <2>1. PICK k, r : /\ k = Min({Seem(c), my[c].want})
                    /\ r = [my[c] EXCEPT !.asked = k, !.tail = 0]
    OBVIOUS
  <2>2. cPc[c] = "optimistic" /\ my' = [my EXCEPT ![c] = r]
    BY <1>5, <2>1 DEF SeemsFilled, CGoes, Sets
  <2>3. k \in Nat
    BY <2>1, <2>2, SeemIsNumber
  <2>4. Counted("claim", r)
    BY <1>1, <2>1, <2>2, <2>3 DEF Counted, IsClaim, Claiming
  <2>5. AskOf("claim", r) = 0 /\ AskOf(cPc[c], my[c]) = 0
    BY <2>2 DEF AskOf
  <2> QED BY <1>5, <2>2, <2>4, <2>5, BalanceWaits DEF SeemsFilled, CGoes
<1>6. CASE Recheck(c)
  <2>1. PICK k, p, r :
          /\ k = Actual(c)
          /\ p = (IF k < my[c].asked THEN "giveBack" ELSE "advance")
          /\ r = [my[c] EXCEPT !.count = k, !.back = my[c].asked - k, !.first = 0]
    OBVIOUS
  <2>2. /\ cPc[c] = "recheck" /\ cPc' = [cPc EXCEPT ![c] = p]
        /\ my' = [my EXCEPT ![c] = r]
    BY <1>6, <2>1 DEF Recheck, CGoes, Sets
  <2>3. PICK a \in Nat, b \in Nat : a = my[c].asked /\ b = a - k /\ k \in Nat
    BY <2>1, <2>2, ActualIsPart
  <2>4. IsClaim(r) /\ r.count = k /\ r.back = b
    <3>1. IsClaim(my[c])
      BY <1>1, <2>2 DEF Counted, Claiming
    <3> QED BY <2>1, <2>3, <3>1 DEF IsClaim
  <2>5. Counted(p, r)
    <3>1. p \in {"giveBack", "advance"} /\ (p = "advance" => b = 0)
      BY <2>1, <2>3
    <3> QED BY <2>3, <2>4, <3>1 DEF Counted
  <2>6. AskOf(p, r) = a /\ AskOf(cPc[c], my[c]) = a
    BY <2>1, <2>2, <2>3, <2>4 DEF AskOf
  <2> QED BY <1>6, <2>2, <2>5, <2>6, BalanceWaits DEF Recheck
<1>7. CASE LoadHeader(c) \/ LoadLast(c) \/ Locate(c) \/ TakeOut(c) \/ SetEmpty(c)
             \/ Return(c)
  <2>1. cPc[c] \in {"header", "last", "locate", "take", "setEmpty", "clear"}
    BY <1>7 DEF LoadHeader, LoadLast, Locate, TakeOut, SetEmpty, Return, CGoes
  <2>2. shape' = shape /\ UNCHANGED countVars /\ UNCHANGED producerVars
    BY <1>7 DEF LoadHeader, LoadLast, Locate, TakeOut, SetEmpty, Return
  <2>3. PICK p : p \notin Claiming /\ cPc' = [cPc EXCEPT ![c] = p]
    BY <1>7 DEF LoadHeader, LoadLast, Locate, TakeOut, SetEmpty, Return, CGoes,
                MoreAfter, Claiming
  <2>4. PICK r : my' = [my EXCEPT ![c] = r]
    <3>1. CASE TakeOut(c) \/ UNCHANGED my
      <4>1. my' = [my EXCEPT ![c] = my[c]]
        BY <1>1, <3>1 DEF TakeOut
      <4> QED BY <4>1
    <3>2. CASE ~(TakeOut(c) \/ UNCHANGED my)
      BY <1>7, <3>2 DEF LoadHeader, LoadLast, Locate, SetEmpty, Return, Sets, NextBlock
    <3> QED BY <3>1, <3>2
  <2>5. Counted(p, r) /\ AskOf(p, r) = 0 /\ AskOf(cPc[c], my[c]) = 0
    BY <2>1, <2>3 DEF Counted, AskOf, Claiming
  <2> QED BY <2>2, <2>3, <2>4, <2>5, BalanceWaits
<1> QED BY <1>2, <1>3, <1>4, <1>5, <1>6, <1>7 DEF Consume

\* The producer and the destructor leave the consumers' counters alone.
LEMMA ProducerBalances ==
  ASSUME BalanceInv, shape' = shape, Numbers', headIndex' = headIndex,
         dequeueOptimisticCount' = dequeueOptimisticCount,
         dequeueOvercommit' = dequeueOvercommit, my' = my,
         \/ cPc' = cPc
         \/ /\ \A c \in Consumers : cPc[c] = "idle"
            /\ cPc' = [c \in Consumers |-> "gone"]
  PROVE  BalanceInv'
<1>1. Typed'
  BY DEF BalanceInv, Typed
<1>2. \A c \in Consumers : Counted(cPc'[c], my'[c])
  BY DEF BalanceInv, Counted, Claiming
<1>3. Asked' = Asked
  BY DEF Asked
<1>4. CountersBalance'
  BY <1>3 DEF BalanceInv, CountersBalance, Total, W
<1> QED BY <1>1, <1>2, <1>4 DEF BalanceInv

LEMMA BalanceKept ==
  ASSUME BalanceInv, [Next]_vars
  PROVE  BalanceInv'
<1>1. Typed /\ Numbers
  BY DEF BalanceInv
<1>2. ASSUME Onward PROVE BalanceInv'
  <2>1. Numbers'
    BY <1>1, <1>2 DEF Onward, Numbers, countVars, IsCall
  <2> QED BY <1>2, <2>1, ProducerBalances DEF Onward, countVars, consumerVars
<1>3. CASE EnqueueOne \/ EnqueueBulk
  <2>1. PICK n \in Nat : Begin(n)
    BY <1>3 DEF EnqueueOne, EnqueueBulk
  <2>2. PICK a \in BOOLEAN :
          call' = [n |-> n, alloc |-> a, left |-> BlocksNeeded(n), fresh |-> <<>>,
                   start |-> tailBlock, front |-> indexFront, used |-> slotsUsed]
    BY <2>1 DEF Begin
  <2>3. IsCall(call') /\ call'.n = n
    BY <2>2 DEF IsCall
  <2>4. Numbers'
    BY <1>1, <2>1, <2>3 DEF Begin, Numbers, countVars, IsCall
  <2> QED BY <2>1, <2>4, ProducerBalances DEF Begin, countVars, consumerVars
<1>4. CASE Publish
  <2>1. tailIndex' \in Int
    <3>1. pPc = "publish" /\ tailIndex' = Plus(tailIndex, call.n)
      BY <1>4 DEF Publish, PGoes
    <3>2. tailIndex \in Int /\ call.n \in Int /\ shape \in Shapes
      BY <1>1, <3>1 DEF Numbers, Typed
    <3> QED BY <3>1, <3>2, PlusWraps
  <2>2. Numbers'
    BY <1>1, <1>4, <2>1 DEF Publish, PGoes, Numbers
  <2> QED BY <1>4, <2>2, ProducerBalances DEF Publish, consumerVars
<1>5. CASE Destroy
  <2>1. Numbers'
    BY <1>1, <1>5 DEF Destroy, PGoes, Numbers, countVars
  <2> QED BY <1>5, <2>1, ProducerBalances DEF Destroy, countVars
<1>6. CASE UNCHANGED vars
  <2>1. Numbers'
    BY <1>1, <1>6 DEF vars, Numbers, countVars, producerVars, IsCall
  <2> QED BY <1>6, <2>1, ProducerBalances DEF vars, countVars, consumerVars
<1>7. CASE Produce /\ ~(EnqueueOne \/ EnqueueBulk \/ Publish)
  BY <1>2, <1>7, BlocksAreOnward DEF Produce
<1>8. ASSUME NEW c \in Consumers, Consume(c) PROVE BalanceInv'
  BY <1>8, OtherStepsBalance, ClaimBalances, GiveBackBalances, AdvanceBalances
<1> QED BY <1>3, <1>4, <1>5, <1>6, <1>7, <1>8 DEF Next, Done

\* Whoever sleeps for however long, everything the consumers ever asked for is
\* claimed, overcommitted or in somebody's hands.
THEOREM CountersAlwaysBalance == Spec => []CountersBalance
<1>1. Init => BalanceInv
  <2> SUFFICES ASSUME Init PROVE BalanceInv
    OBVIOUS
  <2>1. /\ shape \in Shapes /\ cPc = [c \in Consumers |-> "idle"]
        /\ my = [c \in Consumers |-> NoClaim] /\ pPc = "idle"
        /\ tailIndex = shape.start /\ headIndex = shape.start
        /\ dequeueOptimisticCount = shape.start /\ dequeueOvercommit = 0
    BY DEF Init
  <2>2. PICK s \in Nat, w \in Nat \ {0} : s = shape.start /\ w = W
    BY <2>1, ShapeFacts
  <2>3. Typed /\ Numbers
    BY <2>1, <2>2 DEF Typed, Numbers
  <2>4. \A c \in Consumers : Counted(cPc[c], my[c])
    BY <2>1 DEF Counted, Claiming
  <2>5. Total(Consumers, Asked) = 0
    <3>1. \A c \in Consumers : Asked[c] = 0
      BY <2>1 DEF Asked
    <3> QED BY <3>1, TotalOfNone
  <2>6. 0 % w = 0
    <3>1. 0 \in 0 .. w - 1
      OBVIOUS
    <3> QED BY <3>1, SmallResidue
  <2>7. ((s - 0) - s) - 0 = 0
    OBVIOUS
  <2>8. CountersBalance
    BY <2>1, <2>2, <2>5, <2>6, <2>7 DEF CountersBalance
  <2> QED BY <2>3, <2>4, <2>8 DEF BalanceInv
<1>2. BalanceInv /\ [Next]_vars => BalanceInv'
  BY BalanceKept
<1>3. BalanceInv => CountersBalance
  BY DEF BalanceInv
<1> QED BY <1>1, <1>2, <1>3, PTL DEF Spec
=============================================================================
