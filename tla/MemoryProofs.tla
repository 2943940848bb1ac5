----------------------------- MODULE MemoryProofs -----------------------------
(***************************************************************************)
(* Every unit of memory and every capability slot has one owner, for every *)
(* memory map, every number of slots and every width of the slot bitmap.   *)
(* From the boot loader's map on: the regions cut from it are aligned and  *)
(* apart; the kernel's pages and the untyped capabilities are taken from   *)
(* different regions; the slots the allocator hands out are empty; objects *)
(* made from the capabilities do not share memory.                         *)
(***************************************************************************)
EXTENDS Memory, FiniteSetTheorems, SequenceTheorems, WellFoundedInduction, TLAPS

-----------------------------------------------------------------------------
(* Numbers. *)

(* A nonempty set of natural numbers has a least one. *)
LEMMA LeastNumber ==
  ASSUME NEW T, T \subseteq Nat, T # {}
  PROVE  \E x \in T : \A y \in T : x <= y
<1> DEFINE R == OpToRel(<, Nat)
<1>1. \A x, y \in Nat : <<x, y>> \in R <=> x < y
  BY DEF OpToRel
<1>2. IsWellFoundedOn(R, Nat)
  BY NatLessThanWellFounded, Zenon
<1> HIDE DEF R
<1>3. PICK x \in T : \A y \in T : ~ (<<y, x>> \in R)
  BY <1>2, WFMin
<1>4. \A y \in T : ~(y < x) /\ x \in Nat /\ y \in Nat
  BY <1>1, <1>3
<1> QED BY <1>4

(* Min and Max of FiniteSetsExt where they exist. *)
LEMMA MinProperty ==
  ASSUME NEW T, T \subseteq Nat, T # {}
  PROVE  Min(T) \in T /\ \A y \in T : Min(T) <= y
BY LeastNumber DEF Min

(* Max of a bounded set of natural numbers is its largest element. *)
LEMMA MaxProperty ==
  ASSUME NEW T, T \subseteq Nat, T # {}, NEW bound \in Nat, \A y \in T : y <= bound
  PROVE  Max(T) \in T /\ \A y \in T : y <= Max(T)
<1> DEFINE D == {bound - y : y \in T}
<1>1. D \subseteq Nat
  OBVIOUS
<1>6. D # {}
  <2>1. PICK y \in T : TRUE
    OBVIOUS
  <2>2. bound - y \in D
    OBVIOUS
  <2> QED BY <2>2
<1>2. PICK d \in D : \A e \in D : d <= e
  BY <1>1, <1>6, LeastNumber
<1>3. PICK x \in T : d = bound - x
  OBVIOUS
<1>4. \A y \in T : x >= y
  <2> SUFFICES ASSUME NEW y \in T PROVE x >= y
    OBVIOUS
  <2>1. bound - y \in D
    OBVIOUS
  <2>2. d <= bound - y
    BY <1>2, <2>1
  <2> QED BY <1>3, <2>2
<1>5. Max(T) \in T /\ \A y \in T : Max(T) >= y
  BY <1>4 DEF Max
<1> QED BY <1>5

(* Finitely many natural numbers are bounded. *)
LEMMA FiniteBounded ==
  ASSUME NEW n \in Nat, NEW f \in [1..n -> Nat]
  PROVE  \E b \in Nat : \A i \in 1..n : f[i] <= b
<1> DEFINE Bounded(k) == \E b \in Nat : \A i \in 1..k : f[i] <= b
           Bad == {k \in Nat : k <= n /\ ~Bounded(k)}
<1> SUFFICES ASSUME ~Bounded(n) PROVE FALSE
  OBVIOUS
<1>1. n \in Bad
  OBVIOUS
<1>2. PICK k \in Bad : \A m \in Bad : k <= m
  BY <1>1, LeastNumber
<1>3. k \in Nat /\ k <= n /\ ~Bounded(k)
  BY <1>2
<1>4. k # 0
  <2>1. \A i \in 1..0 : f[i] <= 0
    <3>1. 1..0 = {}
      OBVIOUS
    <3> QED BY <3>1
  <2>2. Bounded(0)
    BY <2>1
  <2> QED BY <1>3, <2>2
<1>5. Bounded(k - 1)
  <2>1. k - 1 \in Nat /\ k - 1 <= n /\ k - 1 < k
    BY <1>3, <1>4
  <2> HIDE DEF Bounded
  <2> QED BY <1>2, <1>3, <2>1
<1>6. PICK b \in Nat : \A i \in 1..(k - 1) : f[i] <= b
  BY <1>5
<1>11. k \in Nat /\ k <= n
  BY <1>3
<1>7. k \in 1..n /\ \A i \in 1..k : i \in 1..n /\ (i \in 1..(k - 1) \/ i = k)
  BY ONLY <1>4, <1>11, n \in Nat
<1>8. \A i \in 1..n : f[i] \in Nat
  OBVIOUS
<1>9. PICK c \in Nat : b <= c /\ f[k] <= c
  <2>1. f[k] \in Nat
    BY <1>7, <1>8
  <2>2. \A x, y \in Nat : x + y \in Nat /\ x <= x + y /\ y <= x + y
    OBVIOUS
  <2> QED BY <2>1, <2>2
<1>10. ASSUME NEW i \in 1..k PROVE f[i] <= c
  <2>1. CASE i \in 1..(k - 1)
    <3>1. f[i] <= b /\ f[i] \in Nat
      BY <1>6, <1>7, <1>8, <2>1
    <3> QED BY <1>9, <3>1, SMTT(30)
  <2>2. CASE i = k
    BY <1>9, <2>2
  <2> QED BY <1>7, <2>1, <2>2
<1> QED BY <1>3, <1>10

(* Divisibility is transitive, and kept by scaling. *)
LEMMA DivTransitive ==
  ASSUME NEW a \in Nat \ {0}, NEW b \in Nat \ {0}, NEW x \in Nat, b % a = 0, x % b = 0
  PROVE  x % a = 0
<1>1. PICK q \in Nat : b = a * q
  BY b = a * (b \div a) + (b % a)
<1>2. PICK r \in Nat : x = b * r
  BY x = b * (x \div b) + (x % b)
<1>3. x = a * (q * r)
  BY <1>1, <1>2
<1> QED BY <1>3

(* Scaling both sides keeps a divisor. *)
LEMMA DivScaled ==
  ASSUME NEW a \in Nat \ {0}, NEW b \in Nat \ {0}, NEW x \in Nat, x % a = 0
  PROVE  (x * b) % (a * b) = 0
OBVIOUS

(* The sizes of regions are powers of two: the smaller divides the larger. *)
LEMMA PowersDivide ==
  /\ Powers \subseteq Nat \ {0} /\ 1 \in Powers
  /\ \A a, b \in Powers : a <= b => b % a = 0
<1>1. /\ 2^0 = 1 /\ 2^1 = 2 /\ 2^2 = 4 /\ 2^3 = 8 /\ 2^4 = 16 /\ 2^5 = 32 /\ 2^6 = 64
      /\ 2^7 = 128 /\ 2^8 = 256 /\ 2^9 = 512 /\ 2^10 = 1024 /\ 2^11 = 2048 /\ 2^12 = 4096
      /\ 2^13 = 8192 /\ 2^14 = 16384 /\ 2^15 = 32768 /\ 2^16 = 65536 /\ 2^17 = 131072
      /\ 2^18 = 262144 /\ 2^19 = 524288 /\ 2^20 = 1048576
  OBVIOUS
<1>2. 0..20 = {0, 1, 2, 3, 4, 5, 6, 7, 8, 9, 10, 11, 12, 13, 14, 15, 16, 17, 18, 19, 20}
  OBVIOUS
<1>3. Powers = {1, 2, 4, 8, 16, 32, 64, 128, 256, 512, 1024, 2048, 4096, 8192, 16384, 32768,
                65536, 131072, 262144, 524288, 1048576}
  BY <1>1, <1>2, SMT DEF Powers
<1> QED BY <1>3, SMT


-----------------------------------------------------------------------------
(* Sets of indices in ascending order. *)

Rank(S, x) == Cardinality({j \in S : j <= x})

(* One more index is at most one more element. *)
LEMMA RankStep ==
  ASSUME NEW n \in Nat, NEW S, S \subseteq 1..n, NEW x \in Nat \ {0}
  PROVE  /\ Rank(S, x) \in Nat /\ Rank(S, x - 1) \in Nat
         /\ Rank(S, x) = Rank(S, x - 1) + (IF x \in S THEN 1 ELSE 0)
<1>0. \A j \in S : j \in Nat
  OBVIOUS
<1>1. IsFiniteSet(S)
  <2>1. IsFiniteSet(1..n)
    BY FS_Interval
  <2> QED BY <2>1, FS_Subset
<1> DEFINE A == {j \in S : j <= x - 1}
           B == {j \in S : j <= x}
<1>2. IsFiniteSet(A) /\ IsFiniteSet(B)
  <2>1. A \subseteq S /\ B \subseteq S
    OBVIOUS
  <2> QED BY <1>1, <2>1, FS_Subset
<1>3. Cardinality(A) \in Nat /\ Cardinality(B) \in Nat
  BY <1>2, FS_CardinalityType
<1>4. CASE x \in S
  <2>3. \A j \in S : j <= x <=> (j <= x - 1 \/ j = x)
    BY <1>0
  <2>4. ~(x <= x - 1)
    OBVIOUS
  <2>1. B = A \cup {x} /\ x \notin A
    BY <1>4, <2>3, <2>4, Zenon
  <2>2. Cardinality(A \cup {x}) = Cardinality(A) + 1
    BY <1>2, <2>1, FS_AddElement
  <2> QED BY <1>3, <1>4, <2>1, <2>2 DEF Rank
<1>5. CASE x \notin S
  <2>1. \A j \in S : j <= x <=> j <= x - 1
    BY <1>0, <1>5
  <2>2. B = A
    BY <2>1
  <2> QED BY <1>3, <1>5, <2>2 DEF Rank
<1> QED BY <1>4, <1>5

(* Some element of S has rank k. *)
LEMMA RankExists ==
  ASSUME NEW n \in Nat, NEW S, S \subseteq 1..n, NEW k \in 1..Cardinality(S)
  PROVE  \E i \in S : Rank(S, i) = k
<1> DEFINE T == {x \in Nat : Rank(S, x) >= k}
<1>1. Rank(S, n) = Cardinality(S)
  <2>1. \A j \in S : j <= n
    OBVIOUS
  <2>2. {j \in S : j <= n} = S
    BY <2>1
  <2> QED BY <2>2 DEF Rank
<1>2. IsFiniteSet(S) /\ Cardinality(S) \in Nat
  <2>1. IsFiniteSet(1..n)
    BY FS_Interval
  <2> QED BY <2>1, FS_Subset, FS_CardinalityType
<1>3. n \in T
  BY <1>1, <1>2
<1>4. PICK x \in T : \A y \in T : x <= y
  BY <1>3, LeastNumber
<1>5. x # 0
  <2>1. SUFFICES ASSUME x = 0 PROVE FALSE
    OBVIOUS
  <2>4. \A j \in S : ~(j <= 0)
    OBVIOUS
  <2>2. {j \in S : j <= 0} = {}
    BY <2>4
  <2>3. Rank(S, 0) = 0
    BY <2>2, FS_EmptySet DEF Rank
  <2> QED BY <2>1, <2>3, <1>2, <1>4
<1>6. Rank(S, x - 1) < k /\ Rank(S, x - 1) \in Nat
  <2>1. x - 1 \in Nat /\ x - 1 \notin T
    BY <1>4, <1>5
  <2>2. Rank(S, x - 1) \in Nat
    BY <1>5, RankStep
  <2> QED BY <1>2, <2>1, <2>2
<1>7. x \in Nat \ {0} /\ Rank(S, x) >= k
  BY <1>4, <1>5
<1>8. /\ Rank(S, x) \in Nat
      /\ Rank(S, x) = Rank(S, x - 1) + (IF x \in S THEN 1 ELSE 0)
  BY <1>7, RankStep
<1> HIDE DEF T
<1>9. x \in S /\ Rank(S, x) = k
  BY <1>2, <1>6, <1>7, <1>8
<1> QED BY <1>9

(* InOrder lists the elements of S, each once. *)
LEMMA InOrderLists ==
  ASSUME NEW n \in Nat, NEW S, S \subseteq 1..n
  PROVE  /\ Cardinality(S) \in Nat
         /\ InOrder(S) \in [1..Cardinality(S) -> S]
         /\ \A k, l \in 1..Cardinality(S) : InOrder(S)[k] = InOrder(S)[l] => k = l
         /\ Len(InOrder(S)) = Cardinality(S)
<1>1. Cardinality(S) \in Nat
  <2>1. IsFiniteSet(1..n)
    BY FS_Interval
  <2> QED BY <2>1, FS_Subset, FS_CardinalityType
<1>2. \A k \in 1..Cardinality(S) : /\ InOrder(S)[k] \in S
                                   /\ Rank(S, InOrder(S)[k]) = k
  <2> SUFFICES ASSUME NEW k \in 1..Cardinality(S)
               PROVE  /\ InOrder(S)[k] \in S
                      /\ Rank(S, InOrder(S)[k]) = k
    OBVIOUS
  <2>1. \E i \in S : Rank(S, i) = k
    BY RankExists
  <2>2. InOrder(S)[k] = CHOOSE i \in S : Rank(S, i) = k
    BY DEF InOrder, Rank
  <2> QED BY <2>1, <2>2, Zenon
<1>3. InOrder(S) \in [1..Cardinality(S) -> S]
  <2>1. InOrder(S) = [k \in 1..Cardinality(S) |-> InOrder(S)[k]]
    BY DEF InOrder
  <2> QED BY <1>2, <2>1, Zenon
<1>4. Len(InOrder(S)) = Cardinality(S)
  BY <1>1 DEF InOrder
<1> QED BY <1>1, <1>2, <1>3, <1>4


-----------------------------------------------------------------------------
(* The memory map is cut into regions. *)

RegionRecords == [addr : Nat, size : Powers, in_kernel_use : BOOLEAN,
                  in_user_use : BOOLEAN, for_pages : BOOLEAN, watermark : Nat]

(* The numbers of a region. *)
LEMMA RegionNumbers ==
  ASSUME NEW r \in RegionRecords
  PROVE  r.addr \in Nat /\ r.size \in Powers /\ r.size \in Nat \ {0} /\ r.watermark \in Nat
<1>1. r.addr \in Nat /\ r.size \in Powers /\ r.watermark \in Nat
  BY DEF RegionRecords
<1> QED BY <1>1, PowersDivide

(* The block cut at start is aligned there and ends no later than end. *)
LEMMA BlockFits ==
  ASSUME NEW start \in Nat \ {0}, NEW end \in Nat, start < end
  PROVE  /\ largest_fitting_block(start, end) \in Powers
         /\ largest_fitting_block(start, end) \in Nat \ {0}
         /\ start % largest_fitting_block(start, end) = 0
         /\ start + largest_fitting_block(start, end) <= end
<1> DEFINE A == {b \in Powers : b <= start /\ start % b = 0}
           a == AlignedAt(start)
           F == {b \in Powers : b <= a /\ start + b <= end}
           f == largest_fitting_block(start, end)
<1>1. a \in Powers /\ start % a = 0
  <2>3. Powers \subseteq Nat /\ 1 \in Powers
    BY PowersDivide
  <2>4. start % 1 = 0 /\ 1 <= start
    OBVIOUS
  <2>1. A \subseteq Nat /\ 1 \in A /\ \A b \in A : b <= start
    BY <2>3, <2>4
  <2>2. Max(A) \in A
    BY <2>1, MaxProperty
  <2> QED BY <2>2 DEF AlignedAt
<1>2. f \in Powers /\ f <= a /\ start + f <= end
  <2>3. a \in Nat \ {0} /\ 1 \in Powers /\ Powers \subseteq Nat
    BY <1>1, PowersDivide
  <2>4. 1 \in F
    BY <2>3
  <2>5. \A b \in Powers : start + b <= end => b <= end
    BY <2>3
  <2>1. F \subseteq Nat /\ 1 \in F /\ \A b \in F : b <= end
    BY <2>3, <2>4, <2>5
  <2>2. Max(F) \in F
    BY <2>1, MaxProperty
  <2> QED BY <2>2 DEF largest_fitting_block
<1>3. a % f = 0 /\ a \in Nat \ {0} /\ f \in Nat \ {0}
  BY <1>1, <1>2, PowersDivide
<1> HIDE DEF a, f
<1>4. start % f = 0
  BY <1>1, <1>3, DivTransitive
<1> QED BY <1>2, <1>3, <1>4 DEF f

(* Regions in ascending order between lo and hi, naturally aligned and not *)
(* in use.                                                                 *)
Chain(q, lo, hi) ==
  /\ q \in Seq(RegionRecords)
  /\ \A i \in 1..Len(q) : /\ lo <= q[i].addr /\ q[i].addr + q[i].size <= hi
                          /\ q[i].addr % q[i].size = 0
                          /\ ~q[i].in_kernel_use /\ ~q[i].in_user_use
  /\ \A i, j \in 1..Len(q) : i < j => q[i].addr + q[i].size <= q[j].addr

(* A block cut in front of a chain makes a longer chain. *)
LEMMA ChainGrows ==
  ASSUME NEW lo \in Nat, NEW hi \in Nat, NEW b \in Powers, lo % b = 0, lo + b <= hi,
         NEW q, Chain(q, lo + b, hi)
  PROVE  Chain(<<Region(lo, b)>> \o q, lo, hi)
<1> DEFINE r == Region(lo, b)
           s == <<r>> \o q
<1>10. b \in Nat \ {0}
  BY PowersDivide
<1>1. r \in RegionRecords /\ r.addr = lo /\ r.size = b /\ ~r.in_kernel_use /\ ~r.in_user_use
  BY DEF Region, RegionRecords
<1>2. q \in Seq(RegionRecords) /\ Len(q) \in Nat
  BY DEF Chain
<1> HIDE DEF r
<1>3. s \in Seq(RegionRecords) /\ Len(s) = Len(q) + 1
  BY <1>1, <1>2
<1>4. s[1] = r /\ \A i \in 1..Len(q) : s[i + 1] = q[i]
  BY <1>1, <1>2
<1>5. \A i \in 1..Len(q) : q[i].addr \in Nat /\ q[i].size \in Nat
  <2>1. \A i \in 1..Len(q) : q[i] \in RegionRecords
    BY <1>2
  <2> QED BY <2>1, RegionNumbers
<1> HIDE DEF s
<1>6. \A i \in 1..Len(s) : i = 1 \/ \E k \in 1..Len(q) : i = k + 1
  <2> SUFFICES ASSUME NEW i \in 1..Len(s), i # 1 PROVE i - 1 \in 1..Len(q) /\ i = (i - 1) + 1
    OBVIOUS
  <2> QED BY <1>2, <1>3
<1>7. ASSUME NEW i \in 1..Len(s)
      PROVE  /\ lo <= s[i].addr /\ s[i].addr + s[i].size <= hi
             /\ s[i].addr % s[i].size = 0
             /\ ~s[i].in_kernel_use /\ ~s[i].in_user_use
  <2>1. CASE i = 1
    BY <1>1, <1>4, <2>1
  <2>2. ASSUME NEW k \in 1..Len(q), i = k + 1
        PROVE  /\ lo <= s[i].addr /\ s[i].addr + s[i].size <= hi
               /\ s[i].addr % s[i].size = 0
               /\ ~s[i].in_kernel_use /\ ~s[i].in_user_use
    <3>1. s[i] = q[k]
      BY <1>4, <2>2
    <3>2. /\ lo + b <= q[k].addr /\ q[k].addr + q[k].size <= hi
          /\ q[k].addr % q[k].size = 0
          /\ ~q[k].in_kernel_use /\ ~q[k].in_user_use
      BY DEF Chain
    <3>3. lo <= q[k].addr
      BY <1>5, <1>10, <3>2
    <3> QED BY <3>1, <3>2, <3>3
  <2> QED BY <1>6, <2>1, <2>2
<1>8. ASSUME NEW i \in 1..Len(s), NEW j \in 1..Len(s), i < j
      PROVE  s[i].addr + s[i].size <= s[j].addr
  <2>1. PICK l \in 1..Len(q) : j = l + 1
    BY <1>2, <1>3, <1>6, <1>8
  <2>2. CASE i = 1
    BY <1>1, <1>4, <2>1, <2>2 DEF Chain
  <2>3. CASE i # 1
    <3>1. PICK k \in 1..Len(q) : i = k + 1
      BY <1>6, <2>3
    <3>2. k < l /\ s[i] = q[k] /\ s[j] = q[l]
      BY <1>2, <1>4, <1>8, <2>1, <3>1
    <3> QED BY <3>2 DEF Chain
  <2> QED BY <2>2, <2>3
<1>9. Chain(s, lo, hi)
  BY <1>3, <1>7, <1>8 DEF Chain
<1> QED BY <1>9 DEF s, r

(* from[] of allocate_aligned_regions, for the starts from lo on. *)
CutFrom(g, lo, end) ==
  g = [start \in lo..end |->
         IF start >= end THEN <<>>
         ELSE <<Region(start, largest_fitting_block(start, end))>>
              \o g[start + largest_fitting_block(start, end)]]

(* What from[] returns for a start x. *)
LEMMA CutAt ==
  ASSUME NEW g, NEW lo \in Nat, NEW end \in Nat, CutFrom(g, lo, end), NEW x \in lo..end
  PROVE  g[x] = IF x >= end THEN <<>>
                ELSE <<Region(x, largest_fitting_block(x, end))>>
                     \o g[x + largest_fitting_block(x, end)]
BY Zenon DEF CutFrom


(* There is such a function: each start needs only larger ones. *)
LEMMA CutExtends ==
  ASSUME NEW lo \in Nat \ {0}, NEW end \in Nat, lo < end, NEW h, CutFrom(h, lo + 1, end)
  PROVE  \E g : CutFrom(g, lo, end)
<1> DEFINE B(x) == largest_fitting_block(x, end)
           E(x, f) == IF x >= end THEN <<>> ELSE <<Region(x, B(x))>> \o f[x + B(x)]
           g == [x \in lo..end |-> IF x = lo THEN E(lo, h) ELSE h[x]]
<1>1. \A x \in (lo + 1)..end : h[x] = E(x, h)
  BY CutAt
<1>2. \A x \in lo..end : x < end => B(x) \in Nat \ {0} /\ x + B(x) <= end
  BY BlockFits
<1> HIDE DEF B
<1>3. \A x \in lo..end : x < end => x + B(x) \in lo..end /\ x + B(x) # lo
  BY <1>2
<1>4. \A x \in lo..end : x < end => g[x + B(x)] = h[x + B(x)]
  BY <1>3, Zenon
<1>5. \A x \in lo..end : g[x] = E(x, h)
  <2> SUFFICES ASSUME NEW x \in lo..end PROVE g[x] = E(x, h)
    OBVIOUS
  <2>1. CASE x = lo
    BY <2>1, Zenon
  <2>2. CASE x # lo
    <3>1. x \in (lo + 1)..end
      BY <2>2
    <3>2. g[x] = h[x]
      BY <2>2, Zenon
    <3> QED BY <1>1, <3>1, <3>2
  <2> QED BY <2>1, <2>2
<1>6. \A x \in lo..end : E(x, h) = E(x, g)
  <2> SUFFICES ASSUME NEW x \in lo..end PROVE E(x, h) = E(x, g)
    OBVIOUS
  <2>1. CASE x >= end
    BY <2>1
  <2>2. CASE ~(x >= end)
    <3>2. x < end
      BY <2>2
    <3>1. g[x + B(x)] = h[x + B(x)]
      BY <1>4, <3>2, Zenon
    <3> HIDE DEF g
    <3> QED BY <2>2, <3>1
  <2> QED BY <2>1, <2>2
<1>7. g = [x \in lo..end |-> g[x]]
  BY Zenon
<1> HIDE DEF g, E
<1>8. \A x \in lo..end : g[x] = E(x, g)
  BY <1>5, <1>6
<1>9. g = [x \in lo..end |-> E(x, g)]
  BY <1>7, <1>8, Zenon
<1>10. CutFrom(g, lo, end)
  BY <1>9 DEF CutFrom, E, B
<1> QED BY <1>10

(* So there is one for every extent. *)
LEMMA CutExists ==
  ASSUME NEW lo \in Nat \ {0}, NEW end \in Nat, lo <= end
  PROVE  \E g : CutFrom(g, lo, end)
<1> DEFINE Bad == {k \in Nat : k <= end - lo /\ ~\E g : CutFrom(g, end - k, end)}
<1> SUFFICES ASSUME ~\E g : CutFrom(g, lo, end) PROVE FALSE
  OBVIOUS
<1>1. end - lo \in Bad
  <2>1. end - (end - lo) = lo /\ end - lo \in Nat
    OBVIOUS
  <2> QED BY <2>1
<1>2. PICK k \in Bad : \A m \in Bad : k <= m
  BY <1>1, LeastNumber
<1>3. k \in Nat /\ k <= end - lo /\ ~\E g : CutFrom(g, end - k, end)
  BY <1>2
<1>4. CASE k = 0
  <2> DEFINE g == [x \in end..end |-> <<>>]
  <2>1. CutFrom(g, end, end)
    <3>1. \A x \in end..end : x >= end
      OBVIOUS
    <3> QED BY <3>1, Zenon DEF CutFrom
  <2>2. end - 0 = end
    OBVIOUS
  <2> QED BY <1>3, <1>4, <2>1, <2>2
<1>5. CASE k # 0
  <2> DEFINE l == end - k
  <2>1. l \in Nat \ {0} /\ l < end /\ end - (k - 1) = l + 1 /\ k - 1 \in Nat /\ k - 1 < k
        /\ k - 1 <= end - lo
    BY <1>3, <1>5
  <2>2. k - 1 \notin Bad
    BY <1>2, <1>3, <2>1
  <2>3. PICK h : CutFrom(h, l + 1, end)
    BY <2>1, <2>2
  <2>4. \E g : CutFrom(g, l, end)
    BY <2>1, <2>3, CutExtends
  <2> QED BY <1>3, <2>4
<1> QED BY <1>4, <1>5

(* What it returns for each start is a chain from there to the end. *)
LEMMA CutIsChain ==
  ASSUME NEW g, NEW lo \in Nat \ {0}, NEW end \in Nat, lo <= end, CutFrom(g, lo, end)
  PROVE  Chain(g[lo], lo, end)
<1> DEFINE Bad == {k \in Nat : k <= end - lo /\ ~Chain(g[end - k], end - k, end)}
<1> SUFFICES ASSUME ~Chain(g[lo], lo, end) PROVE FALSE
  OBVIOUS
<1>1. end - lo \in Bad
  <2>1. end - (end - lo) = lo /\ end - lo \in Nat
    OBVIOUS
  <2> QED BY <2>1
<1>2. PICK k \in Bad : \A m \in Bad : k <= m
  BY <1>1, LeastNumber
<1>3. k \in Nat /\ k <= end - lo /\ ~Chain(g[end - k], end - k, end)
  BY <1>2
<1> DEFINE x == end - k
           b == largest_fitting_block(x, end)
<1>4. x \in lo..end /\ x \in Nat \ {0}
  BY <1>3
<1>5. CASE k = 0
  <2>1. x = end /\ x >= end
    BY <1>5
  <2>2. g[x] = <<>>
    BY <1>4, <2>1, CutAt
  <2>3. Chain(<<>>, x, end)
    BY DEF Chain
  <2> QED BY <1>3, <2>2, <2>3
<1>6. CASE k # 0
  <2>1. x < end
    BY <1>3, <1>6
  <2>2. b \in Powers /\ b \in Nat \ {0} /\ x % b = 0 /\ x + b <= end
    BY <1>4, <2>1, BlockFits
  <2>3. g[x] = <<Region(x, b)>> \o g[x + b]
    <3>1. ~(x >= end)
      BY <1>4, <2>1
    <3> QED BY <1>4, <3>1, CutAt
  <2> HIDE DEF b
  <2>4. k - b \in Nat /\ k - b < k /\ k - b <= end - lo /\ end - (k - b) = x + b
    BY <1>3, <2>2
  <2>5. k - b \notin Bad
    BY <1>2, <1>3, <2>4
  <2>6. Chain(g[x + b], x + b, end)
    BY <2>4, <2>5
  <2>7. Chain(<<Region(x, b)>> \o g[x + b], x, end)
    BY <1>4, <2>2, <2>6, ChainGrows
  <2> QED BY <1>3, <2>3, <2>7
<1> QED BY <1>5, <1>6

(* An extent of the map is cut into regions inside it. *)
LEMMA ExtentIsCut ==
  ASSUME NEW extent \in Entries
  PROVE  Chain(allocate_aligned_regions(extent), extent.start, extent.start + extent.len)
<1> DEFINE lo == extent.start
           end == extent.start + extent.len
           g == CHOOSE g : CutFrom(g, lo, end)
<1>1. lo \in Nat \ {0} /\ end \in Nat /\ lo <= end /\ lo \in lo..end
  BY DEF Entries
<1>2. allocate_aligned_regions(extent) = g[lo]
  BY DEF allocate_aligned_regions, CutFrom
<1>3. CutFrom(g, lo, end)
  BY <1>1, CutExists
<1> HIDE DEF g, lo, end
<1>4. Chain(g[lo], lo, end)
  BY <1>1, <1>3, CutIsChain
<1> QED BY <1>2, <1>4 DEF lo, end


(* Two extents or regions do not overlap. *)
Below(a, b) == a.start + a.len <= b.start

(* The usable entries of a memory map, apart from each other, are taken in *)
(* order, each once.                                                       *)
LEMMA ExtentsTaken ==
  ASSUME NEW m \in Maps
  PROVE  LET es == get_physical_extents(m, MaxExtents)
         IN  /\ Len(es) \in Nat
             /\ \A k \in 1..Len(es) : /\ es[k] \in Entries
                                      /\ \E i \in DOMAIN m : m[i].usable /\ es[k] = m[i]
             /\ \A k, l \in 1..Len(es) : k # l => Below(es[k], es[l]) \/ Below(es[l], es[k])
<1> DEFINE S == {i \in DOMAIN m : m[i].usable}
           c == Cardinality(S)
           u == InOrder(S)
           n == IF Len(u) < MaxExtents THEN Len(u) ELSE MaxExtents
           es == get_physical_extents(m, MaxExtents)
<1>1. /\ m \in Seq(Entries) /\ MaxExtents \in Nat
      /\ \A i, j \in DOMAIN m : m[i].usable /\ m[j].usable /\ i # j =>
           m[i].start + m[i].len <= m[j].start \/ m[j].start + m[j].len <= m[i].start
  BY MemoryAssumption
<1>2. DOMAIN m = 1..Len(m) /\ Len(m) \in Nat /\ \A i \in DOMAIN m : m[i] \in Entries
  BY <1>1
<1>3. S \subseteq 1..Len(m)
  BY <1>2
<1>4. /\ c \in Nat /\ Len(u) = c
      /\ u \in [1..c -> S]
      /\ \A k, l \in 1..c : u[k] = u[l] => k = l
  BY <1>2, <1>3, InOrderLists
<1>5. n \in Nat /\ n <= c
  BY <1>1, <1>4
<1>6. es = [k \in 1..n |-> m[u[k]]]
  BY DEF get_physical_extents
<1> HIDE DEF n, u, c, es
<1>7. Len(es) = n /\ \A k \in 1..n : es[k] = m[u[k]]
  BY <1>5, <1>6
<1>8. \A k \in 1..n : k \in 1..c /\ u[k] \in S
  BY <1>4, <1>5
<1> HIDE DEF S
<1>9. \A k \in 1..n : u[k] \in DOMAIN m /\ m[u[k]].usable
  BY <1>8 DEF S
<1>10. ASSUME NEW k \in 1..n, NEW l \in 1..n, k # l
       PROVE  Below(es[k], es[l]) \/ Below(es[l], es[k])
  <2>1. u[k] # u[l]
    BY <1>4, <1>8, <1>10
  <2> QED BY <1>1, <1>7, <1>9, <2>1 DEF Below
<1>11. \A k \in 1..n : /\ es[k] \in Entries
                       /\ \E i \in DOMAIN m : m[i].usable /\ es[k] = m[i]
  BY <1>2, <1>7, <1>9
<1> QED BY <1>5, <1>7, <1>10, <1>11 DEF es

(* Regions cut from the first k extents es, aligned, apart and not in use. *)
CutOf(q, es, k) ==
  /\ q \in Seq(RegionRecords)
  /\ \A i \in 1..Len(q) : /\ q[i].addr % q[i].size = 0
                          /\ ~q[i].in_kernel_use /\ ~q[i].in_user_use
                          /\ \E e \in 1..k : /\ es[e].start <= q[i].addr
                                             /\ q[i].addr + q[i].size <= es[e].start + es[e].len
  /\ \A i, j \in 1..Len(q) : i # j => \/ q[i].addr + q[i].size <= q[j].addr
                                      \/ q[j].addr + q[j].size <= q[i].addr

(* What is cut from a further extent is apart from it. *)
LEMMA CutGrows ==
  ASSUME NEW es, NEW k \in Nat \ {0}, NEW q, NEW r,
         \A e \in 1..k : es[e] \in Entries,
         \A e \in 1..(k - 1) : Below(es[e], es[k]) \/ Below(es[k], es[e]),
         CutOf(q, es, k - 1), Chain(r, es[k].start, es[k].start + es[k].len)
  PROVE  CutOf(q \o r, es, k)
<1> DEFINE s == q \o r
           n == Len(q)
<1>1. /\ q \in Seq(RegionRecords) /\ r \in Seq(RegionRecords)
      /\ n \in Nat /\ Len(r) \in Nat
  BY DEF CutOf, Chain
<1>2. s \in Seq(RegionRecords) /\ Len(s) = n + Len(r)
  BY <1>1
<1>3. \A i \in 1..Len(s) : \/ i \in 1..n /\ s[i] = q[i]
                           \/ i - n \in 1..Len(r) /\ s[i] = r[i - n]
  BY <1>1
<1>4. \A i \in 1..n : q[i].addr \in Nat /\ q[i].size \in Nat
  <2>1. \A i \in 1..n : q[i] \in RegionRecords
    BY <1>1
  <2> QED BY <2>1, RegionNumbers
<1>5. \A i \in 1..Len(r) : r[i].addr \in Nat /\ r[i].size \in Nat
  <2>1. \A i \in 1..Len(r) : r[i] \in RegionRecords
    BY <1>1
  <2> QED BY <2>1, RegionNumbers
<1>6. k \in 1..k /\ k - 1 \in Nat /\ \A e \in 1..(k - 1) : e \in 1..k
  OBVIOUS
<1>7. \A e \in 1..k : es[e].start \in Nat /\ es[e].len \in Nat
  BY DEF Entries
<1> HIDE DEF s, n
<1>8. ASSUME NEW i \in 1..Len(s)
      PROVE  /\ s[i].addr % s[i].size = 0
             /\ ~s[i].in_kernel_use /\ ~s[i].in_user_use
             /\ \E e \in 1..k : /\ es[e].start <= s[i].addr
                                /\ s[i].addr + s[i].size <= es[e].start + es[e].len
  <2>1. CASE i \in 1..n /\ s[i] = q[i]
    BY <1>6, <2>1 DEF CutOf, n
  <2>2. CASE i - n \in 1..Len(r) /\ s[i] = r[i - n]
    BY <1>6, <2>2 DEF Chain
  <2> QED BY <1>3, <2>1, <2>2
<1>9. ASSUME NEW i \in 1..n, NEW j \in 1..Len(r)
      PROVE  \/ q[i].addr + q[i].size <= r[j].addr
             \/ r[j].addr + r[j].size <= q[i].addr
  <2>1. PICK e \in 1..(k - 1) : /\ es[e].start <= q[i].addr
                                /\ q[i].addr + q[i].size <= es[e].start + es[e].len
    BY DEF CutOf, n
  <2>2. es[k].start <= r[j].addr /\ r[j].addr + r[j].size <= es[k].start + es[k].len
    BY DEF Chain
  <2>3. \/ es[e].start + es[e].len <= es[k].start
        \/ es[k].start + es[k].len <= es[e].start
    BY DEF Below
  <2>4. /\ es[e].start \in Nat /\ es[e].len \in Nat /\ es[k].start \in Nat /\ es[k].len \in Nat
        /\ q[i].addr \in Nat /\ q[i].size \in Nat /\ r[j].addr \in Nat /\ r[j].size \in Nat
    BY <1>4, <1>5, <1>6, <1>7
  <2>5. \A a, b, c, d, x, y, z, w \in Nat :
          /\ a <= x /\ x + y <= a + b /\ c <= z /\ z + w <= c + d
          /\ a + b <= c \/ c + d <= a
          => x + y <= z \/ z + w <= x
    OBVIOUS
  <2> QED BY <2>1, <2>2, <2>3, <2>4, <2>5
<1>10. ASSUME NEW i \in 1..Len(s), NEW j \in 1..Len(s), i # j
       PROVE  \/ s[i].addr + s[i].size <= s[j].addr
              \/ s[j].addr + s[j].size <= s[i].addr
  <2>1. CASE i \in 1..n /\ s[i] = q[i] /\ j \in 1..n /\ s[j] = q[j]
    BY <1>10, <2>1 DEF CutOf, n
  <2>2. CASE i \in 1..n /\ s[i] = q[i] /\ j - n \in 1..Len(r) /\ s[j] = r[j - n]
    BY <1>9, <2>2
  <2>3. CASE j \in 1..n /\ s[j] = q[j] /\ i - n \in 1..Len(r) /\ s[i] = r[i - n]
    BY <1>9, <2>3
  <2>4. CASE i - n \in 1..Len(r) /\ s[i] = r[i - n] /\ j - n \in 1..Len(r) /\ s[j] = r[j - n]
    <3>1. i - n < j - n \/ j - n < i - n
      BY <1>1, <1>2, <1>10
    <3> QED BY <2>4, <3>1 DEF Chain
  <2> QED BY <1>3, <2>1, <2>2, <2>3, <2>4
<1>11. CutOf(s, es, k)
  BY <1>2, <1>8, <1>10 DEF CutOf
<1> QED BY <1>11 DEF s


(* upto[] of init_page_mmap, for the first n extents. *)
CutUpto(g, es, n) ==
  g = [i \in 0..n |-> IF i = 0 THEN <<>> ELSE g[i - 1] \o allocate_aligned_regions(es[i])]

(* What upto[] returns for a number i. *)
LEMMA UptoAt ==
  ASSUME NEW g, NEW es, NEW n \in Nat, CutUpto(g, es, n), NEW i \in 0..n
  PROVE  g[i] = IF i = 0 THEN <<>> ELSE g[i - 1] \o allocate_aligned_regions(es[i])
BY Zenon DEF CutUpto

(* There is such a function: each number needs only the one before. *)
LEMMA UptoExtends ==
  ASSUME NEW es, NEW n \in Nat, NEW h, CutUpto(h, es, n)
  PROVE  \E g : CutUpto(g, es, n + 1)
<1> DEFINE E(i, f) == IF i = 0 THEN <<>> ELSE f[i - 1] \o allocate_aligned_regions(es[i])
           g == [i \in 0..(n + 1) |-> IF i = n + 1 THEN E(n + 1, h) ELSE h[i]]
<1>1. \A i \in 0..n : h[i] = E(i, h)
  BY UptoAt
<1>2. \A i \in 0..(n + 1) : i # 0 => i - 1 \in 0..(n + 1) /\ i - 1 # n + 1
  OBVIOUS
<1>3. \A i \in 0..(n + 1) : i # 0 => g[i - 1] = h[i - 1]
  BY <1>2, Zenon
<1>4. \A i \in 0..(n + 1) : g[i] = E(i, h)
  <2> SUFFICES ASSUME NEW i \in 0..(n + 1) PROVE g[i] = E(i, h)
    OBVIOUS
  <2>1. CASE i = n + 1
    BY <2>1, Zenon
  <2>2. CASE i # n + 1
    <3>1. i \in 0..n
      BY <2>2
    <3>2. g[i] = h[i]
      BY <2>2, Zenon
    <3> QED BY <1>1, <3>1, <3>2
  <2> QED BY <2>1, <2>2
<1>5. g = [i \in 0..(n + 1) |-> g[i]]
  BY Zenon
<1> HIDE DEF g
<1>6. \A i \in 0..(n + 1) : E(i, h) = E(i, g)
  BY <1>3
<1> HIDE DEF E
<1>7. \A i \in 0..(n + 1) : g[i] = E(i, g)
  BY <1>4, <1>6
<1>8. g = [i \in 0..(n + 1) |-> E(i, g)]
  BY <1>5, <1>7, Zenon
<1>9. CutUpto(g, es, n + 1)
  BY <1>8 DEF CutUpto, E
<1> QED BY <1>9

(* So there is one for every number of extents. *)
LEMMA UptoExists ==
  ASSUME NEW es, NEW n \in Nat
  PROVE  \E g : CutUpto(g, es, n)
<1> DEFINE Bad == {k \in Nat : ~\E g : CutUpto(g, es, k)}
<1> SUFFICES ASSUME ~\E g : CutUpto(g, es, n) PROVE FALSE
  OBVIOUS
<1>1. n \in Bad
  OBVIOUS
<1>2. PICK k \in Bad : \A m \in Bad : k <= m
  BY <1>1, LeastNumber
<1>3. k \in Nat /\ ~\E g : CutUpto(g, es, k)
  BY <1>2
<1>4. CASE k = 0
  <2> DEFINE g == [i \in 0..0 |-> <<>>]
  <2>1. CutUpto(g, es, 0)
    <3>1. \A i \in 0..0 : i = 0
      OBVIOUS
    <3> QED BY <3>1, Zenon DEF CutUpto
  <2> QED BY <1>3, <1>4, <2>1
<1>5. CASE k # 0
  <2>1. k - 1 \in Nat /\ k - 1 < k /\ k = (k - 1) + 1
    BY <1>3, <1>5
  <2>2. k - 1 \notin Bad
    BY <1>2, <1>3, <2>1
  <2>3. PICK h : CutUpto(h, es, k - 1)
    BY <2>1, <2>2
  <2>4. \E g : CutUpto(g, es, k)
    BY <2>1, <2>3, UptoExtends
  <2> QED BY <1>3, <2>4
<1> QED BY <1>4, <1>5

(* The regions of the whole map. *)
LEMMA UptoIsCut ==
  ASSUME NEW g, NEW es, NEW n \in Nat, CutUpto(g, es, n),
         \A e \in 1..n : es[e] \in Entries,
         \A e, f \in 1..n : e # f => Below(es[e], es[f]) \/ Below(es[f], es[e])
  PROVE  CutOf(g[n], es, n)
<1>6. \A i \in 0..n : g[i] = IF i = 0 THEN <<>> ELSE g[i - 1] \o allocate_aligned_regions(es[i])
  BY UptoAt
<1> DEFINE Bad == {k \in Nat : k <= n /\ ~CutOf(g[k], es, k)}
<1> SUFFICES ASSUME ~CutOf(g[n], es, n) PROVE FALSE
  OBVIOUS
<1>1. n \in Bad
  OBVIOUS
<1>2. PICK k \in Bad : \A m \in Bad : k <= m
  BY <1>1, LeastNumber
<1>3. k \in Nat /\ k <= n /\ ~CutOf(g[k], es, k)
  BY <1>2
<1>4. CASE k = 0
  <2>1. g[0] = <<>>
    BY UptoAt
  <2>2. CutOf(<<>>, es, 0)
    BY DEF CutOf
  <2> QED BY <1>3, <1>4, <2>1, <2>2
<1>5. CASE k # 0
  <2>1. k - 1 \in Nat /\ k - 1 < k /\ k - 1 <= n /\ k \in 0..n /\ k \in 1..n /\ k \in Nat \ {0}
    BY <1>3, <1>5
  <2>2. CutOf(g[k - 1], es, k - 1)
    BY <1>2, <1>3, <2>1
  <2>3. g[k] = g[k - 1] \o allocate_aligned_regions(es[k])
    BY <1>5, <1>6, <2>1
  <2>4. Chain(allocate_aligned_regions(es[k]), es[k].start, es[k].start + es[k].len)
    BY <2>1, ExtentIsCut
  <2>5. /\ \A e \in 1..k : es[e] \in Entries
        /\ \A e \in 1..(k - 1) : Below(es[e], es[k]) \/ Below(es[k], es[e])
    <3>1. \A e \in 1..k : e \in 1..n
      BY <1>3
    <3>2. \A e \in 1..(k - 1) : e \in 1..n /\ e # k
      BY <1>3
    <3> QED BY <2>1, <3>1, <3>2
  <2>6. CutOf(g[k - 1] \o allocate_aligned_regions(es[k]), es, k)
    BY <2>1, <2>2, <2>4, <2>5, CutGrows
  <2> QED BY <1>3, <2>3, <2>6
<1> QED BY <1>4, <1>5

(* The kernel's table of regions for a memory map m: naturally aligned,    *)
(* apart from each other, and each inside a usable entry.                  *)
WellCut(q, m) ==
  /\ q \in Seq(RegionRecords)
  /\ \A i \in 1..Len(q) : /\ q[i].addr % q[i].size = 0
                          /\ \E e \in DOMAIN m : /\ m[e].usable
                                                 /\ m[e].start <= q[i].addr
                                                 /\ q[i].addr + q[i].size <= m[e].start + m[e].len
  /\ \A i, j \in 1..Len(q) : i # j => \/ q[i].addr + q[i].size <= q[j].addr
                                      \/ q[j].addr + q[j].size <= q[i].addr

(* init_page_mmap cuts every memory map well, and no region is in use. *)
LEMMA MapIsCut ==
  ASSUME NEW m \in Maps
  PROVE  LET q == init_page_mmap(m, MaxExtents)
         IN  /\ WellCut(q, m)
             /\ \A i \in 1..Len(q) : ~q[i].in_kernel_use /\ ~q[i].in_user_use
<1> DEFINE es == get_physical_extents(m, MaxExtents)
           n == Len(es)
           g == CHOOSE g : CutUpto(g, es, n)
           q == init_page_mmap(m, MaxExtents)
<1>1. /\ n \in Nat
      /\ \A k \in 1..n : /\ es[k] \in Entries
                         /\ \E i \in DOMAIN m : m[i].usable /\ es[k] = m[i]
      /\ \A k, l \in 1..n : k # l => Below(es[k], es[l]) \/ Below(es[l], es[k])
  BY ExtentsTaken
<1>2. q = g[n]
  BY DEF init_page_mmap, CutUpto
<1> HIDE DEF es
<1>3. CutUpto(g, es, n)
  BY <1>1, UptoExists
<1> HIDE DEF g, n, q
<1>4. CutOf(q, es, n)
  BY <1>1, <1>2, <1>3, UptoIsCut
<1>5. ASSUME NEW i \in 1..Len(q)
      PROVE  \E e \in DOMAIN m : /\ m[e].usable /\ m[e].start <= q[i].addr
                                 /\ q[i].addr + q[i].size <= m[e].start + m[e].len
  <2>1. PICK k \in 1..n : /\ es[k].start <= q[i].addr
                          /\ q[i].addr + q[i].size <= es[k].start + es[k].len
    BY <1>4 DEF CutOf
  <2>2. PICK e \in DOMAIN m : m[e].usable /\ es[k] = m[e]
    BY <1>1
  <2> QED BY <2>1, <2>2
<1>6. WellCut(q, m) /\ \A i \in 1..Len(q) : ~q[i].in_kernel_use /\ ~q[i].in_user_use
  BY <1>4, <1>5 DEF CutOf, WellCut
<1> QED BY <1>6 DEF q


-----------------------------------------------------------------------------
(* The kernel takes pages, and hands the other regions out. *)

(* No region has two owners. *)
Exclusive(q) == \A i \in 1..Len(q) : q[i].in_user_use => ~q[i].in_kernel_use

SameFrames(q, r) ==
  /\ r \in Seq(RegionRecords) /\ Len(r) = Len(q)
  /\ \A i \in 1..Len(q) : r[i].addr = q[i].addr /\ r[i].size = q[i].size

(* Marking regions does not move them. *)
LEMMA FramesStayCut ==
  ASSUME NEW q, NEW r, NEW m, WellCut(q, m), SameFrames(q, r)
  PROVE  WellCut(r, m)
BY DEF WellCut, SameFrames

(* alloc_page takes a page of one region that is not handed out; that      *)
(* region is the kernel's from then on.                                    *)
TakesFrom(q, r, page, i) ==
  /\ SameFrames(q, r)
  /\ \A j \in 1..Len(q) : /\ r[j].in_user_use = q[j].in_user_use
                          /\ r[j].in_kernel_use = (q[j].in_kernel_use \/ j = i)
  /\ ~q[i].in_user_use
  /\ page \in Nat /\ q[i].addr <= page /\ page < q[i].addr + q[i].size

(* The last region is only taken when there is no other. *)
LEMMA PageTaken ==
  ASSUME NEW q \in Seq(RegionRecords), Exclusive(q), CanAllocPage(q)
  PROVE  \E i \in 1..Len(q) :
           /\ TakesFrom(q, alloc_page(q).regions, alloc_page(q).page, i)
           /\ ((\E j \in DOMAIN q : j < Len(q) /\ (HasRoom(q[j]) \/ IsFree(q[j])))
               /\ ~q[Len(q)].in_kernel_use) => i < Len(q)
<1>1. DOMAIN q = 1..Len(q) /\ Len(q) \in Nat /\ \A i \in 1..Len(q) : q[i] \in RegionRecords
  OBVIOUS
<1>2. CASE \E i \in DOMAIN q : HasRoom(q[i])
  <2> DEFINE T == {i \in DOMAIN q : HasRoom(q[i])}
             i == Min(T)
             r == [q EXCEPT ![i].watermark = @ + 1]
             page == q[i].addr + q[i].watermark
  <2>1. T \subseteq Nat /\ T # {}
    BY <1>1, <1>2
  <2>2. i \in T
    BY <2>1, MinProperty
  <2>3. alloc_page(q).regions = r /\ alloc_page(q).page = page
    BY <1>2 DEF alloc_page, First
  <2> HIDE DEF i
  <2>4. i \in 1..Len(q) /\ q[i].in_kernel_use /\ q[i].watermark + 1 < q[i].size
    BY <1>1, <2>2 DEF HasRoom
  <2>5. /\ q[i].addr \in Nat /\ q[i].size \in Nat /\ q[i].watermark \in Nat
        /\ ~q[i].in_user_use
    BY <1>1, <2>4, RegionNumbers DEF Exclusive
  <2>6. [q[i] EXCEPT !.watermark = @ + 1] \in RegionRecords
    <3>1. \A x \in RegionRecords, w \in Nat : [x EXCEPT !.watermark = w] \in RegionRecords
      BY DEF RegionRecords
    <3>2. q[i] \in RegionRecords /\ q[i].watermark + 1 \in Nat
      BY <1>1, <2>4, <2>5
    <3>3. [q[i] EXCEPT !.watermark = @ + 1] = [q[i] EXCEPT !.watermark = q[i].watermark + 1]
      OBVIOUS
    <3> QED BY <3>1, <3>2, <3>3
  <2>7. r = [q EXCEPT ![i] = [q[i] EXCEPT !.watermark = @ + 1]]
    BY <2>4
  <2>8. r \in Seq(RegionRecords) /\ Len(r) = Len(q)
    BY <1>1, <2>4, <2>6, <2>7
  <2>9. \A j \in 1..Len(q) : /\ r[j].addr = q[j].addr /\ r[j].size = q[j].size
                             /\ r[j].in_user_use = q[j].in_user_use
                             /\ r[j].in_kernel_use = q[j].in_kernel_use
    BY <1>1, <2>4, <2>7 DEF RegionRecords
  <2>10. page \in Nat /\ q[i].addr <= page /\ page < q[i].addr + q[i].size
    BY <2>4, <2>5
  <2> HIDE DEF r, page
  <2>11. \A j \in 1..Len(q) : r[j].in_kernel_use = (q[j].in_kernel_use \/ j = i)
    <3>1. \A j \in 1..Len(q) : q[j].in_kernel_use \in BOOLEAN
      BY <1>1 DEF RegionRecords
    <3> QED BY <2>4, <2>9, <3>1
  <2>12. TakesFrom(q, r, page, i)
    BY <2>5, <2>8, <2>9, <2>10, <2>11 DEF TakesFrom, SameFrames
  <2>13. ~q[Len(q)].in_kernel_use => i < Len(q)
    BY <1>1, <2>4
  <2> QED BY <2>3, <2>4, <2>12, <2>13
<1>3. CASE ~\E i \in DOMAIN q : HasRoom(q[i])
  <2> DEFINE T == {i \in DOMAIN q : IsFree(q[i])}
             i == Min(T)
             r == [q EXCEPT ![i].in_kernel_use = TRUE, ![i].for_pages = TRUE, ![i].watermark = 1]
             page == q[i].addr
             new == [q[i] EXCEPT !.in_kernel_use = TRUE, !.for_pages = TRUE, !.watermark = 1]
  <2>1. T \subseteq Nat /\ T # {}
    BY <1>1, <1>3 DEF CanAllocPage
  <2>2. i \in T /\ \A j \in T : i <= j
    BY <2>1, MinProperty
  <2>3. alloc_page(q).regions = r /\ alloc_page(q).page = page
    BY <1>3 DEF alloc_page, First
  <2> HIDE DEF i
  <2>4. i \in 1..Len(q) /\ ~q[i].in_user_use
    BY <1>1, <2>2 DEF IsFree
  <2>5. q[i].addr \in Nat /\ q[i].size \in Nat \ {0}
    BY <1>1, <2>4, RegionNumbers
  <2>6. /\ new \in RegionRecords /\ new.addr = q[i].addr /\ new.size = q[i].size
        /\ new.in_user_use = q[i].in_user_use /\ new.in_kernel_use = TRUE
    BY <1>1, <2>4 DEF RegionRecords
  <2>7. r = [q EXCEPT ![i] = new]
    BY <2>4
  <2> HIDE DEF new
  <2>8. r \in Seq(RegionRecords) /\ Len(r) = Len(q)
    <3>1. r \in [1..Len(q) -> RegionRecords]
      BY <1>1, <2>4, <2>6, <2>7
    <3> HIDE DEF r
    <3> QED BY <1>1, <3>1
  <2>9. \A j \in 1..Len(q) : r[j] = IF j = i THEN new ELSE q[j]
    BY <1>1, <2>4, <2>7
  <2>10. page \in Nat /\ q[i].addr <= page /\ page < q[i].addr + q[i].size
    BY <2>5
  <2> HIDE DEF r, page
  <2>11. \A j \in 1..Len(q) : /\ r[j].addr = q[j].addr /\ r[j].size = q[j].size
                              /\ r[j].in_user_use = q[j].in_user_use
                              /\ r[j].in_kernel_use = (q[j].in_kernel_use \/ j = i)
    <3>1. \A j \in 1..Len(q) : q[j].in_kernel_use \in BOOLEAN
      BY <1>1 DEF RegionRecords
    <3> QED BY <2>6, <2>9, <3>1
  <2>12. TakesFrom(q, r, page, i)
    BY <2>4, <2>8, <2>10, <2>11 DEF TakesFrom, SameFrames
  <2>13. ASSUME NEW j \in DOMAIN q, j < Len(q), HasRoom(q[j]) \/ IsFree(q[j])
         PROVE  i < Len(q)
    <3>1. j \in T
      BY <1>3, <2>13
    <3> QED BY <1>1, <2>2, <2>4, <2>13, <3>1
  <2> QED BY <2>3, <2>4, <2>12, <2>13
<1> QED BY <1>2, <1>3

(* create_init_untyped_caps makes a capability of each of the n regions    *)
(* f[1], ..., f[n], which are not the kernel's, and marks them.            *)
HandsOut(q, r, caps, f, n) ==
  /\ n \in Nat
  /\ f \in [1..n -> 1..Len(q)]
  /\ \A k, l \in 1..n : f[k] = f[l] => k = l
  /\ \A k \in 1..n : ~q[f[k]].in_kernel_use
  /\ caps = [k \in 1..n |-> [base |-> q[f[k]].addr, size |-> q[f[k]].size]]
  /\ SameFrames(q, r)
  /\ \A i \in 1..Len(q) : /\ r[i].in_kernel_use = q[i].in_kernel_use
                          /\ r[i].in_user_use = (q[i].in_user_use \/ \E k \in 1..n : f[k] = i)

(* Of the first room regions those the kernel does not use are handed out. *)
LEMMA RegionsHandedOut ==
  ASSUME NEW q \in Seq(RegionRecords), NEW room \in Nat, ~q[Len(q)].in_kernel_use
  PROVE  \E f, n : HandsOut(q, create_init_untyped_caps(q, room).regions,
                            create_init_untyped_caps(q, room).caps, f, n) /\ n <= room
<1> DEFINE S == {i \in DOMAIN q : i <= room /\ ~q[i].in_kernel_use}
           n == Cardinality(S)
           f == InOrder(S)
           U(i) == q[i].in_user_use \/ \E k \in DOMAIN f : f[k] = i
           r == [i \in DOMAIN q |-> [q[i] EXCEPT !.in_user_use = U(i)]]
           caps == [k \in DOMAIN f |-> [base |-> q[f[k]].addr, size |-> q[f[k]].size]]
<1>1. DOMAIN q = 1..Len(q) /\ Len(q) \in Nat /\ \A i \in 1..Len(q) : q[i] \in RegionRecords
  OBVIOUS
<1>2. S \subseteq 1..Len(q)
  BY <1>1
<1>3. /\ n \in Nat /\ f \in [1..n -> S] /\ Len(f) = n
      /\ \A k, l \in 1..n : f[k] = f[l] => k = l
  BY <1>1, <1>2, InOrderLists
<1>4. n <= room
  <2>1. S \subseteq 1..room
    BY <1>2
  <2>2. IsFiniteSet(1..room) /\ Cardinality(1..room) = room
    BY FS_Interval
  <2> QED BY <2>1, <2>2, FS_Subset
<1>5. UserRegions(q, room) = f
  BY DEF UserRegions
<1>6. /\ create_init_untyped_caps(q, room).regions = r
      /\ create_init_untyped_caps(q, room).caps = caps
  BY <1>5 DEF create_init_untyped_caps
<1>7. DOMAIN f = 1..n /\ \A k \in 1..n : f[k] \in S
  BY <1>3
<1>8. \A k \in 1..n : f[k] \in 1..Len(q) /\ ~q[f[k]].in_kernel_use
  BY <1>1, <1>7
<1> HIDE DEF n, f
<1>10. f \in [1..n -> 1..Len(q)]
  BY <1>2, <1>3
<1>11. \A k, l \in 1..n : f[k] = f[l] => k = l
  BY <1>3
<1>12. caps = [k \in 1..n |-> [base |-> q[f[k]].addr, size |-> q[f[k]].size]]
  BY <1>7, Zenon
<1> HIDE DEF U
<1>13. \A i \in 1..Len(q) : U(i) \in BOOLEAN
  BY <1>1 DEF U, RegionRecords
<1>14. \A i \in 1..Len(q) : r[i] = [q[i] EXCEPT !.in_user_use = U(i)]
  BY <1>1, Zenon
<1>15. \A i \in 1..Len(q) : /\ r[i] \in RegionRecords
                            /\ r[i].addr = q[i].addr /\ r[i].size = q[i].size
                            /\ r[i].in_kernel_use = q[i].in_kernel_use
                            /\ r[i].in_user_use = U(i)
  BY <1>1, <1>13, <1>14 DEF RegionRecords
<1>16. r = [i \in 1..Len(q) |-> r[i]]
  BY <1>1, Zenon
<1> HIDE DEF r
<1>17. r \in Seq(RegionRecords) /\ Len(r) = Len(q)
  BY <1>1, <1>15, <1>16
<1>18. \A i \in 1..Len(q) : U(i) = (q[i].in_user_use \/ \E k \in 1..n : f[k] = i)
  BY <1>7 DEF U
<1> HIDE DEF caps
<1>19. HandsOut(q, r, caps, f, n)
  BY <1>3, <1>8, <1>10, <1>11, <1>12, <1>15, <1>17, <1>18 DEF HandsOut, SameFrames
<1> QED BY <1>4, <1>6, <1>19


-----------------------------------------------------------------------------
(* The slots the allocator hands out. *)

(* The run handed out was clear and is marked. *)
LEMMA RangeIsFree ==
  ASSUME NEW bits, NEW n \in Nat, cptr_alloc_range(bits, n).cptr # NoCptr
  PROVE  LET got == cptr_alloc_range(bits, n)
         IN  /\ got.cptr \in Nat
             /\ RunAt(got.cptr, n) \cap bits = {}
             /\ got.bitmap = bits \cup RunAt(got.cptr, n)
<1> DEFINE fits == {at \in Bits : RunAt(at, n) \subseteq Bits \ bits}
           at == Min(fits)
<1>1. fits \subseteq Nat
  <2>1. BitmapWords * WordBits \in Nat
    BY CptrAssumption
  <2> QED BY <2>1 DEF Bits
<1>2. fits # {}
  BY DEF cptr_alloc_range
<1>3. at \in fits
  BY <1>1, <1>2, MinProperty
<1>4. /\ cptr_alloc_range(bits, n).cptr = at
      /\ cptr_alloc_range(bits, n).bitmap = bits \cup RunAt(at, n)
  BY <1>2 DEF cptr_alloc_range
<1> HIDE DEF at
<1>5. at \in Nat /\ RunAt(at, n) \cap bits = {}
  BY <1>1, <1>3
<1> QED BY <1>4, <1>5

(* No slot is given back, whether or not a run is found. *)
LEMMA RangeKeeps ==
  ASSUME NEW bits, NEW n
  PROVE  bits \subseteq cptr_alloc_range(bits, n).bitmap
BY DEF cptr_alloc_range

(* 1 << j is the same as 1 << (j - IntBits), so the first j that fits is   *)
(* smaller than IntBits, and then 1 << j holds bit j.                      *)
LEMMA ShiftWraps ==
  ASSUME NEW i \in Nat, NEW j \in 0..(WordBits - 1)
  PROVE  /\ j >= IntBits => j - IntBits \in 0..(WordBits - 1) /\ IntShift(i, j - IntBits) = IntShift(i, j)
         /\ j < IntBits => i * WordBits + j \in IntShift(i, j)
<1>1. IntBits \in Nat \ {0} /\ WordBits \in Nat \ {0} /\ WordBits = 2 * IntBits
  BY CptrAssumption
<1>2. ASSUME j >= IntBits
      PROVE  j - IntBits \in 0..(WordBits - 1) /\ IntShift(i, j - IntBits) = IntShift(i, j)
  <2>1. j - IntBits \in Nat /\ j - IntBits < IntBits /\ (j - IntBits) % IntBits = j - IntBits
    BY <1>1, <1>2
  <2>2. j % IntBits = j - IntBits
    <3>1. j = IntBits * 1 + (j - IntBits)
      BY <1>1
    <3> QED BY <1>1, <2>1, <3>1
  <2>3. j - IntBits \in 0..(WordBits - 1)
    BY <1>1, <2>1
  <2> QED BY <2>1, <2>2, <2>3 DEF IntShift
<1>3. ASSUME j < IntBits
      PROVE  i * WordBits + j \in IntShift(i, j)
  <2>1. j % IntBits = j
    BY <1>1, <1>3
  <2>2. j \in (IF j = IntBits - 1 THEN j..(WordBits - 1) ELSE {j})
    OBVIOUS
  <2> QED BY <2>1, <2>2 DEF IntShift
<1> QED BY <1>2, <1>3

(* The slot handed out was clear and is marked. *)
LEMMA SlotIsFree ==
  ASSUME NEW bits, cptr_alloc(bits).cptr # NoCptr
  PROVE  LET got == cptr_alloc(bits)
         IN  /\ got.cptr \in Nat
             /\ got.cptr \notin bits
             /\ got.cptr \in got.bitmap
             /\ bits \subseteq got.bitmap
<1> DEFINE fits == {p \in Words \X (0..(WordBits - 1)) : IntShift(p[1], p[2]) \cap bits = {}}
           A == {p[1] * WordBits + p[2] : p \in fits}
           at == Min(A)
<1>1. IntBits \in Nat \ {0} /\ WordBits \in Nat \ {0} /\ BitmapWords \in Nat \ {0}
  BY CptrAssumption
<1>2. \A p \in fits : p[1] \in Nat /\ p[2] \in 0..(WordBits - 1) /\ p[2] \in Nat
  BY <1>1 DEF Words
<1>3. fits # {}
  BY DEF cptr_alloc
<1>4. A \subseteq Nat /\ A # {}
  <2>1. \A i \in Nat, j \in Nat : i * WordBits + j \in Nat
    BY <1>1
  <2>2. A \subseteq Nat
    <3>1. \A p \in fits : p[1] * WordBits + p[2] \in Nat
      BY <1>2, <2>1
    <3> HIDE DEF fits
    <3> QED BY <3>1
  <2>3. PICK p \in fits : TRUE
    BY <1>3
  <2>4. p[1] * WordBits + p[2] \in A
    OBVIOUS
  <2> QED BY <2>2, <2>4
<1>5. at \in A /\ \A x \in A : at <= x
  BY <1>4, MinProperty
<1>6. /\ cptr_alloc(bits).cptr = at
      /\ cptr_alloc(bits).bitmap = bits \cup IntShift(at \div WordBits, at % WordBits)
  BY <1>3 DEF cptr_alloc
<1> HIDE DEF at
<1>7. PICK p \in fits : at = p[1] * WordBits + p[2]
  BY <1>5
<1> DEFINE i == p[1]
           j == p[2]
<1>8. i \in Words /\ i \in Nat /\ j \in 0..(WordBits - 1) /\ IntShift(i, j) \cap bits = {}
  BY <1>2, <1>7
<1>9. at = i * WordBits + j
  BY <1>7
<1> HIDE DEF i, j
<1>10. at \in Nat /\ at \div WordBits = i /\ at % WordBits = j
  BY <1>1, <1>8, <1>9
<1>11. j < IntBits
  <2> SUFFICES ASSUME j >= IntBits PROVE FALSE
    BY <1>1, <1>8
  <2>1. j - IntBits \in 0..(WordBits - 1) /\ IntShift(i, j - IntBits) \cap bits = {}
    BY <1>8, ShiftWraps
  <2>2. <<i, j - IntBits>> \in fits
    BY <1>8, <2>1
  <2>3. i * WordBits + (j - IntBits) \in A
    BY <2>2
  <2>4. at <= i * WordBits + (j - IntBits)
    BY <1>5, <2>3
  <2>5. i * WordBits \in Nat
    BY <1>1, <1>8
  <2> QED BY <1>1, <1>8, <1>9, <2>4, <2>5
<1>12. at \in IntShift(i, j)
  BY <1>8, <1>9, <1>11, ShiftWraps
<1> QED BY <1>6, <1>8, <1>10, <1>12

(* No slot is given back, whether or not one is found. *)
LEMMA SlotKeeps ==
  ASSUME NEW bits
  PROVE  bits \subseteq cptr_alloc(bits).bitmap
<1>1. CASE cptr_alloc(bits).cptr # NoCptr
  BY <1>1, SlotIsFree
<1>2. CASE cptr_alloc(bits).cptr = NoCptr
  BY <1>2, Zenon DEF cptr_alloc
<1> QED BY <1>1, <1>2


-----------------------------------------------------------------------------
(* Capabilities of the first program at boot. *)

Apart(a, b) == a.base + a.size <= b.base \/ b.base + b.size <= a.base

IsUntypedCap(c) ==
  /\ c.base \in Nat /\ c.size \in Nat \ {0} /\ c.device \in BOOLEAN
  /\ \E b : c = [type |-> "UNTYPED", base |-> c.base, size |-> c.size, badge |-> b,
                 device |-> c.device]

(* A device's capability lies above the map m, any other is a region of q  *)
(* that is marked as handed out.                                           *)
Owned(c, q, m) ==
  IF c.device THEN \A e \in DOMAIN m : (m[e].start + m[e].len) * PageSize <= c.base
  ELSE \E i \in 1..Len(q) : /\ q[i].in_user_use
                            /\ c.base = q[i].addr * PageSize
                            /\ c.size = q[i].size * PageSize

(* The n slots of cs from FirstUntyped on hold such capabilities, apart    *)
(* from each other.                                                        *)
Granted(cs, q, m, n) ==
  /\ n \in Nat /\ FirstUntyped + n <= CNodeSlots
  /\ \A s \in FirstUntyped..(FirstUntyped + n - 1) : IsUntypedCap(cs[s]) /\ Owned(cs[s], q, m)
  /\ \A s, t \in FirstUntyped..(FirstUntyped + n - 1) : s # t => Apart(cs[s], cs[t])

(* The slots hold n untouched capabilities and nothing else. *)
Handed(n) ==
  /\ Granted(slots, regions, map, n)
  /\ \A s \in FirstUntyped..(FirstUntyped + n - 1) : slots[s].badge = 0
  /\ \A s \in DOMAIN slots : s >= FirstUntyped + n => slots[s] = Empty

PagesTaken(ps, q) ==
  \A p \in ps : /\ p \in Nat
                /\ \E i \in 1..Len(q) : /\ q[i].in_kernel_use
                                        /\ q[i].addr <= p /\ p < q[i].addr + q[i].size

(* The inductive invariant: regions are cut well and have one owner; before *)
(* the boot the slots from FirstUntyped on are empty and the last region is *)
(* free; afterwards the slots hold what was granted; in the first program   *)
(* every slot that is not empty is marked in the bitmap.                    *)
MInv ==
  /\ map \in Maps /\ devices \in DeviceSizes
  /\ phase \in {"start", "boot", "booted", "user"}
  /\ DOMAIN slots = 0..(CNodeSlots - 1)
  /\ \A s \in DOMAIN slots : s < FirstUntyped => slots[s] = [type |-> "BOOT"]
  /\ WellCut(regions, map) /\ Exclusive(regions)
  /\ PagesTaken(pages, regions)
  /\ phase = "start" => pages = {}
  /\ phase \in {"start", "boot"} =>
       /\ \A s \in DOMAIN slots : s >= FirstUntyped => slots[s] = Empty
       /\ \A i \in 1..Len(regions) : ~regions[i].in_user_use
       /\ regions # <<>> => ~regions[Len(regions)].in_kernel_use
  /\ phase = "booted" => \E n : Handed(n)
  /\ phase = "user" => /\ Granted(slots, regions, map, Len(info))
                       /\ \A s \in DOMAIN slots : slots[s] # Empty => s \in bitmap
  /\ clobbered = {}

(* Scaling by the page keeps the order. *)
LEMMA Scaled ==
  ASSUME NEW a \in Nat, NEW b \in Nat, a <= b
  PROVE  a * PageSize \in Nat /\ b * PageSize \in Nat /\ a * PageSize <= b * PageSize
<1>1. PageSize \in Nat \ {0}
  BY UntypedAssumption
<1>2. PICK d \in Nat : b = a + d
  <2>1. b - a \in Nat /\ b = a + (b - a)
    OBVIOUS
  <2> QED BY <2>1
<1>3. b * PageSize = a * PageSize + d * PageSize /\ d * PageSize \in Nat /\ a * PageSize \in Nat
  BY <1>1, <1>2
<1> QED BY <1>3

(* A badge is not part of what a capability names, and the slots without   *)
(* one do not get one.                                                     *)
LEMMA BadgeApart ==
  /\ \A x : [Empty EXCEPT !.badge = x] = Empty
  /\ \A x : [[type |-> "BOOT"] EXCEPT !.badge = x] = [type |-> "BOOT"]
  /\ \A c, d, x : IsUntypedCap(c) /\ d = [c EXCEPT !.badge = x] =>
       /\ IsUntypedCap(d)
       /\ d.base = c.base /\ d.size = c.size /\ d.device = c.device
<1>1. \A x : [Empty EXCEPT !.badge = x] = Empty
  BY DEF Empty
<1>2. \A x : [[type |-> "BOOT"] EXCEPT !.badge = x] = [type |-> "BOOT"]
  OBVIOUS
<1>3. ASSUME NEW c, NEW d, NEW x, IsUntypedCap(c), d = [c EXCEPT !.badge = x]
      PROVE  /\ IsUntypedCap(d)
             /\ d.base = c.base /\ d.size = c.size /\ d.device = c.device
  <2>1. PICK b : c = [type |-> "UNTYPED", base |-> c.base, size |-> c.size, badge |-> b,
                      device |-> c.device]
    BY <1>3 DEF IsUntypedCap
  <2>2. d = [type |-> "UNTYPED", base |-> c.base, size |-> c.size, badge |-> x,
             device |-> c.device]
    BY <1>3, <2>1
  <2>3. d.base = c.base /\ d.size = c.size /\ d.device = c.device
    BY <2>2
  <2>4. IsUntypedCap(d)
    BY <1>3, <2>2, <2>3 DEF IsUntypedCap
  <2> QED BY <2>3, <2>4
<1> QED BY <1>1, <1>2, <1>3

(* What is granted depends only on what the slots name and on the marks of *)
(* the regions.                                                            *)
LEMMA GrantsStay ==
  ASSUME NEW cs, NEW ds, NEW q, NEW r, NEW m, NEW n, Granted(cs, q, m, n),
         \A s \in FirstUntyped..(FirstUntyped + n - 1) :
           /\ IsUntypedCap(ds[s])
           /\ ds[s].base = cs[s].base /\ ds[s].size = cs[s].size /\ ds[s].device = cs[s].device,
         Len(r) = Len(q),
         \A i \in 1..Len(q) : /\ r[i].addr = q[i].addr /\ r[i].size = q[i].size
                              /\ r[i].in_user_use = q[i].in_user_use
  PROVE  Granted(ds, r, m, n)
<1>1. ASSUME NEW s \in FirstUntyped..(FirstUntyped + n - 1)
      PROVE  Owned(ds[s], r, m)
  <2>1. Owned(cs[s], q, m)
    BY DEF Granted
  <2> QED BY <2>1 DEF Owned
<1>2. \A s, t \in FirstUntyped..(FirstUntyped + n - 1) : s # t => Apart(ds[s], ds[t])
  BY DEF Granted, Apart
<1> QED BY <1>1, <1>2 DEF Granted


-----------------------------------------------------------------------------
(* The invariant is inductive. *)

(* The invariant holds before the kernel cuts the map. *)
LEMMA InitEstablishes == Init => MInv
<1> SUFFICES ASSUME Init PROVE MInv
  OBVIOUS
<1>1. DOMAIN slots = 0..(CNodeSlots - 1)
  BY DEF Init
<1>2. \A s \in DOMAIN slots : /\ s < FirstUntyped => slots[s] = [type |-> "BOOT"]
                              /\ s >= FirstUntyped => slots[s] = Empty
  <2> SUFFICES ASSUME NEW s \in DOMAIN slots
               PROVE  /\ s < FirstUntyped => slots[s] = [type |-> "BOOT"]
                      /\ s >= FirstUntyped => slots[s] = Empty
    OBVIOUS
  <2>1. s \in Nat /\ FirstUntyped \in Nat
    BY <1>1, MemoryAssumption
  <2>2. slots[s] = IF s < FirstUntyped THEN [type |-> "BOOT"] ELSE Empty
    BY <1>1 DEF Init
  <2> QED BY <2>1, <2>2
<1>3. regions = <<>> /\ pages = {} /\ clobbered = {} /\ phase = "start"
  BY DEF Init
<1>4. WellCut(regions, map) /\ Exclusive(regions) /\ PagesTaken(pages, regions)
      /\ \A i \in 1..Len(regions) : ~regions[i].in_user_use
  BY <1>3 DEF WellCut, Exclusive, PagesTaken
<1>5. map \in Maps /\ devices \in DeviceSizes
  BY DEF Init
<1> QED BY <1>1, <1>2, <1>3, <1>4, <1>5 DEF MInv

(* init_page_mmap keeps it. *)
LEMMA InitPageMmapKeeps == MInv /\ InitPageMmap => MInv'
<1> SUFFICES ASSUME MInv, InitPageMmap PROVE MInv'
  OBVIOUS
<1>1. /\ phase = "start" /\ phase' = "boot" /\ regions' = init_page_mmap(map, MaxExtents)
      /\ map' = map /\ devices' = devices /\ pages' = pages /\ slots' = slots
      /\ clobbered' = clobbered
  BY DEF InitPageMmap
<1>2. map \in Maps
  BY DEF MInv
<1>3. /\ WellCut(regions', map)
      /\ \A i \in 1..Len(regions') : ~regions'[i].in_kernel_use /\ ~regions'[i].in_user_use
  BY <1>1, <1>2, MapIsCut
<1>4. pages' = {}
  BY <1>1 DEF MInv
<1>5. Exclusive(regions') /\ PagesTaken(pages', regions')
  BY <1>3, <1>4 DEF Exclusive, PagesTaken
<1>6. regions' # <<>> => ~regions'[Len(regions')].in_kernel_use
  <2>1. SUFFICES ASSUME regions' # <<>> PROVE Len(regions') \in 1..Len(regions')
    BY <1>3
  <2>2. regions' \in Seq(RegionRecords)
    BY <1>3 DEF WellCut
  <2> QED BY <2>1, <2>2
<1> QED BY <1>1, <1>3, <1>4, <1>5, <1>6 DEF MInv

(* alloc_page keeps it: the page is not from a region handed out. *)
LEMMA AllocPageKeeps == MInv /\ AllocPage => MInv'
<1> SUFFICES ASSUME MInv, AllocPage PROVE MInv'
  OBVIOUS
<1> DEFINE page == alloc_page(regions).page
<1>1. /\ phase \in {"boot", "user"} /\ phase' = phase /\ CanAllocPage(regions)
      /\ phase = "boot" => Spare
      /\ regions' = alloc_page(regions).regions /\ pages' = pages \cup {page}
      /\ map' = map /\ devices' = devices /\ slots' = slots /\ clobbered' = clobbered
      /\ info' = info /\ bitmap' = bitmap
  BY DEF AllocPage
<1>2. /\ WellCut(regions, map) /\ Exclusive(regions) /\ regions \in Seq(RegionRecords)
      /\ PagesTaken(pages, regions)
  BY DEF MInv, WellCut
<1>3. PICK i \in 1..Len(regions) :
        /\ TakesFrom(regions, regions', page, i)
        /\ ((\E j \in DOMAIN regions : j < Len(regions) /\ (HasRoom(regions[j]) \/ IsFree(regions[j])))
            /\ ~regions[Len(regions)].in_kernel_use) => i < Len(regions)
  BY <1>1, <1>2, PageTaken
<1> HIDE DEF page
<1>4. /\ SameFrames(regions, regions')
      /\ \A j \in 1..Len(regions) :
           /\ regions'[j].in_user_use = regions[j].in_user_use
           /\ regions'[j].in_kernel_use = (regions[j].in_kernel_use \/ j = i)
      /\ ~regions[i].in_user_use
      /\ page \in Nat /\ regions[i].addr <= page /\ page < regions[i].addr + regions[i].size
  BY <1>3 DEF TakesFrom
<1>5. WellCut(regions', map)
  BY <1>2, <1>4, FramesStayCut
<1>6. Len(regions') = Len(regions) /\ Len(regions) \in Nat
      /\ \A j \in 1..Len(regions) : /\ regions'[j].addr = regions[j].addr
                                    /\ regions'[j].size = regions[j].size
  BY <1>2, <1>4 DEF SameFrames
<1>7. Exclusive(regions')
  BY <1>2, <1>4, <1>6 DEF Exclusive
<1>8. PagesTaken(pages', regions')
  <2> SUFFICES ASSUME NEW p \in pages'
               PROVE  /\ p \in Nat
                      /\ \E j \in 1..Len(regions') :
                           /\ regions'[j].in_kernel_use
                           /\ regions'[j].addr <= p
                           /\ p < regions'[j].addr + regions'[j].size
    BY DEF PagesTaken
  <2>1. CASE p \in pages
    <3>1. p \in Nat
      BY <1>2, <2>1 DEF PagesTaken
    <3>2. PICK j \in 1..Len(regions) : /\ regions[j].in_kernel_use
                                       /\ regions[j].addr <= p /\ p < regions[j].addr + regions[j].size
      BY <1>2, <2>1 DEF PagesTaken
    <3>3. regions'[j].in_kernel_use
      BY <1>4, <3>2
    <3> QED BY <1>6, <3>1, <3>2, <3>3
  <2>2. CASE p = page
    <3>1. regions'[i].in_kernel_use
      BY <1>4
    <3> QED BY <1>4, <1>6, <2>2, <3>1
  <2> QED BY <1>1, <2>1, <2>2
<1>9. phase = "boot" => /\ \A j \in 1..Len(regions') : ~regions'[j].in_user_use
                        /\ regions' # <<>> => ~regions'[Len(regions')].in_kernel_use
  <2> SUFFICES ASSUME phase = "boot"
               PROVE  /\ \A j \in 1..Len(regions') : ~regions'[j].in_user_use
                      /\ ~regions'[Len(regions')].in_kernel_use
    OBVIOUS
  <2>1. Len(regions) \in 1..Len(regions)
    BY <1>6
  <2>2. regions # <<>>
    BY <2>1
  <2>3. /\ ~regions[Len(regions)].in_kernel_use
        /\ \A j \in 1..Len(regions) : ~regions[j].in_user_use
    BY <2>2 DEF MInv
  <2>4. i < Len(regions)
    BY <1>1, <1>3, <2>3 DEF Spare
  <2>5. i # Len(regions)
    BY <1>6, <2>4
  <2> QED BY <1>4, <1>6, <2>1, <2>3, <2>5
<1>10. phase = "user" => Granted(slots, regions', map, Len(info))
  <2> SUFFICES ASSUME phase = "user" PROVE Granted(slots, regions', map, Len(info))
    OBVIOUS
  <2>1. Granted(slots, regions, map, Len(info))
    BY DEF MInv
  <2>2. \A s \in FirstUntyped..(FirstUntyped + Len(info) - 1) : IsUntypedCap(slots[s])
    BY <2>1 DEF Granted
  <2> QED BY <1>4, <1>6, <2>1, <2>2, GrantsStay
<1> QED BY <1>1, <1>5, <1>7, <1>8, <1>9, <1>10 DEF MInv

(* qsort returns as many entries as it was given. *)
LEMMA SortKeepsLength ==
  ASSUME NEW a, NEW n \in Nat, DOMAIN a = 1..n
  PROVE  Len(Sort!qsort(a, 1, n)) = n
BY DEF Sort!qsort

(* The first program lists every capability it was given. *)
LEMMA UntypedsListed ==
  ASSUME MInv, StartUserland
  PROVE  /\ Handed(Len(info'))
         /\ \A s \in DOMAIN slots :
              \/ s < FirstUntyped /\ slots[s].type # "UNTYPED"
              \/ s \in FirstUntyped..(FirstUntyped + Len(info') - 1)
              \/ s >= FirstUntyped + Len(info') /\ slots[s].type = "NULL"
<1> DEFINE n == Cardinality(UntypedSlots)
           all == [i \in 1..n |-> [size |-> slots[FirstUntyped + i - 1].size, index |-> i - 1]]
<1>1. /\ phase = "booted" /\ phase' = "user" /\ info' = Sort!qsort(all, 1, n)
      /\ bitmap' = cptr_alloc_init(CNodeSlots, EmptyRange)
      /\ UNCHANGED <<map, devices, regions, pages, slots, clobbered>>
  BY DEF StartUserland
<1>11. PICK k : Handed(k)
  BY <1>1 DEF MInv
<1>2. /\ Granted(slots, regions, map, k)
      /\ \A s \in DOMAIN slots : s >= FirstUntyped + k => slots[s] = Empty
  BY <1>11 DEF Handed
<1>3. /\ DOMAIN slots = 0..(CNodeSlots - 1)
      /\ CNodeSlots \in Nat /\ FirstUntyped \in Nat /\ k \in Nat /\ FirstUntyped + k <= CNodeSlots
  BY <1>2, MemoryAssumption DEF MInv, Granted
<1>4. \A s \in FirstUntyped..(FirstUntyped + k - 1) :
        slots[s].type = "UNTYPED" /\ s \in DOMAIN slots
  <2>1. \A s \in FirstUntyped..(FirstUntyped + k - 1) : IsUntypedCap(slots[s])
    BY <1>2 DEF Granted
  <2>2. \A c : IsUntypedCap(c) => c.type = "UNTYPED"
    BY DEF IsUntypedCap
  <2> QED BY <1>3, <2>1, <2>2
<1>5. \A s \in DOMAIN slots : \/ s < FirstUntyped /\ slots[s].type # "UNTYPED"
                              \/ s \in FirstUntyped..(FirstUntyped + k - 1)
                              \/ s >= FirstUntyped + k /\ slots[s].type = "NULL"
  <2> SUFFICES ASSUME NEW s \in DOMAIN slots
               PROVE  \/ s < FirstUntyped /\ slots[s].type # "UNTYPED"
                      \/ s \in FirstUntyped..(FirstUntyped + k - 1)
                      \/ s >= FirstUntyped + k /\ slots[s].type = "NULL"
    OBVIOUS
  <2>1. s < FirstUntyped => slots[s] = [type |-> "BOOT"]
    BY DEF MInv
  <2>2. s >= FirstUntyped + k => slots[s] = [type |-> "NULL"]
    BY <1>2 DEF Empty
  <2>3. \/ s < FirstUntyped \/ s \in FirstUntyped..(FirstUntyped + k - 1)
        \/ s >= FirstUntyped + k
    BY <1>3
  <2> QED BY <2>1, <2>2, <2>3
<1>6. UntypedSlots = FirstUntyped..(FirstUntyped + k - 1)
  BY <1>4, <1>5 DEF UntypedSlots
<1>7. n = k
  <2>1. Cardinality(FirstUntyped..(FirstUntyped + k - 1)) =
          IF FirstUntyped > FirstUntyped + k - 1 THEN 0
          ELSE (FirstUntyped + k - 1) - FirstUntyped + 1
    <3>1. FirstUntyped \in Int /\ FirstUntyped + k - 1 \in Int
      BY <1>3
    <3> QED BY <3>1, FS_Interval
  <2> QED BY <1>3, <1>6, <2>1
<1>8. Len(info') = k
  <2>1. DOMAIN all = 1..n
    OBVIOUS
  <2> HIDE DEF all, n
  <2>2. Len(Sort!qsort(all, 1, n)) = n
    BY <1>3, <1>7, <2>1, SortKeepsLength
  <2> QED BY <1>1, <1>7, <2>2
<1> HIDE DEF all, n
<1> QED BY <1>5, <1>8, <1>11

(* The first program marks all slots but the empty ones. *)
LEMMA StartUserlandKeeps == MInv /\ StartUserland => MInv'
<1> SUFFICES ASSUME MInv, StartUserland PROVE MInv'
  OBVIOUS
<1>1. /\ phase = "booted" /\ phase' = "user"
      /\ bitmap' = cptr_alloc_init(CNodeSlots, EmptyRange)
      /\ UNCHANGED <<map, devices, regions, pages, slots, clobbered>>
  BY DEF StartUserland
<1> DEFINE k == Len(info')
<1>2. /\ Granted(slots, regions, map, k)
      /\ \A s \in DOMAIN slots : s >= FirstUntyped + k => slots[s] = Empty
      /\ \A s \in DOMAIN slots :
           \/ s < FirstUntyped /\ slots[s].type # "UNTYPED"
           \/ s \in FirstUntyped..(FirstUntyped + k - 1)
           \/ s >= FirstUntyped + k /\ slots[s].type = "NULL"
  BY UntypedsListed DEF Handed
<1>3. /\ DOMAIN slots = 0..(CNodeSlots - 1)
      /\ CNodeSlots \in Nat /\ FirstUntyped \in Nat /\ k \in Nat
  BY <1>2, MemoryAssumption DEF MInv, Granted
<1>4. \A s \in FirstUntyped..(FirstUntyped + k - 1) : slots[s].type = "UNTYPED"
  <2>1. \A s \in FirstUntyped..(FirstUntyped + k - 1) : IsUntypedCap(slots[s])
    BY <1>2 DEF Granted
  <2>2. \A c : IsUntypedCap(c) => c.type = "UNTYPED"
    BY DEF IsUntypedCap
  <2> QED BY <2>1, <2>2
<1>9. Granted(slots', regions', map', Len(info'))
  BY <1>1, <1>2
<1>10. \A s \in DOMAIN slots' : slots'[s] # Empty => s \in bitmap'
  <2> SUFFICES ASSUME NEW s \in DOMAIN slots, slots[s] # Empty PROVE s \in bitmap'
    BY <1>1
  <2>1. ~(s >= FirstUntyped + k)
    BY <1>2
  <2>2. s < FirstUntyped \/ slots[s].type = "UNTYPED"
    BY <1>2, <1>4, <2>1
  <2>3. s \notin EmptyRange
    BY <1>3, <2>2 DEF EmptyRange
  <2> QED BY <1>1, <1>3, <2>3 DEF cptr_alloc_init
<1> QED BY <1>1, <1>9, <1>10 DEF MInv


(* The place of device memory is above every entry of the map. *)
LEMMA TopIsAbove ==
  ASSUME NEW m \in Maps
  PROVE  LET top == Max({0} \cup {e.start + e.len : e \in {m[i] : i \in DOMAIN m}})
         IN  top \in Nat /\ \A i \in DOMAIN m : m[i].start + m[i].len <= top
<1> DEFINE T == {0} \cup {e.start + e.len : e \in {m[i] : i \in DOMAIN m}}
           f == [i \in 1..Len(m) |-> m[i].start + m[i].len]
<1>1. m \in Seq(Entries) /\ DOMAIN m = 1..Len(m) /\ Len(m) \in Nat
  BY MemoryAssumption
<1>2. \A i \in 1..Len(m) : m[i].start + m[i].len \in Nat
  <2>1. \A i \in 1..Len(m) : m[i] \in Entries
    BY <1>1
  <2> QED BY <2>1 DEF Entries
<1>3. f \in [1..Len(m) -> Nat]
  BY <1>2
<1>4. PICK b \in Nat : \A i \in 1..Len(m) : f[i] <= b
  BY <1>1, <1>3, FiniteBounded
<1>5. \A i \in 1..Len(m) : m[i].start + m[i].len <= b
  BY <1>4
<1>6. T \subseteq Nat /\ 0 \in T /\ \A y \in T : y <= b
  BY <1>1, <1>2, <1>5
<1>7. Max(T) \in T /\ \A y \in T : y <= Max(T)
  <2> HIDE DEF T
  <2> QED BY <1>6, MaxProperty
<1>8. \A i \in DOMAIN m : m[i].start + m[i].len \in T
  OBVIOUS
<1> QED BY <1>6, <1>7, <1>8

(* The capabilities made at boot, for the regions f[1], ..., f[n] and then *)
(* for d devices from top on.                                              *)
BootCap(q, f, n, top, sizes, k) ==
  IF k <= n THEN UntypedCap(q[f[k]].addr * PageSize, q[f[k]].size * PageSize, FALSE)
  ELSE UntypedCap((top + 32 * (k - n)) * PageSize, sizes[k - n], TRUE)

(* They are apart from each other, and each has its memory to itself. *)
LEMMA BootCapsSound ==
  ASSUME NEW m \in Maps, NEW q, NEW r, NEW caps, NEW f, NEW n,
         WellCut(q, m), HandsOut(q, r, caps, f, n),
         NEW sizes, sizes \in DeviceSizes, NEW d \in Nat, d <= Len(sizes),
         NEW top \in Nat, \A i \in DOMAIN m : m[i].start + m[i].len <= top
  PROVE  /\ \A k \in 1..(n + d) : /\ IsUntypedCap(BootCap(q, f, n, top, sizes, k))
                                  /\ Owned(BootCap(q, f, n, top, sizes, k), r, m)
         /\ \A k, l \in 1..(n + d) :
              k # l => Apart(BootCap(q, f, n, top, sizes, k), BootCap(q, f, n, top, sizes, l))
<1> DEFINE C(k) == BootCap(q, f, n, top, sizes, k)
           A(k) == q[f[k]].addr * PageSize
           Z(k) == q[f[k]].size * PageSize
           B(k) == (top + 32 * (k - n)) * PageSize
<1>1. n \in Nat /\ PageSize \in Nat \ {0} /\ 32 * PageSize \in Nat
  BY UntypedAssumption DEF HandsOut
<1>2. \A k \in 1..(n + d) : k \in 1..n \/ (k > n /\ ~(k <= n) /\ k - n \in 1..d)
  BY <1>1
<1>4. \A base \in Nat, size \in Nat \ {0}, device \in BOOLEAN :
        IsUntypedCap(UntypedCap(base, size, device))
  BY DEF UntypedCap, IsUntypedCap
<1>5. \A k \in 1..n : f[k] \in 1..Len(q) /\ q[f[k]].addr \in Nat /\ q[f[k]].size \in Nat \ {0}
  <2> SUFFICES ASSUME NEW k \in 1..n
               PROVE  f[k] \in 1..Len(q) /\ q[f[k]].addr \in Nat /\ q[f[k]].size \in Nat \ {0}
    OBVIOUS
  <2>1. f[k] \in 1..Len(q)
    BY DEF HandsOut
  <2>2. q[f[k]] \in RegionRecords
    BY <2>1 DEF WellCut
  <2> QED BY <2>1, <2>2, RegionNumbers
<1>6. \A x \in Nat : x * PageSize \in Nat /\ (x # 0 => x * PageSize # 0)
  BY <1>1
<1>7. \A k \in 1..n : A(k) \in Nat /\ Z(k) \in Nat \ {0}
  BY <1>5, <1>6
<1>8. \A k \in 1..n : C(k) = UntypedCap(A(k), Z(k), FALSE)
  <2>1. \A k \in 1..n : k <= n
    BY <1>1
  <2> QED BY <2>1, Zenon DEF BootCap
<1>9. \A k \in 1..(n + d) : k > n => C(k) = UntypedCap(B(k), sizes[k - n], TRUE)
  <2>1. \A k \in 1..(n + d) : k > n => ~(k <= n)
    BY <1>1
  <2> QED BY <2>1, Zenon DEF BootCap
<1>10. \A x \in Nat : /\ (top + 32 * x) * PageSize \in Nat
                      /\ (top + 32 * x) * PageSize = top * PageSize + x * (32 * PageSize)
  BY <1>1
<1>11. \A k \in 1..(n + d) : k > n => /\ B(k) \in Nat
                                      /\ B(k) = top * PageSize + (k - n) * (32 * PageSize)
  BY <1>1, <1>10
<1>12. \A k \in 1..(n + d) : k > n => sizes[k - n] \in Nat \ {0} /\ sizes[k - n] <= 32 * PageSize
  <2>1. sizes \in Seq(1..(32 * PageSize))
    BY MemoryAssumption
  <2>2. \A x \in 1..d : sizes[x] \in 1..(32 * PageSize)
    <3>1. Len(sizes) \in Nat /\ \A x \in 1..Len(sizes) : sizes[x] \in 1..(32 * PageSize)
      <4> DEFINE R == 1..(32 * PageSize)
      <4>1. sizes \in Seq(R)
        BY <2>1
      <4> HIDE DEF R
      <4>2. Len(sizes) \in Nat /\ \A x \in 1..Len(sizes) : sizes[x] \in R
        BY <4>1
      <4> QED BY <4>2 DEF R
    <3>2. \A x \in 1..d : x \in 1..Len(sizes)
      BY <3>1
    <3> QED BY <3>1, <3>2
  <2> QED BY <1>1, <1>2, <2>2
<1> HIDE DEF C, A, Z, B
<1>13. \A k \in 1..n : C(k).base = A(k) /\ C(k).size = Z(k) /\ C(k).device = FALSE
  <2> SUFFICES ASSUME NEW k \in 1..n
               PROVE  C(k).base = A(k) /\ C(k).size = Z(k) /\ C(k).device = FALSE
    OBVIOUS
  <2>1. C(k) = UntypedCap(A(k), Z(k), FALSE)
    BY <1>8
  <2> QED BY <2>1 DEF UntypedCap
<1>14. \A k \in 1..(n + d) :
         k > n => C(k).base = B(k) /\ C(k).size = sizes[k - n] /\ C(k).device = TRUE
  <2> SUFFICES ASSUME NEW k \in 1..(n + d), k > n
               PROVE  C(k).base = B(k) /\ C(k).size = sizes[k - n] /\ C(k).device = TRUE
    OBVIOUS
  <2>1. C(k) = UntypedCap(B(k), sizes[k - n], TRUE)
    BY <1>9
  <2> QED BY <2>1 DEF UntypedCap
<1>15. \A k \in 1..(n + d) : IsUntypedCap(C(k))
  BY <1>2, <1>4, <1>7, <1>8, <1>9, <1>11, <1>12
<1>16. ASSUME NEW k \in 1..n PROVE Owned(C(k), r, m)
  <2>1. f[k] \in 1..Len(q) /\ r[f[k]].in_user_use /\ Len(r) = Len(q)
        /\ r[f[k]].addr = q[f[k]].addr /\ r[f[k]].size = q[f[k]].size
    BY <1>5 DEF HandsOut, SameFrames
  <2>2. C(k).base = r[f[k]].addr * PageSize /\ C(k).size = r[f[k]].size * PageSize
    BY <1>13, <2>1 DEF A, Z
  <2> QED BY <1>13, <2>1, <2>2 DEF Owned
<1>17. top * PageSize \in Nat /\ \A k \in 1..(n + d) : k > n => top * PageSize <= B(k)
  <2>1. top * PageSize \in Nat /\ \A x \in Nat : x * (32 * PageSize) \in Nat
    BY <1>1
  <2> SUFFICES ASSUME NEW k \in 1..(n + d), k > n PROVE top * PageSize <= B(k)
    BY <2>1
  <2>2. k - n \in Nat
    BY <1>1
  <2>3. (k - n) * (32 * PageSize) \in Nat
    BY <2>1, <2>2
  <2>4. B(k) = top * PageSize + (k - n) * (32 * PageSize)
    BY <1>11
  <2> QED BY <2>1, <2>3, <2>4
<1>18. ASSUME NEW e \in DOMAIN m
       PROVE  /\ m[e].start + m[e].len \in Nat
              /\ (m[e].start + m[e].len) * PageSize \in Nat
              /\ (m[e].start + m[e].len) * PageSize <= top * PageSize
  <2>1. m \in Seq(Entries)
    BY MemoryAssumption
  <2>2. m[e] \in Entries
    BY <2>1
  <2>3. m[e].start + m[e].len \in Nat /\ m[e].start + m[e].len <= top
    BY <2>2 DEF Entries
  <2> QED BY <2>3, Scaled
<1>19. ASSUME NEW k \in 1..(n + d), k > n PROVE Owned(C(k), r, m)
  <2>1. C(k).device = TRUE /\ C(k).base = B(k) /\ B(k) \in Nat /\ top * PageSize <= B(k)
    BY <1>11, <1>14, <1>17, <1>19
  <2>2. ASSUME NEW e \in DOMAIN m PROVE (m[e].start + m[e].len) * PageSize <= C(k).base
    <3>1. /\ (m[e].start + m[e].len) * PageSize \in Nat
          /\ (m[e].start + m[e].len) * PageSize <= top * PageSize
      BY <1>18
    <3> QED BY ONLY <1>17, <2>1, <3>1
  <2> QED BY <2>1, <2>2 DEF Owned
<1>20. \A a, b, c \in Nat : a + b <= c => a * PageSize + b * PageSize <= c * PageSize
  <2> SUFFICES ASSUME NEW a \in Nat, NEW b \in Nat, NEW c \in Nat, a + b <= c
               PROVE  a * PageSize + b * PageSize <= c * PageSize
    OBVIOUS
  <2>1. a + b \in Nat
    OBVIOUS
  <2>2. (a + b) * PageSize <= c * PageSize
    BY <2>1, Scaled
  <2>3. (a + b) * PageSize = a * PageSize + b * PageSize
    BY <1>1
  <2> QED BY <2>2, <2>3
<1>21. ASSUME NEW k \in 1..n, NEW l \in 1..n, k # l PROVE Apart(C(k), C(l))
  <2>1. f[k] # f[l]
    BY <1>21 DEF HandsOut
  <2>2. \/ q[f[k]].addr + q[f[k]].size <= q[f[l]].addr
        \/ q[f[l]].addr + q[f[l]].size <= q[f[k]].addr
    BY <1>5, <2>1 DEF WellCut
  <2>3. A(k) + Z(k) <= A(l) \/ A(l) + Z(l) <= A(k)
    BY <1>5, <1>20, <2>2 DEF A, Z
  <2> QED BY <1>13, <2>3 DEF Apart
<1>22. ASSUME NEW k \in 1..n, NEW l \in 1..(n + d), l > n
       PROVE  C(k).base + C(k).size <= C(l).base
  <2>1. PICK e \in DOMAIN m : q[f[k]].addr + q[f[k]].size <= m[e].start + m[e].len
    BY <1>5 DEF WellCut
  <2>2. A(k) + Z(k) <= (m[e].start + m[e].len) * PageSize
    BY <1>5, <1>18, <1>20, <2>1 DEF A, Z
  <2>3. A(k) \in Nat /\ Z(k) \in Nat /\ B(l) \in Nat /\ top * PageSize <= B(l)
    BY <1>7, <1>11, <1>17, <1>22
  <2>4. /\ (m[e].start + m[e].len) * PageSize \in Nat
        /\ (m[e].start + m[e].len) * PageSize <= top * PageSize
    BY <1>18
  <2>5. A(k) + Z(k) <= B(l)
    BY ONLY <1>17, <2>2, <2>3, <2>4
  <2> QED BY <1>13, <1>14, <1>22, <2>5
<1>23. ASSUME NEW k \in 1..(n + d), NEW l \in 1..(n + d), k > n, k < l
       PROVE  C(k).base + C(k).size <= C(l).base
  <2>1. l > n
    BY <1>1, <1>23
  <2> DEFINE x == k - n
             y == l - n
             D == 32 * PageSize
             t == top * PageSize
             z == sizes[x]
  <2>2. /\ B(k) = t + x * D /\ z <= D /\ z \in Nat
        /\ B(l) = t + y * D
        /\ x \in Nat /\ y \in Nat
    BY <1>1, <1>11, <1>12, <1>23, <2>1
  <2>3. x + 1 <= y
    BY <1>1, <1>23
  <2>4. D \in Nat /\ t \in Nat
    BY <1>1, <1>17
  <2>5. C(k).base = B(k) /\ C(k).size = z /\ C(l).base = B(l)
    BY <1>14, <1>23, <2>1
  <2> HIDE DEF x, y, D, t, z
  <2>6. PICK w \in Nat : y = x + 1 + w
    <3>1. y - (x + 1) \in Nat /\ y = x + 1 + (y - (x + 1))
      BY <2>2, <2>3
    <3> QED BY <3>1
  <2>7. y * D = x * D + D + w * D /\ w * D \in Nat /\ x * D \in Nat /\ y * D \in Nat
    BY <2>2, <2>4, <2>6
  <2>8. B(k) + z <= B(l)
    BY ONLY <2>2, <2>4, <2>7
  <2> QED BY <2>5, <2>8
<1>24. ASSUME NEW k \in 1..(n + d), NEW l \in 1..(n + d), k # l
       PROVE  Apart(C(k), C(l))
  <2>1. k < l \/ l < k
    BY <1>1, <1>24
  <2> QED BY <1>2, <1>21, <1>22, <1>23, <1>24, <2>1 DEF Apart
<1>25. \A k \in 1..(n + d) : Owned(C(k), r, m)
  BY <1>2, <1>16, <1>19
<1> QED BY <1>15, <1>24, <1>25 DEF C

(* create_boot_tcb fills empty slots with capabilities that are apart. *)
LEMMA CreateBootTcbKeeps == MInv /\ CreateBootTcb => MInv'
<1> SUFFICES ASSUME MInv, CreateBootTcb PROVE MInv'
  OBVIOUS
<1> DEFINE room    == CNodeSlots - FirstUntyped
           given   == create_init_untyped_caps(regions, room)
           untyped == [i \in DOMAIN given.caps |->
                         UntypedCap(given.caps[i].base * PageSize,
                                    given.caps[i].size * PageSize, FALSE)]
           devs    == create_init_untyped_device_caps(room - Len(untyped))
           caps    == untyped \o devs
           top     == Max({0} \cup {e.start + e.len : e \in {map[i] : i \in DOMAIN map}})
<1>1. /\ phase = "boot" /\ phase' = "booted" /\ regions # <<>> /\ regions' = given.regions
      /\ slots' = [s \in DOMAIN slots |->
                     IF s - FirstUntyped + 1 \in DOMAIN caps THEN caps[s - FirstUntyped + 1]
                     ELSE slots[s]]
      /\ UNCHANGED <<map, devices, pages, clobbered>>
  BY DEF CreateBootTcb
<1>2. /\ room \in Nat /\ CNodeSlots \in Nat /\ FirstUntyped \in Nat /\ FirstUntyped <= CNodeSlots
      /\ FirstUntyped + room = CNodeSlots
  BY MemoryAssumption
<1>3. /\ map \in Maps /\ devices \in DeviceSizes /\ WellCut(regions, map) /\ Exclusive(regions)
      /\ regions \in Seq(RegionRecords)
      /\ ~regions[Len(regions)].in_kernel_use
      /\ \A i \in 1..Len(regions) : ~regions[i].in_user_use
      /\ DOMAIN slots = 0..(CNodeSlots - 1)
      /\ \A s \in DOMAIN slots : /\ s < FirstUntyped => slots[s] = [type |-> "BOOT"]
                                 /\ s >= FirstUntyped => slots[s] = Empty
      /\ PagesTaken(pages, regions) /\ clobbered = {}
  BY <1>1 DEF MInv, WellCut
<1>4. PICK f, n : HandsOut(regions, given.regions, given.caps, f, n) /\ n <= room
  BY <1>2, <1>3, RegionsHandedOut
<1>5. top \in Nat /\ \A i \in DOMAIN map : map[i].start + map[i].len <= top
  BY <1>3, TopIsAbove
<1> DEFINE C(k) == BootCap(regions, f, n, top, devices, k)
<1>6. n \in Nat /\ DOMAIN given.caps = 1..n
      /\ \A k \in 1..n : /\ given.caps[k].base = regions[f[k]].addr
                         /\ given.caps[k].size = regions[f[k]].size
  BY <1>4 DEF HandsOut
<1>7. \A k \in 1..n : untyped[k] = C(k)
  <2> SUFFICES ASSUME NEW k \in 1..n PROVE untyped[k] = C(k)
    OBVIOUS
  <2>1. k <= n
    BY <1>6
  <2>2. untyped[k] = UntypedCap(given.caps[k].base * PageSize, given.caps[k].size * PageSize, FALSE)
    BY <1>6, Zenon
  <2>3. C(k) = UntypedCap(regions[f[k]].addr * PageSize, regions[f[k]].size * PageSize, FALSE)
    BY <2>1, Zenon DEF BootCap
  <2> QED BY <1>6, <2>2, <2>3, Zenon
<1>8. untyped = [k \in 1..n |-> untyped[k]]
  BY <1>6, Zenon
<1>9. Len(untyped) = n
  BY <1>6, <1>8
<1> HIDE DEF given, untyped, top
<1> DEFINE d == Min({Len(devices), room - n})
<1>10. d \in Nat /\ d <= Len(devices) /\ d <= room - n
  <2>1. Len(devices) \in Nat
    BY <1>3, MemoryAssumption
  <2>2. room - n \in Nat
    BY <1>2, <1>4, <1>6
  <2>3. d \in {Len(devices), room - n} /\ \A y \in {Len(devices), room - n} : d <= y
    BY <2>1, <2>2, MinProperty
  <2> QED BY <2>1, <2>2, <2>3
<1>11. devs = [i \in 1..d |-> UntypedCap((top + 32 * i) * PageSize, devices[i], TRUE)]
  BY <1>9 DEF create_init_untyped_device_caps, top
<1> HIDE DEF d, devs
<1>12. \A i \in 1..d : devs[i] = C(n + i)
  <2> SUFFICES ASSUME NEW i \in 1..d PROVE devs[i] = C(n + i)
    OBVIOUS
  <2>1. ~(n + i <= n) /\ (n + i) - n = i
    BY <1>6, <1>10
  <2>2. C(n + i) = UntypedCap((top + 32 * ((n + i) - n)) * PageSize, devices[(n + i) - n], TRUE)
    BY <2>1, Zenon DEF BootCap
  <2>3. devs[i] = UntypedCap((top + 32 * i) * PageSize, devices[i], TRUE)
    BY <1>11, Zenon
  <2>4. C(n + i) = UntypedCap((top + 32 * i) * PageSize, devices[i], TRUE)
    BY <2>1, <2>2
  <2> QED BY <2>3, <2>4
<1>13. devs = [i \in 1..d |-> devs[i]]
  BY <1>11, Zenon
<1> HIDE DEF C
<1>14. DOMAIN caps = 1..(n + d) /\ \A k \in 1..(n + d) : caps[k] = C(k)
  <2> DEFINE X == {C(k) : k \in 1..(n + d)}
  <2>1. \A k \in 1..(n + d) : C(k) \in X
    OBVIOUS
  <2> HIDE DEF X
  <2>2. \A k \in 1..n : untyped[k] \in X
    BY <1>6, <1>7, <1>10, <2>1
  <2>3. \A i \in 1..d : devs[i] \in X
    <3>1. \A i \in 1..d : n + i \in 1..(n + d)
      BY <1>6, <1>10
    <3> QED BY <1>12, <2>1, <3>1
  <2>4. untyped \in [1..n -> X]
    BY <1>8, <2>2, Zenon
  <2>8. devs \in [1..d -> X]
    BY <1>13, <2>3, Zenon
  <2>5. untyped \in Seq(X) /\ devs \in Seq(X) /\ Len(untyped) = n /\ Len(devs) = d
    BY <1>6, <1>10, <2>4, <2>8
  <2>6. /\ DOMAIN caps = 1..(n + d)
        /\ \A k \in 1..(n + d) : caps[k] = IF k <= n THEN untyped[k] ELSE devs[k - n]
    BY <1>6, <1>10, <2>5, SMTT(30)
  <2>7. ASSUME NEW k \in 1..(n + d) PROVE caps[k] = C(k)
    <3>1. CASE k <= n
      <4>1. k \in 1..n
        BY <1>6, <3>1
      <4> QED BY <1>7, <2>6, <3>1, <4>1
    <3>2. CASE ~(k <= n)
      <4>1. k - n \in 1..d /\ n + (k - n) = k
        BY <1>6, <1>10, <3>2
      <4>2. devs[k - n] = C(n + (k - n))
        BY <1>12, <4>1
      <4> QED BY <2>6, <3>2, <4>1, <4>2
    <3> QED BY <3>1, <3>2
  <2> QED BY <2>6, <2>7
<1> HIDE DEF caps, room
<1>15. /\ DOMAIN slots' = DOMAIN slots
       /\ \A s \in DOMAIN slots :
            /\ s - FirstUntyped + 1 \in 1..(n + d) => slots'[s] = C(s - FirstUntyped + 1)
            /\ ~(s - FirstUntyped + 1 \in 1..(n + d)) => slots'[s] = slots[s]
  BY <1>1, <1>14, Zenon
<1>16. /\ \A k \in 1..(n + d) : IsUntypedCap(C(k)) /\ Owned(C(k), regions', map)
       /\ \A k, l \in 1..(n + d) : k # l => Apart(C(k), C(l))
  BY <1>1, <1>3, <1>4, <1>5, <1>10, BootCapsSound DEF C
<1>17. Granted(slots', regions', map', n + d)
  <2>1. n + d \in Nat /\ FirstUntyped + (n + d) <= CNodeSlots
    BY <1>2, <1>4, <1>6, <1>10
  <2>2. ASSUME NEW s \in FirstUntyped..(FirstUntyped + (n + d) - 1)
        PROVE  s - FirstUntyped + 1 \in 1..(n + d) /\ slots'[s] = C(s - FirstUntyped + 1)
    <3>1. s - FirstUntyped + 1 \in 1..(n + d) /\ s \in DOMAIN slots
      BY <1>2, <1>3, <2>1
    <3> QED BY <1>15, <3>1
  <2>3. ASSUME NEW s \in FirstUntyped..(FirstUntyped + (n + d) - 1)
        PROVE  IsUntypedCap(slots'[s]) /\ Owned(slots'[s], regions', map)
    BY <1>16, <2>2
  <2>4. ASSUME NEW s \in FirstUntyped..(FirstUntyped + (n + d) - 1),
               NEW t \in FirstUntyped..(FirstUntyped + (n + d) - 1), s # t
        PROVE  Apart(slots'[s], slots'[t])
    <3>1. s - FirstUntyped + 1 # t - FirstUntyped + 1
      BY <1>2, <2>4
    <3> QED BY <1>16, <2>2, <3>1
  <2> QED BY <1>1, <2>1, <2>3, <2>4 DEF Granted
<1>18. /\ \A s \in DOMAIN slots' : s < FirstUntyped => slots'[s] = [type |-> "BOOT"]
       /\ \A s \in DOMAIN slots' : s >= FirstUntyped + (n + d) => slots'[s] = Empty
  <2> SUFFICES ASSUME NEW s \in DOMAIN slots
               PROVE  /\ s < FirstUntyped => slots'[s] = [type |-> "BOOT"]
                      /\ s >= FirstUntyped + (n + d) => slots'[s] = Empty
    BY <1>15
  <2>1. s < FirstUntyped \/ s >= FirstUntyped + (n + d) => ~(s - FirstUntyped + 1 \in 1..(n + d))
    BY <1>2, <1>3, <1>6, <1>10
  <2>2. s >= FirstUntyped + (n + d) => s >= FirstUntyped
    BY <1>2, <1>3, <1>6, <1>10
  <2> QED BY <1>3, <1>15, <2>1, <2>2
<1>19. /\ SameFrames(regions, regions')
       /\ \A i \in 1..Len(regions) : regions'[i].in_kernel_use = regions[i].in_kernel_use
       /\ \A i \in 1..Len(regions) : regions'[i].in_user_use =>
                                       regions[i].in_user_use \/ ~regions[i].in_kernel_use
  BY <1>1, <1>4 DEF HandsOut
<1>20. WellCut(regions', map')
  BY <1>1, <1>3, <1>19, FramesStayCut
<1>21. Exclusive(regions')
  BY <1>3, <1>19 DEF Exclusive, SameFrames
<1>22. PagesTaken(pages', regions')
  BY <1>1, <1>3, <1>19 DEF PagesTaken, SameFrames
<1>23. \E k : Handed(k)'
  <2>1. \A k : C(k).badge = 0
    BY DEF C, BootCap, UntypedCap
  <2> HIDE DEF C
  <2>2. ASSUME NEW s \in FirstUntyped..(FirstUntyped + (n + d) - 1) PROVE slots'[s].badge = 0
    <3>1. s \in DOMAIN slots /\ s - FirstUntyped + 1 \in 1..(n + d)
      BY <1>2, <1>3, <1>4, <1>6, <1>10
    <3> QED BY <1>15, <2>1, <3>1
  <2> QED BY <1>17, <1>18, <2>2 DEF Handed
<1> QED BY <1>1, <1>3, <1>15, <1>18, <1>20, <1>21, <1>22, <1>23 DEF MInv


(* In the first program a capability is written into slots that are empty, *)
(* or the badge of one changes.                                            *)
LEMMA WritesKeep ==
  ASSUME MInv, phase = "user", phase' = "user", info' = info,
         UNCHANGED <<map, devices, regions, pages>>, clobbered' = {},
         DOMAIN slots' = DOMAIN slots, bitmap \subseteq bitmap',
         \A s \in DOMAIN slots : \/ slots'[s] = slots[s]
                                 \/ \E x : slots'[s] = [slots[s] EXCEPT !.badge = x]
                                 \/ s \notin bitmap /\ s \in bitmap'
  PROVE  MInv'
<1>1. /\ Granted(slots, regions, map, Len(info))
      /\ \A s \in DOMAIN slots : slots[s] # Empty => s \in bitmap
      /\ DOMAIN slots = 0..(CNodeSlots - 1)
      /\ \A s \in DOMAIN slots : s < FirstUntyped => slots[s] = [type |-> "BOOT"]
  BY DEF MInv
<1>2. CNodeSlots \in Nat /\ FirstUntyped \in Nat /\ FirstUntyped <= CNodeSlots
  BY MemoryAssumption
<1>3. \A s \in DOMAIN slots : slots[s] # Empty =>
        slots'[s] = slots[s] \/ \E x : slots'[s] = [slots[s] EXCEPT !.badge = x]
  BY <1>1
<1>4. [type |-> "BOOT"] # Empty
  BY DEF Empty
<1>5. \A s \in DOMAIN slots' : s < FirstUntyped => slots'[s] = [type |-> "BOOT"]
  BY <1>1, <1>3, <1>4, BadgeApart
<1>6. \A c : IsUntypedCap(c) => c # Empty
  <2> SUFFICES ASSUME NEW c, IsUntypedCap(c), c = Empty PROVE FALSE
    OBVIOUS
  <2>1. c.type = "UNTYPED"
    BY DEF IsUntypedCap
  <2>2. c.type = "NULL"
    BY DEF Empty
  <2> QED BY <2>1, <2>2
<1>7. ASSUME NEW s \in FirstUntyped..(FirstUntyped + Len(info) - 1)
      PROVE  /\ IsUntypedCap(slots'[s])
             /\ slots'[s].base = slots[s].base /\ slots'[s].size = slots[s].size
             /\ slots'[s].device = slots[s].device
  <2>1. IsUntypedCap(slots[s])
    BY <1>1 DEF Granted
  <2>2. Len(info) \in Nat /\ FirstUntyped + Len(info) <= CNodeSlots
    BY <1>1 DEF Granted
  <2>3. s \in DOMAIN slots
    BY <1>1, <1>2, <2>2
  <2>4. slots'[s] = slots[s] \/ \E x : slots'[s] = [slots[s] EXCEPT !.badge = x]
    BY <1>3, <1>6, <2>1, <2>3
  <2>5. \A c, d, x : IsUntypedCap(c) /\ d = [c EXCEPT !.badge = x] =>
          /\ IsUntypedCap(d)
          /\ d.base = c.base /\ d.size = c.size /\ d.device = c.device
    BY BadgeApart
  <2>6. CASE slots'[s] = slots[s]
    BY <2>1, <2>6
  <2>7. ASSUME NEW x, slots'[s] = [slots[s] EXCEPT !.badge = x]
        PROVE  /\ IsUntypedCap(slots'[s])
               /\ slots'[s].base = slots[s].base /\ slots'[s].size = slots[s].size
               /\ slots'[s].device = slots[s].device
    BY <2>1, <2>5, <2>7, ZenonT(40)
  <2> QED BY <2>4, <2>6, <2>7
<1>8. Granted(slots', regions', map', Len(info'))
  BY <1>1, <1>7, GrantsStay
<1>9. ASSUME NEW s \in DOMAIN slots', slots'[s] # Empty PROVE s \in bitmap'
  <2>1. CASE slots[s] = Empty
    <3>1. \A x : [slots[s] EXCEPT !.badge = x] = Empty
      BY <2>1, BadgeApart
    <3> QED BY <1>9, <2>1, <3>1
  <2>2. CASE slots[s] # Empty
    BY <1>1, <1>9, <2>2
  <2> QED BY <2>1, <2>2
<1> QED BY <1>1, <1>5, <1>8, <1>9 DEF MInv

(* allocate writes only the run of clear slots it was given, or nothing. *)
LEMMA AllocateKeeps ==
  ASSUME MInv, NEW u, NEW kind \in Kinds, Allocate(u, kind)
  PROVE  MInv'
<1> DEFINE got == cptr_alloc_range(bitmap, kind.num)
           run == RunAt(got.cptr, kind.num)
<1>1. /\ phase = "user" /\ phase' = "user" /\ info' = info
      /\ UNCHANGED <<map, devices, regions, pages>>
      /\ bitmap' = got.bitmap /\ Retype(u, kind, got.cptr)
  BY DEF Allocate
<1>2. kind.num \in Nat
  BY MemoryAssumption
<1>3. /\ bitmap \subseteq got.bitmap
      /\ got.cptr # NoCptr => /\ got.cptr \in Nat /\ run \cap bitmap = {}
                             /\ got.bitmap = bitmap \cup run
  BY <1>2, RangeIsFree, RangeKeeps
<1>4. /\ clobbered = {} /\ DOMAIN slots = 0..(CNodeSlots - 1)
      /\ \A s \in DOMAIN slots : slots[s] # Empty => s \in bitmap
  BY <1>1 DEF MInv
<1> HIDE DEF got
<1>5. CASE UNCHANGED <<slots, objects, clobbered>>
  BY <1>1, <1>3, <1>4, <1>5, WritesKeep
<1>6. CASE ~UNCHANGED <<slots, objects, clobbered>>
  <2> DEFINE cap == slots[u]
             size == object_size(kind.type, kind.size_bits)
             b == NewBadge(cap, size, kind.num)
             New(i) == [type |-> kind.type, base |-> ObjectAddr(cap, size, i), size |-> size]
             W(s) == IF kind.type = "UNTYPED"
                       THEN UntypedCap(New(s - got.cptr).base, size, FALSE)
                       ELSE New(s - got.cptr)
  <2>1. /\ got.cptr # NoCptr /\ got.cptr + kind.num <= CNodeSlots
        /\ slots' = [s \in DOMAIN slots |-> CASE s = u -> [cap EXCEPT !.badge = b]
                                              [] s \in run -> W(s)
                                              [] OTHER -> slots[s]]
        /\ clobbered' = clobbered \cup {s \in run : slots[s] # Empty}
    BY <1>1, <1>6 DEF Retype, InRange
  <2> HIDE DEF b, W
  <2>2. DOMAIN slots' = DOMAIN slots
    BY <2>1
  <2>3. ASSUME NEW s \in DOMAIN slots
        PROVE  \/ slots'[s] = slots[s]
               \/ \E x : slots'[s] = [slots[s] EXCEPT !.badge = x]
               \/ s \notin bitmap /\ s \in bitmap'
    <3>1. CASE s = u /\ s \notin run
      <4>1. slots'[s] = [slots[s] EXCEPT !.badge = b]
        BY <2>1, <3>1, Zenon
      <4> QED BY <4>1
    <3>2. CASE s \in run
      BY <1>1, <1>3, <2>1, <3>2
    <3>3. CASE s # u /\ s \notin run
      BY <2>1, <3>3
    <3> QED BY <3>1, <3>2, <3>3
  <2>4. \A s \in run : slots[s] = Empty
    <3>1. CNodeSlots \in Nat
      BY MemoryAssumption
    <3>2. \A s \in run : s \in DOMAIN slots
      BY <1>2, <1>3, <1>4, <2>1, <3>1 DEF RunAt
    <3> QED BY <1>3, <1>4, <2>1, <3>2
  <2>5. clobbered' = {}
    BY <1>4, <2>1, <2>4
  <2> QED BY <1>1, <1>3, <2>2, <2>3, <2>5, WritesKeep
<1> QED BY <1>5, <1>6

(* A port capability goes into a clear slot. *)
LEMMA IssuePortKeeps == MInv /\ IssuePort => MInv'
<1> SUFFICES ASSUME MInv, IssuePort PROVE MInv'
  OBVIOUS
<1> DEFINE got == cptr_alloc(bitmap)
<1>1. /\ phase = "user" /\ phase' = "user" /\ info' = info
      /\ UNCHANGED <<map, devices, regions, pages>>
      /\ bitmap' = got.bitmap
      /\ IF got.cptr # NoCptr /\ got.cptr < CNodeSlots
           THEN /\ slots' = [slots EXCEPT ![got.cptr] = [type |-> "IO_PORT"]]
                /\ clobbered' = IF slots[got.cptr] # Empty THEN clobbered \cup {got.cptr}
                                ELSE clobbered
           ELSE UNCHANGED <<slots, clobbered>>
  BY DEF IssuePort
<1>2. /\ bitmap \subseteq got.bitmap
      /\ got.cptr # NoCptr =>
           got.cptr \in Nat /\ got.cptr \notin bitmap /\ got.cptr \in got.bitmap
  BY SlotIsFree, SlotKeeps
<1>3. /\ clobbered = {} /\ DOMAIN slots = 0..(CNodeSlots - 1)
      /\ \A s \in DOMAIN slots : slots[s] # Empty => s \in bitmap
  BY <1>1 DEF MInv
<1> HIDE DEF got
<1>4. CASE got.cptr # NoCptr /\ got.cptr < CNodeSlots
  <2>1. got.cptr \in DOMAIN slots
    <3>1. CNodeSlots \in Nat
      BY MemoryAssumption
    <3> QED BY <1>2, <1>3, <1>4, <3>1
  <2>2. clobbered' = {}
    BY <1>1, <1>2, <1>3, <1>4, <2>1
  <2>3. DOMAIN slots' = DOMAIN slots
    BY <1>1, <1>4
  <2>4. \A s \in DOMAIN slots : slots'[s] = slots[s] \/ s = got.cptr
    BY <1>1, <1>4
  <2>5. \A s \in DOMAIN slots : \/ slots'[s] = slots[s]
                                \/ \E x : slots'[s] = [slots[s] EXCEPT !.badge = x]
                                \/ s \notin bitmap /\ s \in bitmap'
    BY <1>1, <1>2, <1>4, <2>4
  <2> QED BY <1>1, <1>2, <2>2, <2>3, <2>5, WritesKeep
<1>5. CASE ~(got.cptr # NoCptr /\ got.cptr < CNodeSlots)
  BY <1>1, <1>2, <1>3, <1>5, WritesKeep
<1> QED BY <1>4, <1>5

(* Every state of the specification has the invariant. *)
LEMMA Invariance == Spec => []MInv
<1>1. MInv /\ [Next]_vars => MInv'
  <2> SUFFICES ASSUME MInv, [Next]_vars PROVE MInv'
    OBVIOUS
  <2>1. CASE InitPageMmap
    BY <2>1, InitPageMmapKeeps
  <2>2. CASE AllocPage
    BY <2>2, AllocPageKeeps
  <2>3. CASE CreateBootTcb
    BY <2>3, CreateBootTcbKeeps
  <2>4. CASE StartUserland
    BY <2>4, StartUserlandKeeps
  <2>5. CASE \E u \in Sources, kind \in Kinds : Allocate(u, kind)
    BY <2>5, AllocateKeeps
  <2>6. CASE IssuePort
    BY <2>6, IssuePortKeeps
  <2>7. CASE UNCHANGED vars
    BY <2>7 DEF vars, MInv, Handed
  <2> QED BY <2>1, <2>2, <2>3, <2>4, <2>5, <2>6, <2>7 DEF Next, Other
<1> QED BY <1>1, InitEstablishes, PTL DEF Spec

(* The slots the allocator of the first program (lib/cptr_alloc.c) hands   *)
(* out for new capabilities are empty: the kernel, which writes them       *)
(* without looking, never overwrites a capability, whatever the width of   *)
(* the bitmap's words and in whatever order single slots and runs are      *)
(* allocated.                                                              *)
THEOREM SlotsAreEmpty == Spec => []SlotsWereEmpty
<1>1. MInv => SlotsWereEmpty
  BY DEF MInv, SlotsWereEmpty
<1> QED BY <1>1, Invariance, PTL


(* The pages of a region are usable memory. *)
LEMMA RegionsAreUsable ==
  ASSUME MInv, NEW i \in 1..Len(regions)
  PROVE  /\ regions[i].addr \in Nat /\ regions[i].size \in Nat \ {0}
         /\ (regions[i].addr * PageSize)..((regions[i].addr + regions[i].size) * PageSize - 1)
              \subseteq Usable
<1> DEFINE a == regions[i].addr
           z == regions[i].size
<1>1. WellCut(regions, map) /\ map \in Maps
  BY DEF MInv
<1>2. a \in Nat /\ z \in Nat \ {0}
  <2>1. regions[i] \in RegionRecords
    BY <1>1 DEF WellCut
  <2> QED BY <2>1, RegionNumbers
<1>3. PICK e \in DOMAIN map : map[e].usable /\ map[e].start <= a
                              /\ a + z <= map[e].start + map[e].len
  BY <1>1 DEF WellCut
<1> DEFINE b == map[e].start
           y == map[e].len
<1>4. b \in Nat /\ y \in Nat
  <2>1. map \in Seq(Entries)
    BY <1>1, MemoryAssumption
  <2>2. map[e] \in Entries
    BY <2>1
  <2> QED BY <2>2 DEF Entries
<1>5. (b * PageSize)..((b + y) * PageSize - 1) \subseteq Usable
  BY <1>3 DEF Usable
<1>6. b <= a /\ a + z <= b + y
  BY <1>3
<1> HIDE DEF a, z, b, y
<1>7. /\ b * PageSize \in Nat /\ a * PageSize \in Nat /\ b * PageSize <= a * PageSize
      /\ (a + z) * PageSize \in Nat /\ (b + y) * PageSize \in Nat
      /\ (a + z) * PageSize <= (b + y) * PageSize
  <2>1. a + z \in Nat /\ b + y \in Nat
    BY <1>2, <1>4
  <2> QED BY <1>2, <1>4, <1>6, <2>1, Scaled
<1>8. (a * PageSize)..((a + z) * PageSize - 1) \subseteq (b * PageSize)..((b + y) * PageSize - 1)
  BY <1>7
<1>9. (a * PageSize)..((a + z) * PageSize - 1) \subseteq Usable
  BY <1>5, <1>8
<1> QED BY <1>2, <1>9 DEF a, z

(* A page the kernel took lies in a region of its own. *)
LEMMA PagesAreInRegions ==
  ASSUME MInv, NEW p \in pages
  PROVE  \E i \in 1..Len(regions) :
           /\ regions[i].in_kernel_use
           /\ PageSpan(p) \subseteq
                (regions[i].addr * PageSize)..((regions[i].addr + regions[i].size) * PageSize - 1)
<1>1. p \in Nat
  BY DEF MInv, PagesTaken
<1>2. PICK i \in 1..Len(regions) : /\ regions[i].in_kernel_use
                                   /\ regions[i].addr <= p
                                   /\ p < regions[i].addr + regions[i].size
  BY DEF MInv, PagesTaken
<1> DEFINE a == regions[i].addr
           z == regions[i].size
<1>3. a \in Nat /\ z \in Nat \ {0}
  BY RegionsAreUsable
<1>4. a <= p /\ p < a + z
  BY <1>2
<1> HIDE DEF a, z
<1>5. p + 1 \in Nat /\ a + z \in Nat /\ p + 1 <= a + z
  BY <1>1, <1>3, <1>4
<1>6. a * PageSize \in Nat /\ p * PageSize \in Nat /\ a * PageSize <= p * PageSize
  BY <1>1, <1>3, <1>4, Scaled
<1>7. /\ (p + 1) * PageSize \in Nat /\ (a + z) * PageSize \in Nat
      /\ (p + 1) * PageSize <= (a + z) * PageSize
  BY <1>5, Scaled
<1>8. PageSpan(p) \subseteq (a * PageSize)..((a + z) * PageSize - 1)
  BY <1>6, <1>7 DEF PageSpan
<1> QED BY <1>2, <1>8 DEF a, z

(* The memory of two regions does not overlap. *)
LEMMA RegionsApart ==
  ASSUME MInv, NEW i \in 1..Len(regions), NEW j \in 1..Len(regions), i # j
  PROVE  ((regions[i].addr * PageSize)..((regions[i].addr + regions[i].size) * PageSize - 1))
         \cap ((regions[j].addr * PageSize)..((regions[j].addr + regions[j].size) * PageSize - 1))
         = {}
<1> DEFINE a == regions[i].addr
           z == regions[i].size
           b == regions[j].addr
           y == regions[j].size
<1>1. a \in Nat /\ z \in Nat /\ b \in Nat /\ y \in Nat
  BY RegionsAreUsable
<1>2. a + z <= b \/ b + y <= a
  BY DEF MInv, WellCut
<1> HIDE DEF a, z, b, y
<1>3. a + z \in Nat /\ b + y \in Nat
  BY <1>1
<1>4. /\ a * PageSize \in Nat /\ b * PageSize \in Nat
      /\ (a + z) * PageSize \in Nat /\ (b + y) * PageSize \in Nat
  BY <1>1, <1>3, UntypedAssumption
<1>5. (a + z) * PageSize <= b * PageSize \/ (b + y) * PageSize <= a * PageSize
  BY <1>1, <1>2, <1>3, Scaled
<1>6. ((a * PageSize)..((a + z) * PageSize - 1)) \cap ((b * PageSize)..((b + y) * PageSize - 1)) = {}
  BY <1>4, <1>5
<1> QED BY <1>6 DEF a, z, b, y

(* Memory has one owner: what create_boot_tcb gives the first program as   *)
(* untyped capabilities is usable memory, naturally aligned, and neither   *)
(* shared between two of them, nor with a device, nor with a page the      *)
(* kernel took before or after; for every memory map whose usable entries  *)
(* are apart.                                                              *)
THEOREM MemoryHasOneOwner == Spec => []MemoryPartitioned
<1>1. MInv => MemoryPartitioned
  <2> SUFFICES ASSUME MInv, phase = "user" PROVE MemoryPartitioned
    BY DEF MemoryPartitioned
  <2> DEFINE n == Len(info)
             G == FirstUntyped..(FirstUntyped + n - 1)
  <2>1. /\ Granted(slots, regions, map, n)
        /\ DOMAIN slots = 0..(CNodeSlots - 1)
        /\ \A s \in DOMAIN slots : s < FirstUntyped => slots[s] = [type |-> "BOOT"]
    BY DEF MInv
  <2>2. n \in Nat /\ FirstUntyped \in Nat /\ CNodeSlots \in Nat
    BY <2>1, MemoryAssumption DEF Granted
  <2> HIDE DEF n
  <2>3. \A s \in UntypedSlots : s < FirstUntyped + n => s \in G
    <3>1. \A s \in UntypedSlots : s \in Nat /\ ~(s < FirstUntyped)
      BY <2>1 DEF UntypedSlots
    <3> QED BY <2>2, <3>1
  <2>4. \A s \in G : IsUntypedCap(slots[s]) /\ Owned(slots[s], regions, map)
    BY <2>1 DEF Granted
  <2>5. \A s, t \in G : s # t => Apart(slots[s], slots[t])
    BY <2>1 DEF Granted
  <2>6. \A s \in UntypedSlots : s \in Nat
    BY <2>1 DEF UntypedSlots
  <2> HIDE DEF G
  <2>7. \A c, d : IsUntypedCap(c) /\ IsUntypedCap(d) /\ Apart(c, d) => Span(c) \cap Span(d) = {}
    <3> SUFFICES ASSUME NEW c, NEW d, IsUntypedCap(c), IsUntypedCap(d), Apart(c, d)
                 PROVE  Span(c) \cap Span(d) = {}
      OBVIOUS
    <3>1. c.base \in Nat /\ c.size \in Nat /\ d.base \in Nat /\ d.size \in Nat
      BY DEF IsUntypedCap
    <3>2. c.base + c.size <= d.base \/ d.base + d.size <= c.base
      BY DEF Apart
    <3> QED BY ONLY <3>1, <3>2 DEF Span
  <2>8. \A s, t \in UntypedSlots :
          s < t /\ t < FirstUntyped + n => Span(slots[s]) \cap Span(slots[t]) = {}
    <3> SUFFICES ASSUME NEW s \in UntypedSlots, NEW t \in UntypedSlots,
                        s < t, t < FirstUntyped + n
                 PROVE  Span(slots[s]) \cap Span(slots[t]) = {}
      OBVIOUS
    <3>1. s < FirstUntyped + n /\ s # t
      BY <2>2, <2>6
    <3>2. s \in G /\ t \in G
      BY <2>3, <3>1
    <3> QED BY <2>4, <2>5, <2>7, <3>1, <3>2
  <2>9. ASSUME NEW c \in BootUntypeds
        PROVE  \E i \in 1..Len(regions) :
                 /\ regions[i].in_user_use
                 /\ Span(c) = (regions[i].addr * PageSize)
                              ..((regions[i].addr + regions[i].size) * PageSize - 1)
                 /\ c.base % c.size = 0
    <3>1. PICK t \in UntypedSlots : c = slots[t] /\ ~slots[t].device /\ t < FirstUntyped + n
      BY DEF BootUntypeds, n
    <3>2. Owned(c, regions, map) /\ ~c.device
      BY <2>3, <2>4, <3>1
    <3>3. PICK i \in 1..Len(regions) : /\ regions[i].in_user_use
                                       /\ c.base = regions[i].addr * PageSize
                                       /\ c.size = regions[i].size * PageSize
      BY <3>2 DEF Owned
    <3> DEFINE a == regions[i].addr
               z == regions[i].size
    <3>4. a \in Nat /\ z \in Nat \ {0} /\ a % z = 0
      BY RegionsAreUsable DEF MInv, WellCut
    <3>5. c.base = a * PageSize /\ c.size = z * PageSize
      BY <3>3
    <3> HIDE DEF a, z
    <3>6. PageSize \in Nat \ {0}
      BY UntypedAssumption
    <3>7. (a * PageSize) % (z * PageSize) = 0
      BY <3>4, <3>6, DivScaled
    <3>8. a * PageSize + z * PageSize = (a + z) * PageSize
      BY <3>4, <3>6
    <3>9. Span(c) = (a * PageSize)..((a + z) * PageSize - 1)
      <4>1. c.base + c.size = (a + z) * PageSize
        BY <3>5, <3>8
      <4>2. Span(c) = (c.base)..(c.base + c.size - 1)
        BY DEF Span
      <4>3. Span(c) = (c.base)..((a + z) * PageSize - 1)
        <5>1. c.base \in Nat /\ c.size \in Nat /\ (a + z) * PageSize \in Nat
          BY <3>4, <3>5, <3>6
        <5>2. \A x, y, w \in Nat : x + y = w => x..(x + y - 1) = x..(w - 1)
          OBVIOUS
        <5> QED BY ONLY <4>1, <4>2, <5>1, <5>2
      <4> QED BY ONLY <3>5, <4>3
    <3> QED BY <3>3, <3>5, <3>7, <3>9 DEF a, z
  <2>10. ASSUME NEW c \in BootUntypeds
         PROVE  /\ Span(c) \subseteq Usable
                /\ c.base % c.size = 0
                /\ \A p \in pages : PageSpan(p) \cap Span(c) = {}
    <3>1. PICK i \in 1..Len(regions) :
                 /\ regions[i].in_user_use
                 /\ Span(c) = (regions[i].addr * PageSize)
                              ..((regions[i].addr + regions[i].size) * PageSize - 1)
                 /\ c.base % c.size = 0
      BY <2>9
    <3>2. Span(c) \subseteq Usable
      BY <3>1, RegionsAreUsable
    <3>3. ASSUME NEW p \in pages PROVE PageSpan(p) \cap Span(c) = {}
      <4>1. PICK j \in 1..Len(regions) :
              /\ regions[j].in_kernel_use
              /\ PageSpan(p) \subseteq
                   (regions[j].addr * PageSize)..((regions[j].addr + regions[j].size) * PageSize - 1)
        BY PagesAreInRegions
      <4>2. i # j
        BY <3>1, <4>1 DEF MInv, Exclusive
      <4>3. ((regions[i].addr * PageSize)..((regions[i].addr + regions[i].size) * PageSize - 1))
            \cap ((regions[j].addr * PageSize)
                  ..((regions[j].addr + regions[j].size) * PageSize - 1)) = {}
        BY <4>2, RegionsApart
      <4> QED BY <3>1, <4>1, <4>3
    <3> QED BY <3>1, <3>2, <3>3
  <2>11. ASSUME NEW p \in pages PROVE PageSpan(p) \subseteq Usable
    BY PagesAreInRegions, RegionsAreUsable
  <2> QED BY <2>8, <2>10, <2>11 DEF MemoryPartitioned, n
<1> QED BY <1>1, Invariance, PTL


-----------------------------------------------------------------------------
(* Making objects out of untyped memory. *)

(* The sizes of objects and of untyped memory. *)
Sizes == {2 ^ i : i \in 0..30}

(* Of two sizes the smaller divides the larger. *)
LEMMA SizesDivide ==
  /\ Sizes \subseteq Nat \ {0} /\ {1, 2} \subseteq Sizes
  /\ \A a, b \in Sizes : a <= b => b % a = 0
  /\ \A i \in 2..8 : 2 ^ i \in Sizes /\ 2 * 2 ^ i \in Sizes /\ 2 ^ i \div 2 \in Sizes
  /\ \A z \in Powers, i \in 2..8 : z * 2 ^ i \in Sizes
<1>1. /\ 2^0 = 1 /\ 2^1 = 2 /\ 2^2 = 4 /\ 2^3 = 8 /\ 2^4 = 16 /\ 2^5 = 32 /\ 2^6 = 64
      /\ 2^7 = 128 /\ 2^8 = 256 /\ 2^9 = 512 /\ 2^10 = 1024 /\ 2^11 = 2048 /\ 2^12 = 4096
      /\ 2^13 = 8192 /\ 2^14 = 16384 /\ 2^15 = 32768 /\ 2^16 = 65536 /\ 2^17 = 131072
      /\ 2^18 = 262144 /\ 2^19 = 524288 /\ 2^20 = 1048576
  BY SMT
<1>2. /\ 2^21 = 2097152 /\ 2^22 = 4194304 /\ 2^23 = 8388608 /\ 2^24 = 16777216
      /\ 2^25 = 33554432 /\ 2^26 = 67108864 /\ 2^27 = 134217728 /\ 2^28 = 268435456
      /\ 2^29 = 536870912 /\ 2^30 = 1073741824
  BY SMT
<1>3. /\ 0..20 = {0, 1, 2, 3, 4, 5, 6, 7, 8, 9, 10, 11, 12, 13, 14, 15, 16, 17, 18, 19, 20}
      /\ 0..30 = 0..20 \cup {21, 22, 23, 24, 25, 26, 27, 28, 29, 30}
      /\ 2..8 = {2, 3, 4, 5, 6, 7, 8}
  BY SMT
<1>4. Powers = {1, 2, 4, 8, 16, 32, 64, 128, 256, 512, 1024, 2048, 4096, 8192, 16384, 32768,
                65536, 131072, 262144, 524288, 1048576}
  BY <1>1, <1>3, SMT DEF Powers
<1>5. Sizes = {1, 2, 4, 8, 16, 32, 64, 128, 256, 512, 1024, 2048, 4096, 8192, 16384, 32768,
               65536, 131072, 262144, 524288, 1048576, 2097152, 4194304, 8388608, 16777216,
               33554432, 67108864, 134217728, 268435456, 536870912, 1073741824}
  BY <1>1, <1>2, <1>3, SMTT(30) DEF Sizes
<1>6. ASSUME NEW i \in 2..8 PROVE 2 ^ i \in {4, 8, 16, 32, 64, 128, 256}
  <2>1. CASE i = 2
    BY <1>1, <2>1
  <2>2. CASE i = 3
    BY <1>1, <2>2
  <2>3. CASE i = 4
    BY <1>1, <2>3
  <2>4. CASE i = 5
    BY <1>1, <2>4
  <2>5. CASE i = 6
    BY <1>1, <2>5
  <2>6. CASE i = 7
    BY <1>1, <2>6
  <2>7. CASE i = 8
    BY <1>1, <2>7
  <2> QED BY <1>3, <2>1, <2>2, <2>3, <2>4, <2>5, <2>6, <2>7
<1>7. \A z \in Powers : \A p \in {4, 8, 16, 32, 64, 128, 256} : z * p \in Sizes
  BY ONLY <1>4, <1>5, SMTT(60)
<1>8. \A p \in {4, 8, 16, 32, 64, 128, 256} : p \in Sizes /\ 2 * p \in Sizes /\ p \div 2 \in Sizes
  BY ONLY <1>5, SMTT(60)
<1>9. /\ Sizes \subseteq Nat \ {0} /\ {1, 2} \subseteq Sizes
      /\ \A a, b \in Sizes : a <= b => b % a = 0
  BY ONLY <1>5, SMTT(60)
<1>10. ASSUME NEW i \in 2..8
       PROVE  /\ 2 ^ i \in Sizes /\ 2 * 2 ^ i \in Sizes /\ 2 ^ i \div 2 \in Sizes
              /\ \A z \in Powers : z * 2 ^ i \in Sizes
  <2>2. 2 ^ i \in {4, 8, 16, 32, 64, 128, 256}
    BY <1>6
  <2>1. PICK p \in {4, 8, 16, 32, 64, 128, 256} : p = 2 ^ i
    BY <2>2
  <2> QED BY <1>7, <1>8, <2>1
<1> QED BY <1>9, <1>10

(* A page and a region have such a size. *)
LEMMA PageSizes ==
  /\ PageSize \in Sizes /\ 2 * PageSize \in Sizes /\ PageSize \div 2 \in Sizes
  /\ \A z \in Powers : z * PageSize \in Sizes
<1>1. PICK i \in 2..8 : PageSize = 2 ^ i
  BY UntypedAssumption
<1> QED BY <1>1, SizesDivide

(* So has every object. *)
LEMMA ObjectSizes ==
  ASSUME NEW kind \in Kinds
  PROVE  object_size(kind.type, kind.size_bits) \in Sizes
<1>1. kind.type \in Types /\ kind.size_bits \in 0..29
  BY MemoryAssumption
<1>2. 2 ^ kind.size_bits \in Sizes
  <2>1. kind.size_bits \in 0..30
    BY <1>1
  <2> QED BY <2>1 DEF Sizes
<1>3. 2 ^ (kind.size_bits + 1) \in Sizes
  <2>1. kind.size_bits + 1 \in 0..30
    BY <1>1
  <2> QED BY <2>1 DEF Sizes
<1>4. {1, 2} \subseteq Sizes
  BY SizesDivide
<1>5. CASE kind.type = "ENDPOINT"
  BY <1>4, <1>5 DEF object_size
<1>6. CASE kind.type = "NOTIFICATION"
  BY <1>4, <1>6 DEF object_size
<1>7. CASE kind.type = "TCB"
  BY <1>7, PageSizes DEF object_size
<1>8. CASE kind.type = "CNODE"
  BY <1>3, <1>8 DEF object_size
<1>9. CASE kind.type = "UNTYPED"
  BY <1>2, <1>9 DEF object_size
<1>10. CASE kind.type = "HUGE_PAGE"
  BY <1>10, PageSizes DEF object_size
<1>11. CASE kind.type \in {"PML4", "PDPT", "PD", "PT", "PAGE"}
  BY <1>11, PageSizes DEF object_size
<1> QED BY <1>1, <1>5, <1>6, <1>7, <1>8, <1>9, <1>10, <1>11 DEF Types

(* ALIGN_UP is the least multiple that is not smaller. *)
LEMMA AlignUp ==
  ASSUME NEW x \in Nat, NEW a \in Nat \ {0}
  PROVE  /\ ALIGN_UP(x, a) \in Nat /\ ALIGN_UP(x, a) >= x /\ ALIGN_UP(x, a) % a = 0
         /\ \A y \in Nat : x <= y /\ y % a = 0 => ALIGN_UP(x, a) <= y
<1> DEFINE w == x + a - 1
           q == w \div a
<1>1. w \in Nat
  OBVIOUS
<1>2. q \in Nat /\ w = a * q + (w % a) /\ w % a \in Nat /\ w % a < a
  BY <1>1
<1>3. q * a \in Nat /\ q * a = a * q /\ (q * a) % a = 0
  BY <1>2
<1>4. ALIGN_UP(x, a) = q * a
  BY DEF ALIGN_UP
<1>7. w = x + a - 1
  OBVIOUS
<1> HIDE DEF q, w
<1>5. q * a >= x
  <2> DEFINE p == a * q
             e == w % a
  <2>1. p \in Nat /\ e \in Nat /\ w = p + e /\ e < a /\ q * a = p
    BY <1>2, <1>3
  <2> HIDE DEF p, e
  <2>2. p >= x
    BY ONLY <1>1, <1>7, <2>1, x \in Nat, a \in Nat \ {0}
  <2> QED BY <2>1, <2>2
<1>6. ASSUME NEW y \in Nat, x <= y, y % a = 0 PROVE q * a <= y
  <2>1. PICK r \in Nat : y = a * r
    BY <1>6, y = a * (y \div a) + (y % a)
  <2>2. CASE q <= r
    <3>1. PICK e \in Nat : r = q + e
      <4>1. r - q \in Nat /\ r = q + (r - q)
        BY <1>2, <2>2
      <4> QED BY <4>1
    <3>2. a * r = a * q + a * e /\ a * e \in Nat
      BY <1>2, <3>1
    <3> QED BY <1>3, <2>1, <3>2
  <2>3. CASE r < q
    <3>1. PICK e \in Nat : q = r + 1 + e
      <4>1. q - r - 1 \in Nat /\ q = r + 1 + (q - r - 1)
        BY <1>2, <2>3
      <4> QED BY <4>1
    <3>2. a * q = a * r + a + a * e /\ a * e \in Nat
      BY <1>2, <3>1
    <3>3. a * q <= w /\ a * r >= x /\ a * q \in Nat /\ a * r \in Nat
      BY <1>2, <1>3, <1>6, <2>1
    <3> QED BY ONLY <1>1, <1>7, <3>2, <3>3, x \in Nat, a \in Nat \ {0}
  <2> QED BY <1>2, <2>2, <2>3
<1> QED BY <1>3, <1>4, <1>5, <1>6

(* The subtraction of words never returns more than the difference. *)
LEMMA MinusBounds ==
  ASSUME NEW x \in Nat, NEW y \in Nat, y <= x
  PROVE  Minus(x, y) \in Nat /\ Minus(x, y) <= x - y
<1>1. MachineWord \in Nat \ {0}
  BY UntypedAssumption
<1> DEFINE m == MachineWord
           v == x + m - y
           q == v \div m
<1>2. v \in Nat /\ v = (x - y) + m /\ x - y \in Nat
  BY <1>1
<1>3. q \in Nat /\ v = m * q + (v % m) /\ v % m \in Nat /\ v % m < m
  BY <1>1, <1>2
<1>4. Minus(x, y) = v % m
  BY DEF Minus
<1>6. m \in Nat \ {0}
  BY <1>1
<1> HIDE DEF q, v, m
<1>5. v % m <= x - y
  <2>1. q # 0
    <3> SUFFICES ASSUME q = 0 PROVE FALSE
      OBVIOUS
    <3>1. m * q = 0
      BY <1>6
    <3> QED BY ONLY <1>2, <1>3, <1>6, <3>1
  <2>2. PICK e \in Nat : q = 1 + e
    <3>1. q - 1 \in Nat /\ q = 1 + (q - 1)
      BY <1>3, <2>1
    <3> QED BY <3>1
  <2>3. m * q = m + m * e /\ m * e \in Nat
    BY <1>6, <2>2
  <2> QED BY ONLY <1>2, <1>3, <1>6, <2>3
<1> QED BY <1>3, <1>4, <1>5


(* A number that a divides is a multiple of a, and the other way round. *)
LEMMA Multiple ==
  ASSUME NEW a \in Nat \ {0}, NEW x \in Nat
  PROVE  /\ x % a = 0 => \E q \in Nat : x = a * q
         /\ (a * x) % a = 0
<1>1. ASSUME x % a = 0 PROVE \E q \in Nat : x = a * q
  <2>1. x = a * (x \div a) + (x % a) /\ x \div a \in Nat
    OBVIOUS
  <2>2. x = a * (x \div a)
    BY <1>1, <2>1
  <2> QED BY <2>1, <2>2
<1>2. (a * x) % a = 0
  OBVIOUS
<1> QED BY <1>1, <1>2

(* The sum of multiples is a multiple. *)
LEMMA DivSum ==
  ASSUME NEW a \in Nat \ {0}, NEW x \in Nat, NEW y \in Nat, NEW i \in Nat, x % a = 0, y % a = 0
  PROVE  (x + y + i * a) % a = 0
<1>1. PICK q \in Nat : x = a * q
  BY Multiple
<1>2. PICK r \in Nat : y = a * r
  BY Multiple
<1> DEFINE s == q + r + i
<1>3. x + y + i * a = a * s /\ s \in Nat
  BY <1>1, <1>2
<1> HIDE DEF s
<1>4. (a * s) % a = 0
  BY <1>3, Multiple
<1> QED BY ONLY <1>3, <1>4

(* A larger factor gives a product that is larger by at least one unit. *)
LEMMA TimesGrows ==
  ASSUME NEW z \in Nat, NEW i \in Nat, NEW j \in Nat, i < j
  PROVE  i * z \in Nat /\ j * z \in Nat /\ i * z + z <= j * z
<1>1. PICK e \in Nat : j = i + 1 + e
  <2>1. j - i - 1 \in Nat /\ j = i + 1 + (j - i - 1)
    OBVIOUS
  <2> QED BY <2>1
<1>2. j * z = i * z + z + e * z /\ e * z \in Nat /\ i * z \in Nat
  BY <1>1
<1> QED BY <1>2

(* The memory of an untyped capability that is not handed out yet starts   *)
(* at its badge.  A retype that fits takes its objects from there, one     *)
(* after the other and aligned, and moves the badge behind them.           *)
LEMMA RetypeFits ==
  ASSUME NEW c, c.base \in Nat, c.size \in Sizes, c.base % c.size = 0,
         c.badge \in Nat, c.badge <= c.size,
         NEW z \in Sizes, z <= c.size, NEW num \in Nat, Enough(c, z, num)
  PROVE  /\ NewBadge(c, z, num) \in Nat /\ c.badge <= NewBadge(c, z, num)
         /\ NewBadge(c, z, num) <= c.size
         /\ \A i \in 0..(num - 1) :
              /\ ObjectAddr(c, z, i) \in Nat /\ ObjectAddr(c, z, i) % z = 0
              /\ c.base + c.badge <= ObjectAddr(c, z, i)
              /\ ObjectAddr(c, z, i) + z <= c.base + NewBadge(c, z, num)
         /\ \A i, j \in 0..(num - 1) :
              i < j => ObjectAddr(c, z, i) + z <= ObjectAddr(c, z, j)
<1> DEFINE off == ALIGN_UP(c.badge, z)
           nb == NewBadge(c, z, num)
           A(i) == ObjectAddr(c, z, i)
<1>1. z \in Nat \ {0} /\ c.size \in Nat \ {0} /\ c.size % z = 0
  BY SizesDivide
<1>2. off \in Nat /\ c.badge <= off /\ off % z = 0 /\ off <= c.size
  BY <1>1, AlignUp
<1>3. num * z \in Nat /\ z * num = num * z
  BY <1>1
<1>4. num * z <= c.size - off
  <2>1. Minus(c.size, off) \in Nat /\ Minus(c.size, off) <= c.size - off
    BY <1>1, <1>2, MinusBounds
  <2>2. Minus(c.size, off) >= z * num
    BY DEF Enough, available_memory, untyped_offset
  <2> QED BY ONLY <1>1, <1>2, <1>3, <2>1, <2>2
<1>5. nb = off + num * z
  BY <1>3 DEF NewBadge, untyped_offset
<1>6. \A i : A(i) = c.base + off + i * z
  BY DEF ObjectAddr, untyped_offset
<1>7. c.base % z = 0
  BY <1>1, DivTransitive
<1> HIDE DEF off, nb, A
<1>8. nb \in Nat /\ c.badge <= nb /\ nb <= c.size
  BY <1>1, <1>2, <1>3, <1>4, <1>5
<1>9. ASSUME NEW i \in 0..(num - 1)
      PROVE  /\ A(i) \in Nat /\ A(i) % z = 0
             /\ c.base + c.badge <= A(i) /\ A(i) + z <= c.base + nb
  <2>1. i \in Nat /\ i < num
    OBVIOUS
  <2>2. i * z \in Nat /\ i * z + z <= num * z
    BY <1>1, <2>1, TimesGrows
  <2>3. A(i) = c.base + off + i * z
    BY <1>6
  <2>4. A(i) % z = 0
    <3>1. (c.base + off + i * z) % z = 0
      BY <1>1, <1>2, <1>7, <2>1, DivSum
    <3> QED BY ONLY <2>3, <3>1
  <2>5. /\ A(i) \in Nat
        /\ c.base + c.badge <= A(i) /\ A(i) + z <= c.base + nb
    BY ONLY <1>1, <1>2, <1>3, <1>5, <2>2, <2>3, c.base \in Nat, c.badge \in Nat
  <2> QED BY <2>4, <2>5
<1>10. ASSUME NEW i \in 0..(num - 1), NEW j \in 0..(num - 1), i < j
       PROVE  A(i) + z <= A(j)
  <2>1. i * z \in Nat /\ j * z \in Nat /\ i * z + z <= j * z
    BY <1>1, <1>10, TimesGrows
  <2>2. A(i) = c.base + off + i * z /\ A(j) = c.base + off + j * z
    BY <1>6
  <2> QED BY ONLY <1>1, <1>2, <2>1, <2>2, c.base \in Nat
<1> QED BY <1>8, <1>9, <1>10 DEF nb, A


-----------------------------------------------------------------------------
(* Objects.  Untyped capabilities are looked at through the part of their  *)
(* memory that is not handed out yet, from base + badge on.                *)

(* The capabilities for memory that objects are made of. *)
Stock(cs) == {s \in DOMAIN cs : cs[s].type = "UNTYPED" /\ ~cs[s].device}

(* The slots of the first n untyped capabilities, without the devices'. *)
Given(cs, n) == {t \in FirstUntyped..(FirstUntyped + n - 1) : ~cs[t].device}

(* x lies inside y. *)
Within(x, y) == y.base <= x.base /\ x.base + x.size <= y.base + y.size

(* x lies outside the part of c that is not handed out yet. *)
Outside(x, c) == x.base + x.size <= c.base + c.badge \/ c.base + c.size <= x.base

StockSound(cs, n) ==
  \A s \in Stock(cs) :
    /\ IsUntypedCap(cs[s]) /\ cs[s].size \in Sizes
    /\ cs[s].base % cs[s].size = 0
    /\ cs[s].badge \in Nat /\ cs[s].badge <= cs[s].size
    /\ \E t \in Given(cs, n) : Within(cs[s], cs[t])

(* Of two capabilities one lies outside what is left of the other. *)
StockApart(cs) ==
  \A s, t \in Stock(cs) : s # t => Outside(cs[s], cs[t]) \/ Outside(cs[t], cs[s])

ObjectsSound(os, cs, n) ==
  \A o \in os :
    /\ o.base \in Nat /\ o.size \in Nat \ {0} /\ o.base % o.size = 0
    /\ \E t \in Given(cs, n) : Within(o, cs[t])

(* What is left of a capability meets no object, except an untyped that    *)
(* the capability lies in.                                                 *)
ObjectsOutside(os, cs) ==
  \A o \in os, s \in Stock(cs) :
    Outside(o, cs[s]) \/ (o.type = "UNTYPED" /\ Within(cs[s], o))

ObjectsApart(os) ==
  \A o, p \in os : o # p => \/ Apart(o, p)
                            \/ o.type = "UNTYPED" /\ Within(p, o)
                            \/ p.type = "UNTYPED" /\ Within(o, p)

Divided(os, cs, n) ==
  /\ StockSound(cs, n) /\ StockApart(cs)
  /\ ObjectsSound(os, cs, n) /\ ObjectsOutside(os, cs) /\ ObjectsApart(os)

(* The invariant of the objects. *)
OInv == /\ phase # "user" => objects = {}
        /\ phase = "user" => Divided(objects, slots, Len(info))

(* What a retype does to the slots: the badge of u moves to nb, and the    *)
(* slots run get what lies at the addresses a behind the old badge.        *)
Retyped(cs, ds, u, run, a, z, type, nb) ==
  /\ DOMAIN ds = DOMAIN cs /\ run \subseteq DOMAIN cs /\ u \notin run
  /\ z \in Sizes /\ nb \in Nat /\ cs[u].badge <= nb /\ nb <= cs[u].size
  /\ \A s \in run : /\ a[s] \in Nat /\ a[s] % z = 0
                    /\ cs[u].base + cs[u].badge <= a[s] /\ a[s] + z <= cs[u].base + nb
  /\ \A s, t \in run : s # t => a[s] + z <= a[t] \/ a[t] + z <= a[s]
  /\ ds[u] = [cs[u] EXCEPT !.badge = nb]
  /\ \A s \in run : ds[s] = IF type = "UNTYPED" THEN UntypedCap(a[s], z, FALSE)
                            ELSE [type |-> type, base |-> a[s], size |-> z]
  /\ \A s \in DOMAIN cs : s # u /\ s \notin run => ds[s] = cs[s]

(* The slots run hold no memory, and the first n untypeds are there. *)
Vacant(run, cs, n) ==
  /\ \A s \in run : s \notin Stock(cs) /\ s \notin FirstUntyped..(FirstUntyped + n - 1)
  /\ FirstUntyped..(FirstUntyped + n - 1) \subseteq DOMAIN cs
  /\ \A t \in Given(cs, n) : IsUntypedCap(cs[t])

(* What is known of the capabilities after a retype. *)
Written(cs, ds, n, u, run, a, z, type, nb) ==
  /\ IsUntypedCap(ds[u]) /\ ds[u].base = cs[u].base /\ ds[u].size = cs[u].size
  /\ ds[u].badge = nb
  /\ \A s \in run : /\ ds[s].base = a[s] /\ ds[s].size = z
                    /\ type = "UNTYPED" => IsUntypedCap(ds[s]) /\ ds[s].badge = 0
  /\ \A s \in Stock(cs) : s # u => ds[s] = cs[s]
  /\ \A s \in Stock(ds) : s \in Stock(cs) \/ (s \in run /\ type = "UNTYPED")
  /\ \A t \in Given(cs, n) : /\ t \in Given(ds, n)
                             /\ ds[t].base = cs[t].base /\ ds[t].size = cs[t].size

(* A retype writes as much. *)
LEMMA RetypedSlots ==
  ASSUME NEW cs, NEW ds, NEW n, NEW u, u \in Stock(cs), NEW run, NEW a, NEW z, NEW type, NEW nb,
         StockSound(cs, n), Retyped(cs, ds, u, run, a, z, type, nb), Vacant(run, cs, n)
  PROVE  Written(cs, ds, n, u, run, a, z, type, nb)
<1>1. /\ IsUntypedCap(cs[u]) /\ cs[u].type = "UNTYPED" /\ ~cs[u].device
  BY DEF StockSound, Stock
<1>2. PICK b : cs[u] = [type |-> "UNTYPED", base |-> cs[u].base, size |-> cs[u].size,
                        badge |-> b, device |-> cs[u].device]
  BY <1>1 DEF IsUntypedCap
<1>3. ds[u] = [cs[u] EXCEPT !.badge = nb]
  BY DEF Retyped
<1>4. ds[u] = [type |-> "UNTYPED", base |-> cs[u].base, size |-> cs[u].size,
               badge |-> nb, device |-> cs[u].device]
  BY <1>2, <1>3
<1>5. /\ IsUntypedCap(ds[u]) /\ ds[u].base = cs[u].base /\ ds[u].size = cs[u].size
      /\ ds[u].badge = nb /\ ds[u].type = "UNTYPED" /\ ds[u].device = cs[u].device
  <2>1. /\ ds[u].base = cs[u].base /\ ds[u].size = cs[u].size
        /\ ds[u].badge = nb /\ ds[u].type = "UNTYPED" /\ ds[u].device = cs[u].device
    BY <1>4
  <2> QED BY <1>1, <1>4, <2>1 DEF IsUntypedCap
<1>6. ASSUME NEW s \in run
      PROVE  /\ ds[s].base = a[s] /\ ds[s].size = z
             /\ type = "UNTYPED" => IsUntypedCap(ds[s]) /\ ds[s].badge = 0
             /\ type # "UNTYPED" => ds[s].type # "UNTYPED"
  <2>1. /\ ds[s] = IF type = "UNTYPED" THEN UntypedCap(a[s], z, FALSE)
                   ELSE [type |-> type, base |-> a[s], size |-> z]
        /\ a[s] \in Nat /\ z \in Nat \ {0}
    BY SizesDivide DEF Retyped
  <2>2. CASE type = "UNTYPED"
    <3>1. ds[s] = [type |-> "UNTYPED", base |-> a[s], size |-> z, badge |-> 0, device |-> FALSE]
      BY <2>1, <2>2 DEF UntypedCap
    <3>2. ds[s].base = a[s] /\ ds[s].size = z /\ ds[s].badge = 0 /\ ds[s].device = FALSE
      BY <3>1
    <3> QED BY <2>1, <2>2, <3>1, <3>2 DEF IsUntypedCap
  <2>3. CASE type # "UNTYPED"
    <3>1. ds[s] = [type |-> type, base |-> a[s], size |-> z]
      BY <2>1, <2>3
    <3> QED BY <2>3, <3>1
  <2> QED BY <2>2, <2>3
<1>7. \A s \in DOMAIN cs : s # u /\ s \notin run => ds[s] = cs[s]
  BY DEF Retyped
<1>8. \A s \in Stock(cs) : s # u => ds[s] = cs[s]
  <2>1. \A s \in Stock(cs) : s \in DOMAIN cs /\ s \notin run
    BY DEF Stock, Vacant
  <2> QED BY <1>7, <2>1
<1>9. ASSUME NEW s \in Stock(ds) PROVE s \in Stock(cs) \/ (s \in run /\ type = "UNTYPED")
  <2>1. s \in DOMAIN cs /\ ds[s].type = "UNTYPED" /\ ~ds[s].device
    BY DEF Stock, Retyped
  <2>2. CASE s \in run
    BY <1>6, <2>1, <2>2
  <2>3. CASE s \notin run /\ s # u
    BY <1>7, <2>1, <2>3 DEF Stock
  <2> QED BY <2>2, <2>3
<1>10. ASSUME NEW t \in Given(cs, n)
       PROVE  /\ t \in Given(ds, n) /\ ds[t].base = cs[t].base /\ ds[t].size = cs[t].size
  <2>1. t \in FirstUntyped..(FirstUntyped + n - 1) /\ ~cs[t].device
    BY DEF Given
  <2>2. t \in DOMAIN cs /\ t \notin run
    BY <2>1 DEF Vacant
  <2>3. CASE t = u
    BY <1>5, <2>1, <2>3 DEF Given
  <2>4. CASE t # u
    BY <1>7, <2>1, <2>2, <2>4 DEF Given
  <2> QED BY <2>3, <2>4
<1> QED BY <1>5, <1>6, <1>8, <1>9, <1>10 DEF Written


(* A piece x of what is left of the capability c: what lies outside is     *)
(* apart from x, what c lies in or outside of x lies in or outside of.     *)
LEMMA PieceOf ==
  ASSUME NEW c, NEW x, NEW o, NEW nb \in Nat,
         c.base \in Nat, c.size \in Nat, c.badge \in Nat, nb <= c.size,
         x.base \in Nat, x.size \in Nat, o.base \in Nat, o.size \in Nat,
         c.base + c.badge <= x.base, x.base + x.size <= c.base + nb
  PROVE  /\ Within(x, c)
         /\ Outside(o, c) => Apart(o, x)
         /\ Within(c, o) => Within(x, o)
         /\ o.badge \in Nat /\ Outside(c, o) => Outside(x, o)
         /\ o.badge \in Nat /\ Apart(o, x) => Outside(x, o)
BY DEF Within, Outside, Apart

(* The objects a retype makes. *)
Pieces(run, a, z, type) == {[type |-> type, base |-> a[s], size |-> z] : s \in run}

(* After a retype memory is divided as it was before. *)
LEMMA RetypeDivides ==
  ASSUME NEW cs, NEW ds, NEW os, NEW n, NEW u, u \in Stock(cs), NEW run, NEW a, NEW z,
         NEW type, NEW nb, Divided(os, cs, n), Retyped(cs, ds, u, run, a, z, type, nb),
         Vacant(run, cs, n)
  PROVE  Divided(os \cup Pieces(run, a, z, type), ds, n)
<1> DEFINE ps == Pieces(run, a, z, type)
<1>1. /\ IsUntypedCap(ds[u]) /\ ds[u].base = cs[u].base /\ ds[u].size = cs[u].size
      /\ ds[u].badge = nb
      /\ \A s \in run : /\ ds[s].base = a[s] /\ ds[s].size = z
                        /\ type = "UNTYPED" => IsUntypedCap(ds[s]) /\ ds[s].badge = 0
      /\ \A s \in Stock(cs) : s # u => ds[s] = cs[s]
      /\ \A s \in Stock(ds) : s \in Stock(cs) \/ (s \in run /\ type = "UNTYPED")
      /\ \A t \in Given(cs, n) : /\ t \in Given(ds, n)
                                 /\ ds[t].base = cs[t].base /\ ds[t].size = cs[t].size
  <2>1. StockSound(cs, n)
    BY DEF Divided
  <2>2. Written(cs, ds, n, u, run, a, z, type, nb)
    BY <2>1, RetypedSlots
  <2> QED BY <2>2 DEF Written
<1>2. /\ z \in Sizes /\ z \in Nat \ {0} /\ nb \in Nat /\ cs[u].badge <= nb /\ nb <= cs[u].size
      /\ \A s \in run : /\ a[s] \in Nat /\ a[s] % z = 0
                        /\ cs[u].base + cs[u].badge <= a[s] /\ a[s] + z <= cs[u].base + nb
      /\ \A s, t \in run : s # t => a[s] + z <= a[t] \/ a[t] + z <= a[s]
  BY SizesDivide DEF Retyped
<1>3. \A s \in Stock(cs) : /\ IsUntypedCap(cs[s]) /\ cs[s].size \in Sizes
                           /\ cs[s].base \in Nat /\ cs[s].size \in Nat
                           /\ cs[s].base % cs[s].size = 0
                           /\ cs[s].badge \in Nat /\ cs[s].badge <= cs[s].size
                           /\ \E t \in Given(cs, n) : Within(cs[s], cs[t])
  BY DEF Divided, StockSound, IsUntypedCap
<1>4. \A t \in Given(cs, n) : cs[t].base \in Nat /\ cs[t].size \in Nat
  BY DEF Vacant, IsUntypedCap
<1>5. \A o \in os : /\ o.base \in Nat /\ o.size \in Nat \ {0} /\ o.base % o.size = 0
                    /\ \E t \in Given(cs, n) : Within(o, cs[t])
  BY DEF Divided, ObjectsSound
<1>6. \A x, t : t \in Given(cs, n) /\ Within(x, cs[t]) => t \in Given(ds, n) /\ Within(x, ds[t])
  BY <1>1 DEF Within
<1>7. PICK g \in Given(cs, n) : Within(cs[u], cs[g])
  BY <1>3
(* The pieces, as seen from a record x at the place of one. *)
<1>8. ASSUME NEW s \in run, NEW x, x.base = a[s], x.size = z
      PROVE  /\ \E t \in Given(ds, n) : Within(x, ds[t])
             /\ \A o : /\ o.base \in Nat /\ o.size \in Nat =>
                          /\ Outside(o, cs[u]) => Apart(o, x)
                          /\ Within(cs[u], o) => Within(x, o)
                       /\ o.base \in Nat /\ o.size \in Nat /\ o.badge \in Nat =>
                          /\ Outside(cs[u], o) => Outside(x, o)
                          /\ Apart(o, x) => Outside(x, o)
  <2>1. /\ x.base \in Nat /\ x.size \in Nat
        /\ cs[u].base + cs[u].badge <= x.base /\ x.base + x.size <= cs[u].base + nb
    BY <1>2, <1>8
  <2>2. cs[u].base \in Nat /\ cs[u].size \in Nat /\ cs[u].badge \in Nat
    BY <1>3
  <2>3. Within(x, cs[g])
    BY <1>2, <1>4, <1>7, <2>1, <2>2, PieceOf
  <2>4. \A o : /\ o.base \in Nat /\ o.size \in Nat =>
                  /\ Outside(o, cs[u]) => Apart(o, x)
                  /\ Within(cs[u], o) => Within(x, o)
               /\ o.base \in Nat /\ o.size \in Nat /\ o.badge \in Nat =>
                  /\ Outside(cs[u], o) => Outside(x, o)
                  /\ Apart(o, x) => Outside(x, o)
    BY <1>2, <2>1, <2>2, PieceOf
  <2> QED BY <1>6, <2>3, <2>4
<1>9. StockSound(ds, n)
  <2> SUFFICES ASSUME NEW s \in Stock(ds)
               PROVE  /\ IsUntypedCap(ds[s]) /\ ds[s].size \in Sizes
                      /\ ds[s].base % ds[s].size = 0
                      /\ ds[s].badge \in Nat /\ ds[s].badge <= ds[s].size
                      /\ \E t \in Given(ds, n) : Within(ds[s], ds[t])
    BY DEF StockSound
  <2>1. CASE s \in Stock(cs) /\ s # u
    <3>1. ds[s] = cs[s]
      BY <1>1, <2>1
    <3>2. PICK t \in Given(cs, n) : Within(cs[s], cs[t])
      BY <1>3, <2>1
    <3> QED BY <1>3, <1>6, <2>1, <3>1, <3>2
  <2>2. CASE s = u
    <3>1. Within(ds[u], cs[g])
      BY <1>1, <1>7 DEF Within
    <3> QED BY <1>1, <1>2, <1>3, <1>6, <2>2, <3>1
  <2>3. CASE s \in run /\ type = "UNTYPED"
    BY <1>1, <1>2, <1>8, <2>3
  <2> QED BY <1>1, <2>1, <2>2, <2>3
<1>10. StockApart(ds)
  <2> SUFFICES ASSUME NEW s \in Stock(ds), NEW t \in Stock(ds), s # t
               PROVE  Outside(ds[s], ds[t]) \/ Outside(ds[t], ds[s])
    BY DEF StockApart
  <2> DEFINE Old(r) == r \in Stock(cs) /\ r # u
             New(r) == r \in run /\ type = "UNTYPED"
  <2>1. \A r \in Stock(ds) : Old(r) \/ r = u \/ New(r)
    BY <1>1
  <2>2. \A r : Old(r) => /\ ds[r] = cs[r] /\ cs[r].base \in Nat /\ cs[r].size \in Nat
                         /\ cs[r].badge \in Nat
                         /\ Outside(cs[r], cs[u]) \/ Outside(cs[u], cs[r])
    BY <1>1, <1>3 DEF Divided, StockApart
  <2>3. ASSUME NEW r, NEW v, Old(r), Old(v), r # v
        PROVE  Outside(ds[r], ds[v]) \/ Outside(ds[v], ds[r])
    BY <2>2, <2>3 DEF Divided, StockApart
  <2>4. ASSUME NEW r, Old(r) PROVE Outside(ds[r], ds[u]) \/ Outside(ds[u], ds[r])
    <3>1. cs[u].base \in Nat /\ cs[u].size \in Nat /\ cs[u].badge \in Nat
      BY <1>3
    <3> QED BY <1>1, <1>2, <2>2, <2>4, <3>1 DEF Outside
  <2>5. ASSUME NEW r, New(r) PROVE Outside(ds[r], ds[u])
    BY <1>1, <1>2, <2>5 DEF Outside
  <2>6. ASSUME NEW r, NEW v, New(r), New(v), r # v PROVE Outside(ds[r], ds[v])
    <3>1. /\ ds[r].base = a[r] /\ ds[r].size = z /\ a[r] \in Nat
          /\ ds[v].base = a[v] /\ ds[v].size = z /\ ds[v].badge = 0 /\ a[v] \in Nat
      BY <1>1, <1>2, <2>6
    <3>2. a[r] + z <= a[v] \/ a[v] + z <= a[r]
      BY <1>2, <2>6
    <3> QED BY <3>1, <3>2 DEF Outside
  <2>7. ASSUME NEW r, NEW v, New(r), Old(v) PROVE Outside(ds[r], ds[v])
    <3>1. ds[r].base = a[r] /\ ds[r].size = z /\ r \in run
      BY <1>1, <2>7
    <3>2. CASE Outside(cs[v], cs[u])
      BY <1>8, <2>2, <2>7, <3>1, <3>2
    <3>3. CASE Outside(cs[u], cs[v])
      BY <1>8, <2>2, <2>7, <3>1, <3>3
    <3> QED BY <2>2, <2>7, <3>2, <3>3
  <2> HIDE DEF Old, New
  <2> QED BY <2>1, <2>3, <2>4, <2>5, <2>6, <2>7
<1>11. \A p \in ps : \E s \in run : /\ p = [type |-> type, base |-> a[s], size |-> z]
                                    /\ p.base = a[s] /\ p.size = z /\ p.type = type
  <2>1. \A s : LET p == [type |-> type, base |-> a[s], size |-> z]
               IN  p.base = a[s] /\ p.size = z /\ p.type = type
    OBVIOUS
  <2> QED BY <2>1 DEF Pieces
<1> HIDE DEF ps
<1>12. ObjectsSound(os \cup ps, ds, n)
  <2> SUFFICES ASSUME NEW o \in os \cup ps
               PROVE  /\ o.base \in Nat /\ o.size \in Nat \ {0} /\ o.base % o.size = 0
                      /\ \E t \in Given(ds, n) : Within(o, ds[t])
    BY DEF ObjectsSound
  <2>1. CASE o \in os
    BY <1>5, <1>6, <2>1
  <2>2. CASE o \in ps
    <3>1. PICK s \in run : o.base = a[s] /\ o.size = z
      BY <1>11, <2>2
    <3> QED BY <1>2, <1>8, <3>1
  <2> QED BY <2>1, <2>2
<1>13. ObjectsOutside(os \cup ps, ds)
  <2> SUFFICES ASSUME NEW o \in os \cup ps, NEW s \in Stock(ds)
               PROVE  Outside(o, ds[s]) \/ (o.type = "UNTYPED" /\ Within(ds[s], o))
    BY DEF ObjectsOutside
  <2>1. ASSUME o \in os, NEW t \in Stock(cs)
        PROVE  Outside(o, cs[t]) \/ (o.type = "UNTYPED" /\ Within(cs[t], o))
    BY <2>1 DEF Divided, ObjectsOutside
  <2>2. \A t \in Stock(cs) : cs[t].base \in Nat /\ cs[t].size \in Nat /\ cs[t].badge \in Nat
    BY <1>3
  <2>3. CASE s \in Stock(cs) /\ s # u
    <3>1. ds[s] = cs[s]
      BY <1>1, <2>3
    <3>2. CASE o \in os
      BY <2>1, <2>3, <3>1, <3>2
    <3>3. CASE o \in ps
      <4>1. PICK r \in run : o.base = a[r] /\ o.size = z
        BY <1>11, <3>3
      <4>2. Outside(cs[s], cs[u]) \/ Outside(cs[u], cs[s])
        BY <2>3 DEF Divided, StockApart
      <4>3. CASE Outside(cs[s], cs[u])
        BY <1>8, <2>2, <2>3, <3>1, <4>1, <4>3
      <4>4. CASE Outside(cs[u], cs[s])
        BY <1>8, <2>2, <2>3, <3>1, <4>1, <4>4
      <4> QED BY <4>2, <4>3, <4>4
    <3> QED BY <3>2, <3>3
  <2>4. CASE s = u
    <3>1. CASE o \in os
      <4>1. Outside(o, cs[u]) \/ (o.type = "UNTYPED" /\ Within(cs[u], o))
        BY <2>1, <3>1
      <4>2. Outside(o, cs[u]) => Outside(o, ds[u])
        <5>1. cs[u].base \in Nat /\ cs[u].badge \in Nat /\ o.base \in Nat /\ o.size \in Nat
          BY <1>5, <2>2, <3>1
        <5> QED BY <1>1, <1>2, <5>1 DEF Outside
      <4>3. Within(cs[u], o) => Within(ds[u], o)
        BY <1>1 DEF Within
      <4> QED BY <2>4, <4>1, <4>2, <4>3
    <3>2. CASE o \in ps
      <4>1. PICK r \in run : o.base = a[r] /\ o.size = z
        BY <1>11, <3>2
      <4> QED BY <1>1, <1>2, <2>4, <4>1 DEF Outside
    <3> QED BY <3>1, <3>2
  <2>5. CASE s \in run /\ type = "UNTYPED"
    <3>1. ds[s].base = a[s] /\ ds[s].size = z /\ ds[s].badge = 0 /\ a[s] \in Nat
      BY <1>1, <1>2, <2>5
    <3>2. CASE o \in os
      <4>1. Outside(o, cs[u]) \/ (o.type = "UNTYPED" /\ Within(cs[u], o))
        BY <2>1, <3>2
      <4>2. o.base \in Nat /\ o.size \in Nat
        BY <1>5, <3>2
      <4>3. Outside(o, cs[u]) => Apart(o, ds[s])
        BY <1>8, <2>5, <3>1, <4>2
      <4>4. Within(cs[u], o) => Within(ds[s], o)
        BY <1>8, <2>5, <3>1, <4>2
      <4>5. Apart(o, ds[s]) => Outside(o, ds[s])
        BY <3>1 DEF Apart, Outside
      <4> QED BY <4>1, <4>3, <4>4, <4>5
    <3>3. CASE o \in ps
      <4>1. PICK r \in run : o.base = a[r] /\ o.size = z /\ o.type = type
        BY <1>11, <3>3
      <4>2. CASE r = s
        <5>1. Within(ds[s], o)
          BY <1>2, <3>1, <4>1, <4>2 DEF Within
        <5> QED BY <2>5, <4>1, <5>1
      <4>3. CASE r # s
        BY <1>2, <2>5, <3>1, <4>1, <4>3 DEF Outside
      <4> QED BY <4>2, <4>3
    <3> QED BY <3>2, <3>3
  <2> QED BY <1>1, <2>3, <2>4, <2>5
<1>14. ObjectsApart(os \cup ps)
  <2>1. ASSUME NEW o \in os, NEW p \in ps
        PROVE  Apart(o, p) \/ (o.type = "UNTYPED" /\ Within(p, o))
    <3>1. PICK s \in run : p.base = a[s] /\ p.size = z
      BY <1>11
    <3>2. Outside(o, cs[u]) \/ (o.type = "UNTYPED" /\ Within(cs[u], o))
      BY DEF Divided, ObjectsOutside
    <3>3. o.base \in Nat /\ o.size \in Nat
      BY <1>5
    <3> QED BY <1>8, <3>1, <3>2, <3>3
  <2>2. ASSUME NEW o \in ps, NEW p \in ps, o # p PROVE Apart(o, p)
    <3>1. PICK s \in run : /\ o = [type |-> type, base |-> a[s], size |-> z]
                           /\ o.base = a[s] /\ o.size = z
      BY <1>11
    <3>2. PICK t \in run : /\ p = [type |-> type, base |-> a[t], size |-> z]
                           /\ p.base = a[t] /\ p.size = z
      BY <1>11
    <3>3. s # t
      BY <2>2, <3>1, <3>2
    <3> QED BY <1>2, <3>1, <3>2, <3>3 DEF Apart
  <2>3. \A o, p \in os : o # p => \/ Apart(o, p)
                                  \/ o.type = "UNTYPED" /\ Within(p, o)
                                  \/ p.type = "UNTYPED" /\ Within(o, p)
    BY DEF Divided, ObjectsApart
  <2>4. \A o, p : Apart(o, p) => Apart(p, o)
    BY DEF Apart
  <2> QED BY <2>1, <2>2, <2>3, <2>4 DEF ObjectsApart
<1> QED BY <1>9, <1>10, <1>12, <1>13, <1>14 DEF Divided, ps


(* The first program starts with what it was given, untouched. *)
LEMMA StartUserlandDivides ==
  ASSUME MInv, objects = {}, StartUserland
  PROVE  Divided(objects', slots', Len(info'))
<1> DEFINE n == Len(info')
           G == FirstUntyped..(FirstUntyped + n - 1)
<1>1. slots' = slots /\ objects' = {} /\ phase = "booted"
  BY DEF StartUserland
<1>2. Handed(n) /\ \A s \in Stock(slots) : s \in G
  BY UntypedsListed DEF Stock
<1>3. /\ \A s \in G : IsUntypedCap(slots[s]) /\ Owned(slots[s], regions, map) /\ slots[s].badge = 0
      /\ \A s, t \in G : s # t => Apart(slots[s], slots[t])
  BY <1>2 DEF Handed, Granted
<1> HIDE DEF n, G
<1>4. ASSUME NEW s \in Stock(slots)
      PROVE  /\ IsUntypedCap(slots[s]) /\ slots[s].size \in Sizes
             /\ slots[s].base \in Nat /\ slots[s].size \in Nat
             /\ slots[s].base % slots[s].size = 0
             /\ slots[s].badge = 0 /\ s \in G /\ ~slots[s].device
  <2>1. /\ s \in G /\ IsUntypedCap(slots[s]) /\ ~slots[s].device
        /\ Owned(slots[s], regions, map) /\ slots[s].badge = 0
    BY <1>2, <1>3 DEF Stock
  <2>2. slots[s].base \in Nat /\ slots[s].size \in Nat
    BY <2>1 DEF IsUntypedCap
  <2>3. PICK i \in 1..Len(regions) : /\ slots[s].base = regions[i].addr * PageSize
                                     /\ slots[s].size = regions[i].size * PageSize
    BY <2>1 DEF Owned
  <2> DEFINE x == regions[i].addr
             z == regions[i].size
  <2>4. x \in Nat /\ z \in Powers /\ z \in Nat \ {0} /\ x % z = 0
    <3>1. regions[i] \in RegionRecords /\ x % z = 0
      BY DEF MInv, WellCut
    <3> QED BY <3>1, RegionNumbers
  <2>5. slots[s].base = x * PageSize /\ slots[s].size = z * PageSize
    BY <2>3
  <2> HIDE DEF x, z
  <2>6. z * PageSize \in Sizes /\ PageSize \in Nat \ {0}
    BY <2>4, PageSizes, UntypedAssumption
  <2>7. (x * PageSize) % (z * PageSize) = 0
    BY <2>4, <2>6, DivScaled
  <2>8. slots[s].size \in Sizes /\ slots[s].base % slots[s].size = 0
    BY ONLY <2>5, <2>6, <2>7
  <2> QED BY <2>1, <2>2, <2>8
<1>5. StockSound(slots, n)
  <2> SUFFICES ASSUME NEW s \in Stock(slots)
               PROVE  /\ IsUntypedCap(slots[s]) /\ slots[s].size \in Sizes
                      /\ slots[s].base % slots[s].size = 0
                      /\ slots[s].badge \in Nat /\ slots[s].badge <= slots[s].size
                      /\ \E t \in Given(slots, n) : Within(slots[s], slots[t])
    BY DEF StockSound
  <2>1. s \in Given(slots, n)
    BY <1>4 DEF Given, G
  <2>2. Within(slots[s], slots[s])
    BY <1>4 DEF Within
  <2> QED BY <1>4, <2>1, <2>2
<1>6. StockApart(slots)
  <2> SUFFICES ASSUME NEW s \in Stock(slots), NEW t \in Stock(slots), s # t
               PROVE  Outside(slots[s], slots[t])
    BY DEF StockApart
  <2>1. Apart(slots[s], slots[t])
    BY <1>3, <1>4
  <2> QED BY <1>4, <2>1 DEF Apart, Outside
<1>7. Divided({}, slots, n)
  BY <1>5, <1>6 DEF Divided, ObjectsSound, ObjectsOutside, ObjectsApart
<1> QED BY <1>1, <1>7 DEF n

(* What the first program uses as a source is memory, or a device's. *)
LEMMA SourcesAreUntyped ==
  ASSUME MInv, phase = "user", SortedBySize, NEW u \in Sources
  PROVE  u \in DOMAIN slots /\ slots[u].type = "UNTYPED"
<1>1. /\ Granted(slots, regions, map, Len(info)) /\ DOMAIN slots = 0..(CNodeSlots - 1)
      /\ CNodeSlots \in Nat /\ FirstUntyped \in Nat /\ Len(info) \in Nat
      /\ FirstUntyped + Len(info) <= CNodeSlots
  BY MemoryAssumption DEF MInv, Granted
<1>2. CASE u \in UntypedSlots
  BY <1>2 DEF UntypedSlots
<1>3. ASSUME NEW i \in DOMAIN info, u = FirstUntyped + info[i].index
      PROVE  u \in DOMAIN slots /\ slots[u].type = "UNTYPED"
  <2>1. info[i].index \in 0..(Len(info) - 1)
    BY DEF SortedBySize
  <2>2. u \in FirstUntyped..(FirstUntyped + Len(info) - 1) /\ u \in 0..(CNodeSlots - 1)
    BY <1>1, <1>3, <2>1
  <2>3. IsUntypedCap(slots[u])
    BY <1>1, <2>2 DEF Granted
  <2>4. slots[u].type = "UNTYPED"
    BY <2>3 DEF IsUntypedCap
  <2> QED BY <1>1, <2>2, <2>4
<1> QED BY <1>2, <1>3 DEF Sources

(* Empty slots are not memory. *)
LEMMA GivenStay ==
  ASSUME MInv, phase = "user"
  PROVE  /\ FirstUntyped..(FirstUntyped + Len(info) - 1) \subseteq DOMAIN slots
         /\ \A t \in FirstUntyped..(FirstUntyped + Len(info) - 1) : IsUntypedCap(slots[t])
         /\ \A s : slots[s] = Empty =>
              s \notin Stock(slots) /\ s \notin FirstUntyped..(FirstUntyped + Len(info) - 1)
<1>1. /\ Granted(slots, regions, map, Len(info)) /\ DOMAIN slots = 0..(CNodeSlots - 1)
      /\ CNodeSlots \in Nat /\ FirstUntyped \in Nat /\ Len(info) \in Nat
      /\ FirstUntyped + Len(info) <= CNodeSlots
  BY MemoryAssumption DEF MInv, Granted
<1>2. \A t \in FirstUntyped..(FirstUntyped + Len(info) - 1) : IsUntypedCap(slots[t])
  BY <1>1 DEF Granted
<1>3. FirstUntyped..(FirstUntyped + Len(info) - 1) \subseteq DOMAIN slots
  BY <1>1
<1>4. \A c : IsUntypedCap(c) => c.type = "UNTYPED"
  BY DEF IsUntypedCap
<1>5. Empty.type = "NULL"
  BY DEF Empty
<1> QED BY <1>2, <1>3, <1>4, <1>5 DEF Stock


(* allocate by the contract, whether or not the retype succeeds. *)
LEMMA AllocateDivides ==
  ASSUME MInv, OInv, SortedBySize, NEW u \in Sources, NEW kind \in Kinds,
         MayAllocate(u, kind), Allocate(u, kind)
  PROVE  OInv'
<1> DEFINE got == cptr_alloc_range(bitmap, kind.num)
           off == got.cptr
           run == RunAt(off, kind.num)
           cap == slots[u]
           z == object_size(kind.type, kind.size_bits)
           nb == NewBadge(cap, z, kind.num)
           New(i) == [type |-> kind.type, base |-> ObjectAddr(cap, z, i), size |-> z]
<1>1. /\ phase = "user" /\ phase' = "user" /\ info' = info /\ ~slots[u].device
      /\ z <= slots[u].size /\ Retype(u, kind, off)
  BY DEF Allocate, MayAllocate
<1>2. kind.num \in Nat /\ z \in Sizes
  BY MemoryAssumption, ObjectSizes
<1>3. Divided(objects, slots, Len(info))
  BY <1>1 DEF OInv
<1>4. off # NoCptr => off \in Nat /\ run \cap bitmap = {}
  BY <1>2, RangeIsFree
<1>5. /\ DOMAIN slots = 0..(CNodeSlots - 1) /\ CNodeSlots \in Nat
      /\ \A s \in DOMAIN slots : slots[s] # Empty => s \in bitmap
  BY <1>1, MemoryAssumption DEF MInv
<1>6. u \in Stock(slots)
  BY <1>1, SourcesAreUntyped DEF Stock
<1> HIDE DEF got, z
<1>7. CASE UNCHANGED <<slots, objects>>
  BY <1>1, <1>3, <1>7 DEF OInv
<1>8. CASE ~UNCHANGED <<slots, objects>>
  <2>1. /\ off # NoCptr /\ Enough(cap, z, kind.num) /\ off + kind.num <= CNodeSlots
        /\ slots' = [s \in DOMAIN slots |->
                       CASE s = u -> [cap EXCEPT !.badge = nb]
                         [] s \in run ->
                              IF kind.type = "UNTYPED" THEN UntypedCap(New(s - off).base, z, FALSE)
                              ELSE New(s - off)
                         [] OTHER -> slots[s]]
        /\ objects' = objects \cup {New(i) : i \in 0..(kind.num - 1)}
    BY <1>1, <1>8 DEF Retype, InRange, z
  <2>2. /\ run \subseteq DOMAIN slots
        /\ \A s \in run : s \in Nat /\ s - off \in 0..(kind.num - 1)
        /\ \A i \in 0..(kind.num - 1) : off + i \in run /\ (off + i) - off = i
    <3>1. off \in Nat /\ off + kind.num <= CNodeSlots
      BY <1>4, <2>1
    <3> HIDE DEF off
    <3> QED BY <1>2, <1>5, <3>1 DEF RunAt
  <2>3. \A s \in run : slots[s] = Empty
    BY <1>4, <1>5, <2>1, <2>2
  <2>4. u \notin run
    BY <1>1, <1>6, <2>3, GivenStay
  <2> DEFINE a == [s \in run |-> ObjectAddr(cap, z, s - off)]
             ps == Pieces(run, a, z, kind.type)
  <2>5. /\ cap.base \in Nat /\ cap.size \in Sizes /\ cap.base % cap.size = 0
        /\ cap.badge \in Nat /\ cap.badge <= cap.size
    BY <1>3, <1>6 DEF Divided, StockSound, IsUntypedCap
  <2>6. /\ nb \in Nat /\ cap.badge <= nb /\ nb <= cap.size
        /\ \A i \in 0..(kind.num - 1) :
             /\ ObjectAddr(cap, z, i) \in Nat /\ ObjectAddr(cap, z, i) % z = 0
             /\ cap.base + cap.badge <= ObjectAddr(cap, z, i)
             /\ ObjectAddr(cap, z, i) + z <= cap.base + nb
        /\ \A i, j \in 0..(kind.num - 1) :
             i < j => ObjectAddr(cap, z, i) + z <= ObjectAddr(cap, z, j)
    BY <1>1, <1>2, <2>1, <2>5, RetypeFits
  <2>7. \A s \in run : New(s - off) = [type |-> kind.type, base |-> a[s], size |-> z]
                       /\ New(s - off).base = a[s]
    OBVIOUS
  <2>8. {New(i) : i \in 0..(kind.num - 1)} = ps
    <3>1. \A s \in run : New(s - off) \in {New(i) : i \in 0..(kind.num - 1)}
      BY <2>2
    <3>2. ASSUME NEW i \in 0..(kind.num - 1) PROVE New(i) \in ps
      <4>1. off + i \in run /\ (off + i) - off = i
        BY <2>2
      <4>2. New((off + i) - off) = [type |-> kind.type, base |-> a[off + i], size |-> z]
        BY <2>7, <4>1
      <4> QED BY <4>1, <4>2 DEF Pieces
    <3> QED BY <2>7, <3>1, <3>2 DEF Pieces
  <2>9. \A s \in run : /\ a[s] \in Nat /\ a[s] % z = 0
                       /\ cap.base + cap.badge <= a[s] /\ a[s] + z <= cap.base + nb
    BY <2>2, <2>6
  <2>10. ASSUME NEW s \in run, NEW t \in run, s # t PROVE a[s] + z <= a[t] \/ a[t] + z <= a[s]
    <3>1. s - off < t - off \/ t - off < s - off
      BY <1>4, <2>1, <2>2, <2>10
    <3> QED BY <2>2, <2>6, <3>1
  <2> HIDE DEF nb, New, a, run, off
  <2>11. /\ DOMAIN slots' = DOMAIN slots
         /\ slots'[u] = [cap EXCEPT !.badge = nb]
         /\ \A s \in run : slots'[s] = IF kind.type = "UNTYPED" THEN UntypedCap(a[s], z, FALSE)
                                       ELSE [type |-> kind.type, base |-> a[s], size |-> z]
         /\ \A s \in DOMAIN slots : s # u /\ s \notin run => slots'[s] = slots[s]
    <3>1. DOMAIN slots' = DOMAIN slots
      BY <2>1
    <3>2. slots'[u] = [cap EXCEPT !.badge = nb]
      <4>1. u \in DOMAIN slots
        BY <1>6 DEF Stock
      <4> QED BY <2>1, <2>4, <4>1
    <3>3. ASSUME NEW s \in run
          PROVE  slots'[s] = IF kind.type = "UNTYPED" THEN UntypedCap(a[s], z, FALSE)
                             ELSE [type |-> kind.type, base |-> a[s], size |-> z]
      <4>1. s # u /\ s \in DOMAIN slots
        BY <2>2, <2>4
      <4>2. slots'[s] = IF kind.type = "UNTYPED" THEN UntypedCap(New(s - off).base, z, FALSE)
                        ELSE New(s - off)
        BY <2>1, <4>1
      <4> QED BY <2>7, <4>2
    <3>4. \A s \in DOMAIN slots : s # u /\ s \notin run => slots'[s] = slots[s]
      BY <2>1
    <3> QED BY <3>1, <3>2, <3>3, <3>4
  <2>12. Retyped(slots, slots', u, run, a, z, kind.type, nb)
    BY <1>2, <2>2, <2>4, <2>6, <2>9, <2>10, <2>11 DEF Retyped
  <2>13. Vacant(run, slots, Len(info))
    BY <1>1, <2>3, GivenStay DEF Vacant, Given
  <2>14. objects' = objects \cup ps
    BY <2>1, <2>8
  <2>15. Divided(objects \cup ps, slots', Len(info))
    BY <1>3, <1>6, <2>12, <2>13, RetypeDivides
  <2>16. Divided(objects', slots', Len(info'))
    BY <1>1, <2>14, <2>15
  <2> QED BY <1>1, <2>16 DEF OInv
<1> QED BY <1>7, <1>8

(* A port capability goes into an empty slot. *)
LEMMA IssuePortDivides ==
  ASSUME MInv, OInv, IssuePort
  PROVE  OInv'
<1> DEFINE c == cptr_alloc(bitmap).cptr
<1>1. /\ phase = "user" /\ phase' = "user" /\ info' = info /\ objects' = objects
      /\ IF c # NoCptr /\ c < CNodeSlots THEN slots' = [slots EXCEPT ![c] = [type |-> "IO_PORT"]]
         ELSE slots' = slots
  BY DEF IssuePort
<1>2. c # NoCptr => c \in Nat /\ c \notin bitmap
  BY SlotIsFree
<1>3. /\ DOMAIN slots = 0..(CNodeSlots - 1) /\ CNodeSlots \in Nat
      /\ \A s \in DOMAIN slots : slots[s] # Empty => s \in bitmap
      /\ Divided(objects, slots, Len(info))
  BY <1>1, MemoryAssumption DEF MInv, OInv
<1> HIDE DEF c
<1>4. CASE ~(c # NoCptr /\ c < CNodeSlots)
  BY <1>1, <1>3, <1>4 DEF OInv
<1>5. CASE c # NoCptr /\ c < CNodeSlots
  <2>1. c \in DOMAIN slots /\ slots[c] = Empty
    BY <1>2, <1>3, <1>5
  <2>2. c \notin Stock(slots) /\ c \notin FirstUntyped..(FirstUntyped + Len(info) - 1)
    BY <1>1, <2>1, GivenStay
  <2>3. /\ DOMAIN slots' = DOMAIN slots /\ slots'[c] = [type |-> "IO_PORT"]
        /\ \A s \in DOMAIN slots : s # c => slots'[s] = slots[s]
    BY <1>1, <1>5, <2>1
  <2>4. Stock(slots') = Stock(slots)
    <3>1. slots'[c].type # "UNTYPED"
      BY <2>3
    <3> QED BY <2>1, <2>2, <2>3, <3>1 DEF Stock
  <2>5. \A s \in Stock(slots) : slots'[s] = slots[s]
    BY <2>2, <2>3 DEF Stock
  <2>6. /\ Given(slots', Len(info)) = Given(slots, Len(info))
        /\ \A t \in Given(slots, Len(info)) : slots'[t] = slots[t]
    <3>1. \A t \in FirstUntyped..(FirstUntyped + Len(info) - 1) : slots'[t] = slots[t]
      BY <1>1, <2>2, <2>3, GivenStay
    <3> QED BY <3>1 DEF Given
  <2>7. Divided(objects, slots', Len(info))
    BY <1>3, <2>4, <2>5, <2>6
       DEF Divided, StockSound, StockApart, ObjectsSound, ObjectsOutside
  <2> QED BY <1>1, <2>7 DEF OInv
<1> QED BY <1>4, <1>5

(* The contract only takes steps away. *)
LEMMA ClientInvariance == ClientSpec => []MInv
<1>1. ClientNext => Next
  BY DEF ClientNext, Next
<1>2. [ClientNext]_vars => [Next]_vars
  BY <1>1
<1>3. ClientSpec => Spec
  BY <1>2, PTL DEF ClientSpec, Spec
<1> QED BY <1>3, Invariance, PTL

(* Where the sort is right, objects are made of memory that is free. *)
LEMMA ObjectsInvariance == ClientSpec /\ []SortedBySize => []OInv
<1>1. Init => OInv
  BY DEF Init, OInv
<1>2. MInv /\ OInv /\ SortedBySize /\ [ClientNext]_vars => OInv'
  <2> SUFFICES ASSUME MInv, OInv, SortedBySize, [ClientNext]_vars PROVE OInv'
    OBVIOUS
  <2>1. CASE InitPageMmap
    BY <2>1 DEF InitPageMmap, OInv
  <2>2. CASE AllocPage
    BY <2>2 DEF AllocPage, OInv
  <2>3. CASE CreateBootTcb
    BY <2>3 DEF CreateBootTcb, OInv
  <2>4. CASE StartUserland
    <3>1. phase = "booted" /\ phase' = "user"
      BY <2>4 DEF StartUserland
    <3>2. objects = {}
      BY <3>1 DEF OInv
    <3>3. Divided(objects', slots', Len(info'))
      BY <2>4, <3>2, StartUserlandDivides
    <3> QED BY <3>1, <3>3 DEF OInv
  <2>5. CASE \E u \in Sources, kind \in Kinds : MayAllocate(u, kind) /\ Allocate(u, kind)
    BY <2>5, AllocateDivides
  <2>6. CASE IssuePort
    BY <2>6, IssuePortDivides
  <2>7. CASE UNCHANGED vars
    BY <2>7 DEF vars, OInv
  <2> QED BY <2>1, <2>2, <2>3, <2>4, <2>5, <2>6, <2>7 DEF ClientNext, Other
<1> QED BY <1>1, <1>2, ClientInvariance, PTL DEF ClientSpec

(* No two kernel objects share memory (kern/obj/untyped.c), except that    *)
(* what is made from an untyped lies inside it: each is aligned to its     *)
(* size and inside what the first program was given, whatever mixture of   *)
(* objects and smaller untypeds it makes, by the contract that none of     *)
(* them is larger than what it is made from.  The one fact taken from the  *)
(* model checker is that qsort orders the table of untypeds.               *)
THEOREM ObjectsAreDisjoint == ClientSpec /\ []SortedBySize => []ObjectsDisjoint
<1>1. MInv /\ OInv => ObjectsDisjoint
  <2> SUFFICES ASSUME MInv, OInv, NEW o \in objects
               PROVE  /\ o.base % o.size = 0
                      /\ \E c \in BootUntypeds : Span(o) \subseteq Span(c)
                      /\ \A p \in objects \ {o} :
                           \/ Span(o) \cap Span(p) = {}
                           \/ o.type = "UNTYPED" /\ Span(p) \subseteq Span(o)
                           \/ p.type = "UNTYPED" /\ Span(o) \subseteq Span(p)
    BY DEF ObjectsDisjoint
  <2>1. phase = "user" /\ Divided(objects, slots, Len(info))
    BY DEF OInv
  <2>2. \A p \in objects : p.base \in Nat /\ p.size \in Nat /\ p.base % p.size = 0
    BY <2>1 DEF Divided, ObjectsSound
  <2>3. \A x, y : /\ x.base \in Nat /\ x.size \in Nat /\ y.base \in Nat /\ y.size \in Nat =>
                     /\ Apart(x, y) => Span(x) \cap Span(y) = {}
                     /\ Within(x, y) => Span(x) \subseteq Span(y)
    BY DEF Apart, Within, Span
  <2>4. PICK t \in Given(slots, Len(info)) : Within(o, slots[t])
    BY <2>1 DEF Divided, ObjectsSound
  <2>5. /\ t \in FirstUntyped..(FirstUntyped + Len(info) - 1) /\ ~slots[t].device
        /\ IsUntypedCap(slots[t]) /\ t \in DOMAIN slots
    BY <2>1, GivenStay DEF Given
  <2>6. slots[t].type = "UNTYPED" /\ slots[t].base \in Nat /\ slots[t].size \in Nat
    BY <2>5 DEF IsUntypedCap
  <2>7. slots[t] \in BootUntypeds
    <3>1. t < FirstUntyped + Len(info)
      <4>1. FirstUntyped \in Nat /\ Len(info) \in Nat
        BY <2>1, MemoryAssumption DEF MInv, Granted
      <4> QED BY <2>5, <4>1
    <3>2. t \in UntypedSlots
      BY <2>5, <2>6 DEF UntypedSlots
    <3> QED BY <2>5, <3>1, <3>2 DEF BootUntypeds
  <2>8. Span(o) \subseteq Span(slots[t])
    BY <2>2, <2>3, <2>4, <2>6
  <2>9. ASSUME NEW p \in objects \ {o}
        PROVE  \/ Span(o) \cap Span(p) = {}
               \/ o.type = "UNTYPED" /\ Span(p) \subseteq Span(o)
               \/ p.type = "UNTYPED" /\ Span(o) \subseteq Span(p)
    <3>1. \/ Apart(o, p)
          \/ o.type = "UNTYPED" /\ Within(p, o)
          \/ p.type = "UNTYPED" /\ Within(o, p)
      BY <2>1 DEF Divided, ObjectsApart
    <3> QED BY <2>2, <2>3, <3>1
  <2> QED BY <2>2, <2>7, <2>8, <2>9
<1> QED BY <1>1, ClientInvariance, ObjectsInvariance, PTL


=============================================================================
