---------------------------- MODULE VspaceProofs ----------------------------
(***************************************************************************)
(* What is mapped stays mapped, for tables of every size and all programs  *)
(* and addresses that keep to the contract of Vspace.                      *)
(*                                                                         *)
(* The tables form trees: each table has a place (its level and the        *)
(* indices that lead to it), and an entry that is not zero names the table *)
(* of the place below.  So the kernel's walk to an address ends in the     *)
(* table of that address, and a map method writes one entry that was zero. *)
(***************************************************************************)
EXTENDS Vspace, WellFoundedInduction, TLAPS

Slots == 0..(Radix - 1)

(* A table of level l, and the indices that lead to it; 0 at its own level *)
(* and below.                                                              *)
Places == [l : 0..3, i3 : Slots, i2 : Slots, i1 : Slots]
Top == [l |-> 3, i3 |-> 0, i2 |-> 0, i1 |-> 0]

Under(p, i) == IF p.l = 3 THEN [l |-> 2, i3 |-> i, i2 |-> 0, i1 |-> 0]
               ELSE IF p.l = 2 THEN [l |-> 1, i3 |-> p.i3, i2 |-> i, i1 |-> 0]
               ELSE [l |-> 0, i3 |-> p.i3, i2 |-> p.i2, i1 |-> i]

(* The place of the table of level l on the way to addr. *)
Place2(addr) == Under(Top, Index(addr, 3))
Place1(addr) == Under(Place2(addr), Index(addr, 2))
Place0(addr) == Under(Place1(addr), Index(addr, 1))
PlaceOf(addr, l) == IF l = 3 THEN Top ELSE IF l = 2 THEN Place2(addr)
                    ELSE IF l = 1 THEN Place1(addr) ELSE Place0(addr)

(* Entry i of the page directory at p is where a huge page of H goes. *)
HugeAt(H, p, i) == \E h \in H : p = PlaceOf(h, 1) /\ i = Index(h, 1)

User == 0..(UserEnd - 1)

-----------------------------------------------------------------------------
(* Quotients and products. *)
LEMMA Divides ==
  ASSUME NEW a \in Nat, NEW n \in Nat \ {0}
  PROVE  a \div n \in Nat /\ a % n \in 0..(n - 1) /\ a = n * (a \div n) + (a % n)
<1> DEFINE q == a \div n
           r == a % n
<1>1. q \in Nat /\ r \in 0..(n - 1) /\ a = n * q + r
  BY SMT
<1> QED BY <1>1

LEMMA QuotientUnique ==
  ASSUME NEW a \in Nat, NEW n \in Nat \ {0}, NEW q \in Nat, NEW r \in Nat,
         r < n, a = n * q + r
  PROVE  a \div n = q
<1>1. /\ a \div n \in Nat /\ a % n \in 0..(n - 1) /\ a = n * (a \div n) + (a % n)
  BY Divides
<1> DEFINE d == a \div n
           s == a % n
<1>2. d \in Nat /\ s \in 0..(n - 1) /\ n * d + s = n * q + r
  BY <1>1
<1> HIDE DEF d, s
<1>3. n * (d - q) = r - s
  BY <1>2, SMTT(30)
<1>4. CASE d >= q + 1
  <2>1. n * (d - q) >= n
    BY <1>2, <1>4, SMTT(30)
  <2> QED BY <1>2, <1>3, <2>1
<1>5. CASE q >= d + 1
  <2>1. n * (q - d) >= n /\ n * (q - d) = s - r
    BY <1>2, <1>3, <1>5, SMTT(30)
  <2> QED BY <1>2, <2>1
<1>6. d = q
  BY <1>2, <1>4, <1>5
<1> QED BY <1>6 DEF d

LEMMA DivDiv ==
  ASSUME NEW a \in Nat, NEW m \in Nat \ {0}, NEW n \in Nat \ {0}
  PROVE  a \div (m * n) = (a \div m) \div n
<1> DEFINE q == a \div m
           r == a % m
           s == q \div n
           t == q % n
<1>1. q \in Nat /\ r \in 0..(m - 1) /\ a = m * q + r
  BY SMT
<1> HIDE DEF q, r
<1>2. s \in Nat /\ t \in 0..(n - 1) /\ q = n * s + t
  BY <1>1, SMT
<1> HIDE DEF s, t
<1>3. m * n \in Nat \ {0} /\ m * t + r \in Nat
  BY <1>1, <1>2, SMTT(30)
<1>4. a = (m * n) * s + (m * t + r)
  <2>1. m * (n * s + t) = (m * n) * s + m * t
    BY <1>2, SMTT(30)
  <2>2. /\ m * t \in Nat /\ (m * n) * s \in Nat /\ m * q = m * (n * s + t)
    BY <1>1, <1>2, <1>3, SMTT(30)
  <2> QED BY <1>1, <2>1, <2>2
<1>5. m * t + r < m * n
  <2>1. m * t <= m * (n - 1)
    BY <1>2, SMTT(30)
  <2>2. m * (n - 1) = m * n - m
    BY SMTT(30)
  <2>3. m * t \in Nat /\ m * n \in Nat
    BY <1>2, SMTT(30)
  <2> QED BY <1>1, <2>1, <2>2, <2>3
<1>6. a \div (m * n) = s
  BY <1>2, <1>3, <1>4, <1>5, QuotientUnique
<1> QED BY <1>6 DEF s, q

LEMMA SmallQuotient ==
  ASSUME NEW a \in Nat, NEW n \in Nat \ {0}, NEW k \in Nat, a < k * n
  PROVE  a \div n \in Nat /\ a \div n < k
<1> DEFINE q == a \div n
<1>1. q \in Nat /\ a % n \in Nat /\ a = n * q + (a % n)
  BY Divides
<1> HIDE DEF q
<1>2. CASE q >= k
  <2>1. n * q >= n * k
    BY <1>1, <1>2, SMTT(30)
  <2>2. n * k = k * n /\ n * q \in Nat /\ n * k \in Nat
    BY <1>1, SMTT(30)
  <2> QED BY <1>1, <2>1, <2>2
<1>3. q < k
  BY <1>1, <1>2 DEF q
<1> QED BY <1>1, <1>3 DEF q

(* Each level spans Radix entries of the level below. *)
LEMMA Spans ==
  /\ Radix \in Nat \ {0, 1} /\ PageBytes \in Nat \ {0}
  /\ EntrySpan(0) = PageBytes /\ EntrySpan(0) \in Nat \ {0}
  /\ EntrySpan(1) = EntrySpan(0) * Radix /\ EntrySpan(1) \in Nat \ {0}
  /\ EntrySpan(2) = EntrySpan(1) * Radix /\ EntrySpan(2) \in Nat \ {0}
  /\ EntrySpan(3) = EntrySpan(2) * Radix /\ EntrySpan(3) \in Nat \ {0}
  /\ Radix \div 2 \in Nat \ {0} /\ Radix \div 2 < Radix
  /\ UserEnd \in Nat \ {0}
<1>1. Radix \in Nat \ {0, 1} /\ PageBytes \in Nat \ {0}
  BY TablesAssumption
<1>2. /\ EntrySpan(0) = PageBytes /\ EntrySpan(1) = EntrySpan(0) * Radix
      /\ EntrySpan(2) = EntrySpan(1) * Radix /\ EntrySpan(3) = EntrySpan(2) * Radix
  BY DEF EntrySpan, PtSpan, PdSpan, PdptSpan
<1>3. \A m \in Nat \ {0} : m * Radix \in Nat \ {0}
  BY <1>1, SMTT(30)
<1>4. EntrySpan(0) \in Nat \ {0}
  BY <1>1, <1>2
<1>5. EntrySpan(1) \in Nat \ {0}
  BY <1>2, <1>3, <1>4
<1>6. EntrySpan(2) \in Nat \ {0}
  BY <1>2, <1>3, <1>5
<1>7. EntrySpan(3) \in Nat \ {0}
  BY <1>2, <1>3, <1>6
<1>8. Radix \div 2 \in Nat \ {0} /\ Radix \div 2 < Radix
  BY <1>1, SMT
<1>9. UserEnd \in Nat \ {0}
  <2> DEFINE h == Radix \div 2
             e == EntrySpan(3)
  <2>1. h \in Nat \ {0} /\ e \in Nat \ {0}
    BY <1>7, <1>8
  <2> HIDE DEF h, e
  <2>2. h * e \in Nat \ {0}
    BY <2>1, SMTT(30)
  <2> QED BY <2>2 DEF UserEnd, h, e
<1> QED BY <1>1, <1>2, <1>4, <1>5, <1>6, <1>7, <1>8, <1>9

(* An index is the remainder of a quotient that the level above halves by  *)
(* Radix; an address of the user has an index in the lower half of a PML4. *)
LEMMA Indices ==
  ASSUME NEW a \in User
  PROVE  /\ a \in Nat
         /\ \A l \in 0..3 : Index(a, l) \in Slots /\ a \div EntrySpan(l) \in Nat
         /\ \A l \in 0..2 : a \div EntrySpan(l) =
                              Radix * (a \div EntrySpan(l + 1)) + Index(a, l)
         /\ Index(a, 3) = a \div EntrySpan(3)
         /\ Index(a, 3) \notin KernelHalf
<1>1. a \in Nat /\ a < UserEnd
  BY Spans DEF User
<1>2. \A s \in Nat \ {0} : a \div s \in Nat
  BY <1>1, SMT
<1>3. \A q \in Nat : /\ q % Radix \in Slots /\ q \div Radix \in Nat
                     /\ q = Radix * (q \div Radix) + (q % Radix)
  BY Spans, Divides DEF Slots
<1>4. \A l \in 0..3 : EntrySpan(l) \in Nat \ {0}
  <2>1. \A l \in 0..3 : l = 0 \/ l = 1 \/ l = 2 \/ l = 3
    OBVIOUS
  <2> QED BY <2>1, Spans
<1>5. \A l \in 0..3 : Index(a, l) \in Slots /\ a \div EntrySpan(l) \in Nat
  BY <1>2, <1>3, <1>4 DEF Index
<1>6. ASSUME NEW l \in 0..2
      PROVE  a \div EntrySpan(l) = Radix * (a \div EntrySpan(l + 1)) + Index(a, l)
  <2>1. EntrySpan(l + 1) = EntrySpan(l) * Radix
    <3>1. l = 0 \/ l = 1 \/ l = 2
      OBVIOUS
    <3>2. CASE l = 0
      BY <3>2, Spans
    <3>3. CASE l = 1
      BY <3>3, Spans
    <3>4. CASE l = 2
      BY <3>4, Spans
    <3> QED BY <3>1, <3>2, <3>3, <3>4
  <2>2. EntrySpan(l) \in Nat \ {0} /\ Radix \in Nat \ {0}
    BY <1>4, Spans
  <2>3. a \div EntrySpan(l + 1) = (a \div EntrySpan(l)) \div Radix
    BY <1>1, <2>1, <2>2, DivDiv
  <2>4. a \div EntrySpan(l) \in Nat
    BY <1>2, <2>2
  <2>5. Index(a, l) = (a \div EntrySpan(l)) % Radix
    BY DEF Index
  <2> DEFINE q == a \div EntrySpan(l)
  <2>6. q = Radix * (q \div Radix) + (q % Radix)
    BY <1>3, <2>4
  <2> QED BY <2>3, <2>5, <2>6
<1>7. a \div EntrySpan(3) < Radix \div 2
  BY <1>1, Spans, SmallQuotient DEF UserEnd
<1>8. Index(a, 3) = a \div EntrySpan(3)
  <2>1. a \div EntrySpan(3) \in Nat /\ a \div EntrySpan(3) < Radix
    BY <1>5, <1>7, Spans
  <2>2. \A q \in Nat : q < Radix => q % Radix = q
    BY Spans, SMT
  <2> QED BY <2>1, <2>2 DEF Index
<1>9. Index(a, 3) \notin KernelHalf
  BY <1>5, <1>7, <1>8, Spans DEF KernelHalf
<1> QED BY <1>1, <1>5, <1>6, <1>8, <1>9

(* The indices of a place. *)
LEMMA PlaceFields ==
  ASSUME NEW a \in User
  PROVE  /\ PlaceOf(a, 3) = Top /\ Top \in Places
         /\ PlaceOf(a, 2) = [l |-> 2, i3 |-> Index(a, 3), i2 |-> 0, i1 |-> 0]
         /\ PlaceOf(a, 1) = [l |-> 1, i3 |-> Index(a, 3), i2 |-> Index(a, 2), i1 |-> 0]
         /\ PlaceOf(a, 0) = [l |-> 0, i3 |-> Index(a, 3), i2 |-> Index(a, 2),
                             i1 |-> Index(a, 1)]
         /\ \A l \in 0..3 : PlaceOf(a, l) \in Places /\ PlaceOf(a, l).l = l
<1>1. /\ PlaceOf(a, 3) = Top
      /\ PlaceOf(a, 2) = [l |-> 2, i3 |-> Index(a, 3), i2 |-> 0, i1 |-> 0]
      /\ PlaceOf(a, 1) = [l |-> 1, i3 |-> Index(a, 3), i2 |-> Index(a, 2), i1 |-> 0]
      /\ PlaceOf(a, 0) = [l |-> 0, i3 |-> Index(a, 3), i2 |-> Index(a, 2),
                          i1 |-> Index(a, 1)]
  <2>1. PlaceOf(a, 3) = Top /\ Top.l = 3
    BY DEF PlaceOf, Top
  <2>2. PlaceOf(a, 2) = [l |-> 2, i3 |-> Index(a, 3), i2 |-> 0, i1 |-> 0]
    BY <2>1 DEF PlaceOf, Place2, Under
  <2>3. PlaceOf(a, 1) = Under(PlaceOf(a, 2), Index(a, 2))
    BY DEF PlaceOf, Place1
  <2>4. PlaceOf(a, 1) = [l |-> 1, i3 |-> Index(a, 3), i2 |-> Index(a, 2), i1 |-> 0]
    BY <2>2, <2>3 DEF Under
  <2>5. PlaceOf(a, 0) = Under(PlaceOf(a, 1), Index(a, 1))
    BY DEF PlaceOf, Place0
  <2>6. PlaceOf(a, 0) = [l |-> 0, i3 |-> Index(a, 3), i2 |-> Index(a, 2),
                         i1 |-> Index(a, 1)]
    BY <2>4, <2>5 DEF Under
  <2> QED BY <2>1, <2>2, <2>4, <2>6
<1>2. 0 \in Slots /\ Index(a, 3) \in Slots /\ Index(a, 2) \in Slots /\ Index(a, 1) \in Slots
  BY Spans, Indices DEF Slots
<1>3. /\ PlaceOf(a, 3) \in Places /\ PlaceOf(a, 2) \in Places
      /\ PlaceOf(a, 1) \in Places /\ PlaceOf(a, 0) \in Places
      /\ PlaceOf(a, 3).l = 3 /\ PlaceOf(a, 2).l = 2 /\ PlaceOf(a, 1).l = 1
      /\ PlaceOf(a, 0).l = 0
  BY <1>1, <1>2 DEF Top, Places
<1>4. \A l \in 0..3 : l = 0 \/ l = 1 \/ l = 2 \/ l = 3
  OBVIOUS
<1> QED BY <1>1, <1>3, <1>4

(* Two addresses with the same indices are in the same page. *)
LEMMA SameWay ==
  ASSUME NEW a \in User, NEW b \in User,
         PlaceOf(a, 1) = PlaceOf(b, 1), Index(a, 1) = Index(b, 1)
  PROVE  /\ a \div (PageBytes * Radix) = b \div (PageBytes * Radix)
         /\ Index(a, 0) = Index(b, 0) => a \div PageBytes = b \div PageBytes
<1>1. Index(a, 3) = Index(b, 3) /\ Index(a, 2) = Index(b, 2)
  BY PlaceFields
<1>2. a \div EntrySpan(3) = b \div EntrySpan(3)
  BY <1>1, Indices
<1>3. a \div EntrySpan(2) = b \div EntrySpan(2)
  <2>1. /\ a \div EntrySpan(2) = Radix * (a \div EntrySpan(3)) + Index(a, 2)
        /\ b \div EntrySpan(2) = Radix * (b \div EntrySpan(3)) + Index(b, 2)
    <3>1. 2 \in 0..2 /\ 2 + 1 = 3
      OBVIOUS
    <3> QED BY <3>1, Indices
  <2> QED BY <1>1, <1>2, <2>1
<1>4. a \div EntrySpan(1) = b \div EntrySpan(1)
  <2>1. /\ a \div EntrySpan(1) = Radix * (a \div EntrySpan(2)) + Index(a, 1)
        /\ b \div EntrySpan(1) = Radix * (b \div EntrySpan(2)) + Index(b, 1)
    <3>1. 1 \in 0..2 /\ 1 + 1 = 2
      OBVIOUS
    <3> QED BY <3>1, Indices
  <2> QED BY <1>3, <2>1
<1>5. a \div (PageBytes * Radix) = b \div (PageBytes * Radix)
  <2>1. EntrySpan(1) = PageBytes * Radix
    BY DEF EntrySpan, PtSpan, PdSpan, PdptSpan
  <2> QED BY <1>4, <2>1
<1>6. ASSUME Index(a, 0) = Index(b, 0) PROVE a \div PageBytes = b \div PageBytes
  <2>1. /\ a \div EntrySpan(0) = Radix * (a \div EntrySpan(1)) + Index(a, 0)
        /\ b \div EntrySpan(0) = Radix * (b \div EntrySpan(1)) + Index(b, 0)
    <3>1. 0 \in 0..2 /\ 0 + 1 = 1
      OBVIOUS
    <3> QED BY <3>1, Indices
  <2>2. EntrySpan(0) = PageBytes
    BY Spans
  <2> QED BY <1>4, <1>6, <2>1, <2>2
<1> QED BY <1>5, <1>6

-----------------------------------------------------------------------------
IsTables(m) == /\ m = [t \in DOMAIN m |-> m[t]]
               /\ \A t \in DOMAIN m : m[t] = [i \in Slots |-> m[t][i]]

(* A frame that was handed out and is no table. *)
Opaque(m, n, f) == f \in 1..(n - 1) /\ f \notin DOMAIN m

(* Entry i of table t: nothing, the table below, or something that is no   *)
(* table, the kernel's or a huge page.                                     *)
Child(m, n, at, H, t, i) ==
  \/ m[t][i] = 0
  \/ m[t][i] \in DOMAIN m /\ at[m[t][i]] = Under(at[t], i)
  \/ /\ Opaque(m, n, m[t][i])
     /\ \/ at[t].l = 3 /\ i \in KernelHalf
        \/ at[t].l = 1 /\ HugeAt(H, at[t], i)

(* The tables m with the next frame n, each t at the place at[t]; huge     *)
(* pages are at addresses of H.                                            *)
Tree(m, n, at, H) ==
  /\ n \in Nat /\ DOMAIN m \subseteq 1..(n - 1) /\ IsTables(m)
  /\ at \in [DOMAIN m -> Places]
  /\ \A t \in DOMAIN m, i \in Slots : at[t].l # 0 => Child(m, n, at, H, t, i)
  /\ InitVspace \in DOMAIN m /\ at[InitVspace] = Top
  /\ \A i \in KernelHalf : Opaque(m, n, m[InitVspace][i])

(* at with a place for the frame n. *)
Extend(at, m, n, p) == [t \in DOMAIN m \cup {n} |-> IF t = n THEN p ELSE at[t]]

(* Table t is the one of level l on the way to addr. *)
OnWay(m, at, t, l, addr) == t \in DOMAIN m /\ at[t] = PlaceOf(addr, l)

(* What is in m stays in m2, except the kernel's half. *)
Keeps(m, m2, at) ==
  /\ DOMAIN m \subseteq DOMAIN m2
  /\ \A t \in DOMAIN m, i \in Slots :
       m[t][i] # 0 => m2[t][i] = m[t][i] \/ (at[t].l = 3 /\ i \in KernelHalf)

(* at2 gives the tables of m the same places. *)
SamePlaces(m, at, at2) == \A t \in DOMAIN m : at2[t] = at[t]

LEMMA StoreEntry ==
  ASSUME NEW m, IsTables(m), NEW t \in DOMAIN m, NEW i \in Slots, NEW f
  PROVE  /\ DOMAIN Store(m, <<t, i>>, f) = DOMAIN m
         /\ IsTables(Store(m, <<t, i>>, f))
         /\ \A u \in DOMAIN m, j \in Slots :
              Store(m, <<t, i>>, f)[u][j] = IF u = t /\ j = i THEN f ELSE m[u][j]
<1> DEFINE m2 == Store(m, <<t, i>>, f)
<1>1. m2 = [m EXCEPT ![t][i] = f]
  BY DEF Store
<1>2. m2 = [u \in DOMAIN m |-> IF u = t THEN [m[t] EXCEPT ![i] = f] ELSE m[u]]
  BY <1>1 DEF IsTables
<1>3. [m[t] EXCEPT ![i] = f] = [j \in Slots |-> IF j = i THEN f ELSE m[t][j]]
  BY DEF IsTables
<1> HIDE DEF m2
<1>4. DOMAIN m2 = DOMAIN m
  BY <1>2
<1>5. \A u \in DOMAIN m : m2[u] = IF u = t THEN [j \in Slots |-> IF j = i THEN f ELSE m[t][j]]
                                  ELSE m[u]
  BY <1>2, <1>3
<1>6. \A u \in DOMAIN m, j \in Slots : m2[u][j] = IF u = t /\ j = i THEN f ELSE m[u][j]
  BY <1>5
<1>7. IsTables(m2)
  <2>1. m2 = [u \in DOMAIN m2 |-> m2[u]]
    BY <1>2
  <2>2. ASSUME NEW u \in DOMAIN m2 PROVE m2[u] = [j \in Slots |-> m2[u][j]]
    BY <1>4, <1>5 DEF IsTables
  <2> QED BY <2>1, <2>2 DEF IsTables
<1> QED BY <1>4, <1>6, <1>7 DEF m2

(* A store into something that is no table changes nothing. *)
LEMMA StoreNowhere ==
  ASSUME NEW m, IsTables(m), NEW t, t \notin DOMAIN m, NEW i, NEW f
  PROVE  Store(m, <<t, i>>, f) = m
<1>1. Store(m, <<t, i>>, f) = [u \in DOMAIN m |-> m[u]]
  BY DEF Store
<1> QED BY <1>1 DEF IsTables

LEMMA FreshTable ==
  ASSUME NEW m, IsTables(m), NEW n, n \notin DOMAIN m
  PROVE  /\ DOMAIN WithTable(m, n) = DOMAIN m \cup {n}
         /\ IsTables(WithTable(m, n))
         /\ \A u \in DOMAIN m : WithTable(m, n)[u] = m[u]
         /\ WithTable(m, n)[n] = EmptyTable
<1> DEFINE m2 == WithTable(m, n)
<1>1. m2 = [u \in DOMAIN m \cup {n} |-> IF u = n THEN [j \in Slots |-> 0] ELSE m[u]]
  BY DEF WithTable, EmptyTable, Slots
<1> HIDE DEF m2
<1>2. /\ DOMAIN m2 = DOMAIN m \cup {n}
      /\ \A u \in DOMAIN m : m2[u] = m[u]
      /\ m2[n] = [j \in Slots |-> 0]
  BY <1>1
<1>3. m2 = [u \in DOMAIN m2 |-> m2[u]]
  BY <1>1
<1>4. ASSUME NEW u \in DOMAIN m2 PROVE m2[u] = [j \in Slots |-> m2[u][j]]
  BY <1>2 DEF IsTables
<1>5. IsTables(m2)
  BY <1>3, <1>4 DEF IsTables
<1> QED BY <1>2, <1>5 DEF m2, EmptyTable, Slots

(* Frames are handed out, and huge pages allowed. *)
LEMMA TreeWaits ==
  ASSUME NEW m, NEW n, NEW at, NEW H, NEW G, Tree(m, n, at, H), H \subseteq G,
         NEW n2 \in Nat, n <= n2
  PROVE  Tree(m, n2, at, G)
<1>1. /\ n \in Nat /\ DOMAIN m \subseteq 1..(n2 - 1)
      /\ \A f : Opaque(m, n, f) => Opaque(m, n2, f)
  BY DEF Tree, Opaque
<1>2. \A p, i : HugeAt(H, p, i) => HugeAt(G, p, i)
  BY DEF HugeAt
<1>3. \A t \in DOMAIN m, i \in Slots : at[t].l # 0 => Child(m, n2, at, G, t, i)
  BY <1>1, <1>2 DEF Tree, Child
<1> QED BY <1>1, <1>3 DEF Tree

(* A new table with nothing in it, not linked yet, can have any place. *)
LEMMA TreeGrows ==
  ASSUME NEW m, NEW n, NEW at, NEW H, Tree(m, n, at, H), NEW p \in Places
  PROVE  /\ n \notin DOMAIN m
         /\ Tree(WithTable(m, n), n + 1, Extend(at, m, n, p), H)
         /\ SamePlaces(m, at, Extend(at, m, n, p)) /\ Extend(at, m, n, p)[n] = p
         /\ Keeps(m, WithTable(m, n), at)
<1> DEFINE m2 == WithTable(m, n)
           at2 == Extend(at, m, n, p)
<1>1. n \in Nat /\ n \notin DOMAIN m /\ DOMAIN m \subseteq 1..(n - 1) /\ IsTables(m)
  BY DEF Tree
<1>2. /\ DOMAIN m2 = DOMAIN m \cup {n} /\ IsTables(m2)
      /\ \A u \in DOMAIN m : m2[u] = m[u]
      /\ \A j \in Slots : m2[n][j] = 0
  <2>1. IsTables(m) /\ n \notin DOMAIN m
    BY <1>1
  <2>2. DOMAIN m2 = DOMAIN m \cup {n}
    BY <2>1, FreshTable
  <2>3. IsTables(m2)
    BY <2>1, FreshTable
  <2>4. \A u \in DOMAIN m : m2[u] = m[u]
    BY <2>1, FreshTable
  <2>5. m2[n] = EmptyTable
    BY <2>1, FreshTable
  <2>6. \A j \in Slots : m2[n][j] = 0
    BY <2>5 DEF EmptyTable, Slots
  <2> QED BY <2>2, <2>3, <2>4, <2>6
<1>3. /\ at2 \in [DOMAIN m2 -> Places] /\ at2[n] = p
      /\ \A t \in DOMAIN m : at2[t] = at[t]
  BY <1>1, <1>2 DEF Tree, Extend
<1>4. \A f : Opaque(m, n, f) => Opaque(m2, n + 1, f)
  BY <1>1, <1>2 DEF Opaque
<1> HIDE DEF m2, at2
<1>5. ASSUME NEW t \in DOMAIN m2, NEW i \in Slots, at2[t].l # 0
      PROVE  Child(m2, n + 1, at2, H, t, i)
  <2>1. CASE t = n
    BY <1>2, <2>1 DEF Child
  <2>2. CASE t \in DOMAIN m
    <3>1. m2[t] = m[t] /\ at2[t] = at[t] /\ Child(m, n, at, H, t, i)
      BY <1>2, <1>3, <1>5, <2>2 DEF Tree
    <3> QED BY <1>2, <1>3, <1>4, <3>1 DEF Child
  <2> QED BY <1>2, <2>1, <2>2
<1>6. /\ InitVspace \in DOMAIN m2 /\ at2[InitVspace] = Top /\ n + 1 \in Nat
      /\ DOMAIN m2 \subseteq 1..(n + 1 - 1)
  BY <1>1, <1>2, <1>3 DEF Tree, InitVspace
<1>7. \A i \in KernelHalf : Opaque(m2, n + 1, m2[InitVspace][i])
  BY <1>2, <1>4 DEF Tree
<1>8. Tree(m2, n + 1, at2, H)
  BY <1>2, <1>3, <1>5, <1>6, <1>7 DEF Tree
<1>9. Keeps(m, m2, at)
  BY <1>2 DEF Keeps
<1> QED BY <1>1, <1>3, <1>8, <1>9 DEF m2, at2, SamePlaces

(* An entry that was zero may get a leaf of a page table, the table below, *)
(* or a huge page.                                                         *)
LEMMA TreeStore ==
  ASSUME NEW m, NEW n, NEW at, NEW H, Tree(m, n, at, H),
         NEW t \in DOMAIN m, NEW i \in Slots, m[t][i] = 0, NEW f,
         \/ at[t].l = 0
         \/ f \in DOMAIN m /\ at[f] = Under(at[t], i)
         \/ Opaque(m, n, f) /\ at[t].l = 1 /\ HugeAt(H, at[t], i)
  PROVE  /\ Tree(Store(m, <<t, i>>, f), n, at, H)
         /\ Keeps(m, Store(m, <<t, i>>, f), at)
<1> DEFINE m2 == Store(m, <<t, i>>, f)
<1>1. /\ DOMAIN m2 = DOMAIN m /\ IsTables(m2)
      /\ \A u \in DOMAIN m, j \in Slots : m2[u][j] = IF u = t /\ j = i THEN f ELSE m[u][j]
  BY StoreEntry DEF Tree
<1> HIDE DEF m2
<1>2. \A g : Opaque(m2, n, g) <=> Opaque(m, n, g)
  BY <1>1 DEF Opaque
<1>3. ASSUME NEW u \in DOMAIN m2, NEW j \in Slots, at[u].l # 0
      PROVE  Child(m2, n, at, H, u, j)
  <2>1. CASE u = t /\ j = i
    BY <1>1, <1>2, <1>3, <2>1 DEF Child
  <2>2. CASE ~(u = t /\ j = i)
    <3>1. m2[u][j] = m[u][j] /\ Child(m, n, at, H, u, j)
      BY <1>1, <1>3, <2>2 DEF Tree
    <3> QED BY <1>1, <1>2, <3>1 DEF Child
  <2> QED BY <2>1, <2>2
<1>4. ASSUME NEW j \in KernelHalf PROVE Opaque(m2, n, m2[InitVspace][j])
  <2>1. InitVspace \in DOMAIN m /\ Opaque(m, n, m[InitVspace][j])
    BY DEF Tree
  <2>2. m[InitVspace][j] # 0
    BY <2>1 DEF Opaque
  <2>3. j \in Slots
    BY Spans DEF KernelHalf, Slots
  <2>4. m2[InitVspace][j] = m[InitVspace][j]
    BY <1>1, <2>1, <2>2, <2>3
  <2> QED BY <1>2, <2>1, <2>4
<1>5. Tree(m2, n, at, H)
  BY <1>1, <1>3, <1>4 DEF Tree
<1>6. Keeps(m, m2, at)
  BY <1>1 DEF Keeps
<1> QED BY <1>5, <1>6 DEF m2

(* A fresh table that is linked where nothing was. *)
LEMMA TreeAttach ==
  ASSUME NEW m, NEW n, NEW at, NEW H, Tree(m, n, at, H),
         NEW t \in DOMAIN m, NEW i \in Slots, m[t][i] = 0, at[t].l # 0,
         NEW m2, m2 = WithTable(Store(m, <<t, i>>, n), n),
         NEW at2, at2 = Extend(at, m, n, Under(at[t], i))
  PROVE  /\ Tree(m2, n + 1, at2, H) /\ SamePlaces(m, at, at2) /\ Keeps(m, m2, at)
         /\ DOMAIN m2 = DOMAIN m \cup {n} /\ at2[n] = Under(at[t], i)
         /\ m2[t][i] = n /\ m2[n] = EmptyTable
         /\ \A u \in DOMAIN m, j \in Slots : (u = t /\ j = i) \/ m2[u][j] = m[u][j]
<1> DEFINE p == Under(at[t], i)
           m1 == WithTable(m, n)
<1>1. at[t] \in Places /\ p \in Places
  <2>1. at[t] \in Places /\ 0 \in Slots
    BY Spans DEF Tree, Slots
  <2> QED BY <2>1 DEF Places, Under
<1>p. at2 = Extend(at, m, n, p)
  OBVIOUS
<1> HIDE DEF p
<1>2. /\ n \notin DOMAIN m /\ Tree(m1, n + 1, at2, H) /\ SamePlaces(m, at, at2)
      /\ at2[n] = p /\ Keeps(m, m1, at)
  BY <1>1, <1>p, TreeGrows
<1>3. IsTables(m)
  BY DEF Tree
<1>4. /\ DOMAIN m1 = DOMAIN m \cup {n} /\ IsTables(m1)
      /\ \A u \in DOMAIN m : m1[u] = m[u]
  BY <1>2, <1>3, FreshTable
<1>5. m1[n] = EmptyTable
  BY <1>2, <1>3, FreshTable
<1>6. m2 = Store(m1, <<t, i>>, n)
  <2>1. m2 = [u \in DOMAIN m \cup {n} |->
                IF u = n THEN EmptyTable ELSE [m EXCEPT ![t][i] = n][u]]
    BY DEF WithTable, Store
  <2>2. m1 = [u \in DOMAIN m \cup {n} |-> IF u = n THEN EmptyTable ELSE m[u]]
    BY DEF WithTable
  <2>3. Store(m1, <<t, i>>, n) = [m1 EXCEPT ![t][i] = n]
    BY DEF Store
  <2> HIDE DEF m1
  <2> QED BY <1>2, <2>1, <2>2, <2>3
<1>7. t \in DOMAIN m1 /\ m1[t][i] = 0 /\ n \in DOMAIN m1 /\ at2[n] = Under(at2[t], i)
  BY <1>2, <1>4 DEF SamePlaces, p
<1>8. Tree(m2, n + 1, at2, H) /\ Keeps(m1, m2, at2)
  BY <1>2, <1>6, <1>7, TreeStore
<1> HIDE DEF m1
<1>9. /\ DOMAIN m2 = DOMAIN m1
      /\ \A u \in DOMAIN m1, j \in Slots : m2[u][j] = IF u = t /\ j = i THEN n ELSE m1[u][j]
  <2>1. IsTables(m1) /\ t \in DOMAIN m1 /\ i \in Slots
    BY <1>4, <1>7
  <2>2. DOMAIN m2 = DOMAIN m1
    BY <1>6, <2>1, StoreEntry
  <2>3. ASSUME NEW u \in DOMAIN m1, NEW j \in Slots
        PROVE  m2[u][j] = IF u = t /\ j = i THEN n ELSE m1[u][j]
    BY <1>6, <2>1, StoreEntry
  <2> QED BY <2>2, <2>3
<1>10. Keeps(m, m2, at)
  BY <1>4, <1>9 DEF Keeps
<1>11. m2[n] = EmptyTable
  <2>1. m2 = [m1 EXCEPT ![t][i] = n]
    BY <1>6 DEF Store
  <2>2. n # t
    BY <1>2
  <2> QED BY <1>4, <1>5, <2>1, <2>2
<1> QED BY <1>2, <1>4, <1>7, <1>8, <1>9, <1>10, <1>11 DEF p

LEMMA TableAttached ==
  ASSUME NEW m, NEW n, NEW at, NEW H, Tree(m, n, at, H), NEW m1,
         NEW t \in DOMAIN m, NEW i \in Slots, m[t][i] = 0, at[t].l # 0,
         m1 = Store(m, <<t, i>>, n)
  PROVE  \E at2 : /\ Tree(WithTable(m1, n), n + 1, at2, H) /\ SamePlaces(m, at, at2)
                  /\ Keeps(m, WithTable(m1, n), at)
<1> DEFINE at2 == Extend(at, m, n, Under(at[t], i))
           m2 == WithTable(m1, n)
<1>a. m2 = WithTable(Store(m, <<t, i>>, n), n) /\ at2 = Extend(at, m, n, Under(at[t], i))
  OBVIOUS
<1> HIDE DEF m2, at2
<1>1. Tree(m2, n + 1, at2, H)
  BY <1>a, TreeAttach
<1>2. SamePlaces(m, at, at2)
  BY <1>a DEF SamePlaces, Extend, Tree
<1>3. Keeps(m, m2, at)
  BY <1>a, TreeAttach
<1> QED BY <1>1, <1>2, <1>3 DEF m2

(* The kernel's half of a PML4 is written over with the kernel's. *)
LEMMA TreeCopy ==
  ASSUME NEW m, NEW n, NEW at, NEW H, Tree(m, n, at, H),
         NEW t \in DOMAIN m, at[t].l = 3, NEW e \in Slots
  PROVE  LET m2 == CopyKernelHalf(m, <<t, e>>, InitVspace)
         IN  /\ Tree(m2, n, at, H) /\ Keeps(m, m2, at) /\ DOMAIN m2 = DOMAIN m
             /\ \A u \in DOMAIN m, i \in Slots :
                  at[u].l # 3 \/ i \notin KernelHalf => m2[u][i] = m[u][i]
<1> DEFINE m2 == CopyKernelHalf(m, <<t, e>>, InitVspace)
           K(i) == i >= e /\ i - e \in KernelHalf
<1>1. IsTables(m) /\ m[t] = [i \in Slots |-> m[t][i]]
  BY DEF Tree, IsTables
<1>2. m2 = [m EXCEPT ![t] = [i \in Slots |-> IF K(i) THEN m[InitVspace][i - e] ELSE m[t][i]]]
  <2>1. m2 = [m EXCEPT ![t] = [i \in DOMAIN m[t] |->
                 IF i >= e /\ i - e \in KernelHalf THEN m[InitVspace][i - e] ELSE m[t][i]]]
    BY DEF CopyKernelHalf
  <2>2. DOMAIN m[t] = Slots
    BY <1>1
  <2> QED BY <2>1, <2>2
<1>3. \A i \in Slots : K(i) => i \in KernelHalf
  BY Spans DEF Slots, KernelHalf
<1> HIDE DEF m2, K
<1>4. /\ DOMAIN m2 = DOMAIN m
      /\ \A u \in DOMAIN m : m2[u] = IF u = t THEN [i \in Slots |->
              IF K(i) THEN m[InitVspace][i - e] ELSE m[t][i]] ELSE m[u]
  BY <1>1, <1>2 DEF IsTables
<1>5. \A u \in DOMAIN m, i \in Slots :
        m2[u][i] = IF u = t /\ K(i) THEN m[InitVspace][i - e] ELSE m[u][i]
  BY <1>4
<1>6. IsTables(m2)
  <2>1. m2 = [u \in DOMAIN m2 |-> m2[u]]
    BY <1>2, <1>1 DEF IsTables
  <2>2. ASSUME NEW u \in DOMAIN m2 PROVE m2[u] = [j \in Slots |-> m2[u][j]]
    BY <1>1, <1>4 DEF IsTables
  <2> QED BY <2>1, <2>2 DEF IsTables
<1>7. \A g : Opaque(m2, n, g) <=> Opaque(m, n, g)
  BY <1>4 DEF Opaque
<1>8. \A i \in Slots : K(i) => Opaque(m, n, m[InitVspace][i - e])
  BY DEF K, Tree
<1>9. ASSUME NEW u \in DOMAIN m2, NEW i \in Slots, at[u].l # 0
      PROVE  Child(m2, n, at, H, u, i)
  <2>1. CASE u = t /\ K(i)
    <3>1. m2[u][i] = m[InitVspace][i - e] /\ i \in KernelHalf /\ at[u].l = 3
      BY <1>3, <1>4, <1>5, <2>1
    <3>2. Opaque(m2, n, m2[u][i])
      BY <1>7, <1>8, <2>1, <3>1
    <3> QED BY <3>1, <3>2 DEF Child
  <2>2. CASE ~(u = t /\ K(i))
    <3>1. m2[u][i] = m[u][i] /\ Child(m, n, at, H, u, i)
      BY <1>4, <1>5, <1>9, <2>2 DEF Tree
    <3> QED BY <1>4, <1>7, <3>1 DEF Child
  <2> QED BY <2>1, <2>2
<1>10. ASSUME NEW j \in KernelHalf PROVE Opaque(m2, n, m2[InitVspace][j])
  <2>1. InitVspace \in DOMAIN m /\ Opaque(m, n, m[InitVspace][j]) /\ j \in Slots
    BY Spans DEF Tree, KernelHalf, Slots
  <2>2. CASE InitVspace = t /\ K(j)
    BY <1>5, <1>7, <1>8, <2>1, <2>2
  <2>3. CASE ~(InitVspace = t /\ K(j))
    BY <1>5, <1>7, <2>1, <2>3
  <2> QED BY <2>2, <2>3
<1>11. Tree(m2, n, at, H)
  BY <1>4, <1>6, <1>9, <1>10 DEF Tree
<1>12. \A u \in DOMAIN m, i \in Slots : at[u].l # 3 \/ i \notin KernelHalf => m2[u][i] = m[u][i]
  BY <1>3, <1>5
<1>13. Keeps(m, m2, at)
  BY <1>4, <1>12 DEF Keeps
<1> QED BY <1>4, <1>11, <1>12, <1>13 DEF m2

-----------------------------------------------------------------------------
(* One step down the way: the next table, or a huge page. *)
LEMMA WalkDown ==
  ASSUME NEW m, NEW n, NEW at, NEW H, Tree(m, n, at, H), NEW a \in User,
         NEW l \in 1..3, NEW t, OnWay(m, at, t, l, a), m[t][Index(a, l)] # 0
  PROVE  \/ OnWay(m, at, m[t][Index(a, l)], l - 1, a)
         \/ /\ l = 1 /\ m[t][Index(a, l)] \notin DOMAIN m
            /\ HugeAt(H, PlaceOf(a, 1), Index(a, 1))
<1> DEFINE i == Index(a, l)
<1>1. t \in DOMAIN m /\ i \in Slots /\ at[t] = PlaceOf(a, l) /\ at[t].l = l /\ at[t].l # 0
  BY PlaceFields, Indices DEF OnWay
<1>2. Child(m, n, at, H, t, i) /\ m[t][i] # 0
  BY <1>1 DEF Tree
<1>3. PlaceOf(a, l - 1) = Under(PlaceOf(a, l), i)
  <2>1. l = 1 \/ l = 2 \/ l = 3
    OBVIOUS
  <2>2. CASE l = 3
    BY <2>2, l - 1 = 2 DEF PlaceOf, Place2
  <2>3. CASE l = 2
    BY <2>3, l - 1 = 1 DEF PlaceOf, Place1
  <2>4. CASE l = 1
    BY <2>4, l - 1 = 0 DEF PlaceOf, Place0
  <2> QED BY <2>1, <2>2, <2>3, <2>4
<1>4. CASE m[t][i] \in DOMAIN m /\ at[m[t][i]] = Under(at[t], i)
  BY <1>1, <1>3, <1>4 DEF OnWay
<1>5. CASE Opaque(m, n, m[t][i]) /\ l = 3 /\ i \in KernelHalf
  BY <1>5, Indices
<1>6. CASE Opaque(m, n, m[t][i]) /\ l = 1 /\ HugeAt(H, at[t], i)
  BY <1>1, <1>6 DEF Opaque
<1> QED BY <1>1, <1>2, <1>4, <1>5, <1>6 DEF Child

LEMMA WalkFromTop ==
  ASSUME NEW m, NEW n, NEW at, NEW H, Tree(m, n, at, H), NEW a \in User,
         NEW t, OnWay(m, at, t, 3, a), m[t][Index(a, 3)] # 0
  PROVE  OnWay(m, at, m[t][Index(a, 3)], 2, a)
BY WalkDown, 3 - 1 = 2

LEMMA WalkFromPdpt ==
  ASSUME NEW m, NEW n, NEW at, NEW H, Tree(m, n, at, H), NEW a \in User,
         NEW t, OnWay(m, at, t, 2, a), m[t][Index(a, 2)] # 0
  PROVE  OnWay(m, at, m[t][Index(a, 2)], 1, a)
BY WalkDown, 2 - 1 = 1

LEMMA WalkFromPd ==
  ASSUME NEW m, NEW n, NEW at, NEW H, Tree(m, n, at, H), NEW a \in User,
         NEW t, OnWay(m, at, t, 1, a), m[t][Index(a, 1)] # 0
  PROVE  \/ OnWay(m, at, m[t][Index(a, 1)], 0, a)
         \/ m[t][Index(a, 1)] \notin DOMAIN m /\ HugeAt(H, PlaceOf(a, 1), Index(a, 1))
BY WalkDown, 1 - 1 = 0

(* Entry Index(a, l) of the table on the way to a was zero and becomes f.  *)
Writes(m, at, l, a, f, m2) ==
  \E t : /\ OnWay(m, at, t, l, a) /\ m[t][Index(a, l)] = 0
         /\ m2 = Store(m, <<t, Index(a, l)>>, f)

LEMMA Steps ==
  ASSUME NEW m, NEW root, NEW a
  PROVE  /\ get_pml4e(m, root, a) = <<root, Index(a, 3)>>
         /\ get_pdpte(m, root, a) = <<m[root][Index(a, 3)], Index(a, 2)>>
         /\ get_pde(m, root, a) = <<m[m[root][Index(a, 3)]][Index(a, 2)], Index(a, 1)>>
         /\ get_pte(m, root, a) =
              <<m[m[m[root][Index(a, 3)]][Index(a, 2)]][Index(a, 1)], Index(a, 0)>>
<1>1. get_pml4e(m, root, a) = <<root, Index(a, 3)>>
  BY DEF get_pml4e
<1>2. get_pdpte(m, root, a) = <<m[root][Index(a, 3)], Index(a, 2)>>
  BY <1>1 DEF get_pdpte, Load
<1>3. get_pde(m, root, a) = <<m[m[root][Index(a, 3)]][Index(a, 2)], Index(a, 1)>>
  BY <1>2 DEF get_pde, Load
<1>4. get_pte(m, root, a) =
        <<m[m[m[root][Index(a, 3)]][Index(a, 2)]][Index(a, 1)], Index(a, 0)>>
  BY <1>3 DEF get_pte, Load
<1> QED BY <1>1, <1>2, <1>3, <1>4

LEMMA MapOnce ==
  ASSUME NEW m, NEW t, NEW i, NEW f
  PROVE  LET r == MapUnlessPresent(m, <<t, i>>, f)
         IN  /\ r.level = 0
             /\ \/ r.mem = m
                \/ m[t][i] = 0 /\ r.mem = Store(m, <<t, i>>, f)
BY DEF MapUnlessPresent, Present, Load, already_mapped, msg_ok

(* Obj/page.c: each map method writes at most one entry, on the way to the *)
(* address and at the level of the method.                                 *)
LEMMA PdMap ==
  ASSUME NEW m, NEW n, NEW at, NEW H, Tree(m, n, at, H), NEW a \in User,
         NEW root, OnWay(m, at, root, 3, a), NEW f
  PROVE  LET r == x86_64_pd_map(m, f, root, a)
         IN  r.mem = m \/ Writes(m, at, 2, a, f, r.mem)
<1> DEFINE r == x86_64_pd_map(m, f, root, a)
           t2 == m[root][Index(a, 3)]
<1>1. CASE t2 = 0
  BY <1>1, Steps DEF x86_64_pd_map, Present, Load, table_missing
<1>2. CASE t2 # 0
  <2>1. OnWay(m, at, t2, 2, a)
    BY <1>2, WalkFromTop
  <2>2. r = MapUnlessPresent(m, <<t2, Index(a, 2)>>, f)
    BY <1>2, Steps DEF x86_64_pd_map, Present, Load
  <2>3. r.mem = m \/ (m[t2][Index(a, 2)] = 0 /\ r.mem = Store(m, <<t2, Index(a, 2)>>, f))
    BY <2>2, MapOnce
  <2> QED BY <2>1, <2>3 DEF Writes
<1> QED BY <1>1, <1>2

LEMMA PtMap ==
  ASSUME NEW m, NEW n, NEW at, NEW H, Tree(m, n, at, H), NEW a \in User,
         NEW root, OnWay(m, at, root, 3, a), NEW f
  PROVE  LET r == x86_64_pt_map(m, f, root, a)
         IN  r.mem = m \/ Writes(m, at, 1, a, f, r.mem)
<1> DEFINE r == x86_64_pt_map(m, f, root, a)
           t2 == m[root][Index(a, 3)]
           t1 == m[t2][Index(a, 2)]
<1>1. CASE t2 = 0
  BY <1>1, Steps DEF x86_64_pt_map, Present, Load, table_missing
<1>2. CASE t2 # 0 /\ t1 = 0
  BY <1>2, Steps DEF x86_64_pt_map, Present, Load, table_missing
<1>3. CASE t2 # 0 /\ t1 # 0
  <2>1. OnWay(m, at, t2, 2, a)
    BY <1>3, WalkFromTop
  <2>2. OnWay(m, at, t1, 1, a)
    BY <1>3, <2>1, WalkFromPdpt
  <2>3. r = MapUnlessPresent(m, <<t1, Index(a, 1)>>, f)
    BY <1>3, Steps DEF x86_64_pt_map, Present, Load
  <2>4. r.mem = m \/ (m[t1][Index(a, 1)] = 0 /\ r.mem = Store(m, <<t1, Index(a, 1)>>, f))
    BY <2>3, MapOnce
  <2> QED BY <2>2, <2>4 DEF Writes
<1> QED BY <1>1, <1>2, <1>3

LEMMA PageMap ==
  ASSUME NEW m, NEW n, NEW at, NEW H, Tree(m, n, at, H), NEW a \in User,
         NEW root, OnWay(m, at, root, 3, a), NEW f
  PROVE  LET r == x86_64_page_map(m, f, root, a)
         IN  /\ r.level \in 0..3
             /\ r.mem = m \/ Writes(m, at, 0, a, f, r.mem)
<1> DEFINE r == x86_64_page_map(m, f, root, a)
           t2 == m[root][Index(a, 3)]
           t1 == m[t2][Index(a, 2)]
           t0 == m[t1][Index(a, 1)]
<1>1. CASE t2 = 0
  BY <1>1, Steps DEF x86_64_page_map, Present, Load, table_missing
<1>2. CASE t2 # 0 /\ t1 = 0
  BY <1>2, Steps DEF x86_64_page_map, Present, Load, table_missing
<1>3. CASE t2 # 0 /\ t1 # 0 /\ t0 = 0
  BY <1>3, Steps DEF x86_64_page_map, Present, Load, table_missing
<1>4. CASE t2 # 0 /\ t1 # 0 /\ t0 # 0
  <2>1. OnWay(m, at, t2, 2, a)
    BY <1>4, WalkFromTop
  <2>2. OnWay(m, at, t1, 1, a)
    BY <1>4, <2>1, WalkFromPdpt
  <2>3. OnWay(m, at, t0, 0, a) \/ t0 \notin DOMAIN m
    BY <1>4, <2>2, WalkFromPd
  <2>4. r = MapUnlessPresent(m, <<t0, Index(a, 0)>>, f)
    BY <1>4, Steps DEF x86_64_page_map, Present, Load
  <2> HIDE DEF r, t0
  <2>5. /\ r.level = 0
        /\ r.mem = m \/ (m[t0][Index(a, 0)] = 0 /\ r.mem = Store(m, <<t0, Index(a, 0)>>, f))
    BY <2>4, MapOnce
  <2>6. t0 \notin DOMAIN m => Store(m, <<t0, Index(a, 0)>>, f) = m
    BY StoreNowhere DEF Tree
  <2>7. r.mem = m \/ Writes(m, at, 0, a, f, r.mem)
    BY <2>3, <2>5, <2>6 DEF Writes
  <2> QED BY <2>5, <2>7 DEF r
<1> QED BY <1>1, <1>2, <1>3, <1>4

(* A table is made and mapped, or made in vain. *)
LEMMA TableMapped ==
  ASSUME NEW n, NEW at, NEW H, Tree(mem, n, at, H), NEW a \in User,
         NEW root, OnWay(mem, at, root, 3, a), NEW lvl \in 1..3
  PROVE  LET m2 == WithTable(TableMap(lvl, n, root, a).mem, n)
         IN  \E at2 : /\ Tree(m2, n + 1, at2, H) /\ SamePlaces(mem, at, at2)
                      /\ Keeps(mem, m2, at)
<1> DEFINE r == TableMap(lvl, n, root, a)
           m2 == WithTable(r.mem, n)
           Good(m) == \E at2 : /\ Tree(WithTable(m, n), n + 1, at2, H)
                               /\ SamePlaces(mem, at, at2) /\ Keeps(mem, WithTable(m, n), at)
<1>1. Good(mem)
  <2>1. Top \in Places
    BY PlaceFields
  <2> QED BY <2>1, TreeGrows
<1>2. ASSUME NEW m, NEW l \in 1..3, Writes(mem, at, l, a, n, m) PROVE Good(m)
  <2>1. PICK t : OnWay(mem, at, t, l, a) /\ mem[t][Index(a, l)] = 0
                 /\ m = Store(mem, <<t, Index(a, l)>>, n)
    BY <1>2 DEF Writes
  <2>2. t \in DOMAIN mem /\ Index(a, l) \in Slots /\ at[t].l # 0
    BY <2>1, PlaceFields, Indices DEF OnWay
  <2> QED BY <2>1, <2>2, TableAttached
<1>3. CASE lvl = 1
  <2>1. r.mem = mem \/ Writes(mem, at, 1, a, n, r.mem)
    BY <1>3, PtMap DEF TableMap
  <2> QED BY <1>1, <1>2, <2>1
<1>4. CASE lvl = 2
  <2>1. r.mem = mem \/ Writes(mem, at, 2, a, n, r.mem)
    BY <1>4, PdMap DEF TableMap
  <2> QED BY <1>1, <1>2, <2>1
<1>5. CASE lvl = 3
  <2> DEFINE i == Index(a, 3)
             c == CopyKernelHalf(mem, <<root, i>>, InitVspace)
  <2>1. root \in DOMAIN mem /\ i \in Slots /\ i \notin KernelHalf /\ at[root] = Top
    BY Indices, PlaceFields DEF OnWay
  <2>2. at[root].l = 3
    BY <2>1 DEF Top
  <2>3. Tree(c, n, at, H) /\ Keeps(mem, c, at) /\ DOMAIN c = DOMAIN mem
    BY <2>1, <2>2, TreeCopy
  <2>4. r = MapUnlessPresent(c, <<root, i>>, n)
    BY <1>5, Steps DEF TableMap, x86_64_pdpt_map
  <2> HIDE DEF c, r
  <2>5. r.mem = c \/ (c[root][i] = 0 /\ r.mem = Store(c, <<root, i>>, n))
    BY <2>4, MapOnce
  <2>6. \E at2 : /\ Tree(m2, n + 1, at2, H) /\ SamePlaces(c, at, at2) /\ Keeps(c, m2, at)
    <3>1. CASE r.mem = c
      <4>1. Top \in Places
        BY PlaceFields
      <4> QED BY <2>3, <3>1, <4>1, TreeGrows
    <3>2. CASE c[root][i] = 0 /\ r.mem = Store(c, <<root, i>>, n)
      <4>1. at[root].l # 0
        BY <2>2
      <4> QED BY <2>1, <2>3, <3>2, <4>1, TableAttached
    <3> QED BY <2>5, <3>1, <3>2
  <2>7. PICK at2 : Tree(m2, n + 1, at2, H) /\ SamePlaces(c, at, at2) /\ Keeps(c, m2, at)
    BY <2>6
  <2>8. Keeps(mem, m2, at)
    <3> HIDE DEF m2
    <3>1. DOMAIN mem \subseteq DOMAIN m2
      BY <2>3, <2>7 DEF Keeps
    <3>2. ASSUME NEW t \in DOMAIN mem, NEW j \in Slots, mem[t][j] # 0
          PROVE  m2[t][j] = mem[t][j] \/ (at[t].l = 3 /\ j \in KernelHalf)
      <4>1. c[t][j] = mem[t][j] \/ (at[t].l = 3 /\ j \in KernelHalf)
        BY <2>3, <3>2 DEF Keeps
      <4>2. c[t][j] # 0 => m2[t][j] = c[t][j] \/ (at[t].l = 3 /\ j \in KernelHalf)
        BY <2>3, <2>7 DEF Keeps
      <4> QED BY <3>2, <4>1, <4>2
    <3> QED BY <3>1, <3>2 DEF Keeps
  <2>9. SamePlaces(mem, at, at2)
    BY <2>3, <2>7 DEF SamePlaces
  <2>10. Tree(m2, n + 1, at2, H)
    BY <2>7
  <2> HIDE DEF m2
  <2>11. \E x : /\ Tree(m2, n + 1, x, H) /\ SamePlaces(mem, at, x) /\ Keeps(mem, m2, at)
    BY <2>8, <2>9, <2>10
  <2> QED BY <2>11 DEF m2, r
<1> QED BY <1>3, <1>4, <1>5

(* a lies in no huge page. *)
BesideHuge(H, a) ==
  \A h \in H : a \div (PageBytes * Radix) # h \div (PageBytes * Radix)

(* Where entries are kept, mappings of the user are. *)
LEMMA MappingKept ==
  ASSUME NEW m, NEW n, NEW at, NEW H, Tree(m, n, at, H), NEW m2, Keeps(m, m2, at),
         NEW a \in User, H \subseteq User,
         BesideHuge(H, a),
         NEW root, OnWay(m, at, root, 3, a), resolve_vm_mapping(m, root, a) # 0
  PROVE  resolve_vm_mapping(m2, root, a) = resolve_vm_mapping(m, root, a)
<1> DEFINE i3 == Index(a, 3)
           i2 == Index(a, 2)
           i1 == Index(a, 1)
           i0 == Index(a, 0)
           t2 == m[root][i3]
           t1 == m[t2][i2]
           t0 == m[t1][i1]
<1>1. t2 # 0 /\ t1 # 0 /\ t0 # 0 /\ resolve_vm_mapping(m, root, a) = m[t0][i0]
  BY Steps DEF resolve_vm_mapping, Present, Load
<1>2. i3 \in Slots /\ i3 \notin KernelHalf /\ i2 \in Slots /\ i1 \in Slots /\ i0 \in Slots
  BY Indices
<1>3. OnWay(m, at, t2, 2, a)
  BY <1>1, WalkFromTop
<1>4. OnWay(m, at, t1, 1, a)
  BY <1>1, <1>3, WalkFromPdpt
<1>5. ~HugeAt(H, PlaceOf(a, 1), i1)
  <2> SUFFICES ASSUME NEW h \in H, PlaceOf(a, 1) = PlaceOf(h, 1), i1 = Index(h, 1)
               PROVE  FALSE
    BY DEF HugeAt
  <2>1. h \in User
    OBVIOUS
  <2>2. a \div (PageBytes * Radix) = h \div (PageBytes * Radix)
    BY <2>1, SameWay
  <2> QED BY <2>2 DEF BesideHuge
<1>6. OnWay(m, at, t0, 0, a)
  BY <1>1, <1>4, <1>5, WalkFromPd
<1>7. at[t2].l = 2 /\ at[t1].l = 1 /\ at[t0].l = 0
  BY <1>3, <1>4, <1>6, PlaceFields DEF OnWay
<1>8. root \in DOMAIN m /\ t2 \in DOMAIN m /\ t1 \in DOMAIN m /\ t0 \in DOMAIN m
  BY <1>3, <1>4, <1>6 DEF OnWay
<1>9. m2[root][i3] = t2
  BY <1>1, <1>2, <1>8 DEF Keeps
<1>10. m2[t2][i2] = t1
  BY <1>1, <1>2, <1>7, <1>8 DEF Keeps
<1>11. m2[t1][i1] = t0
  BY <1>1, <1>2, <1>7, <1>8 DEF Keeps
<1>12. m2[t0][i0] = m[t0][i0]
  <2>1. m[t0][i0] # 0
    BY <1>1
  <2> QED BY <1>2, <1>7, <1>8, <2>1 DEF Keeps
<1>13. resolve_vm_mapping(m2, root, a) = m2[t0][i0]
  <2>1. /\ get_pml4e(m2, root, a) = <<root, i3>> /\ get_pdpte(m2, root, a) = <<t2, i2>>
        /\ get_pde(m2, root, a) = <<t1, i1>> /\ get_pte(m2, root, a) = <<t0, i0>>
    <3> HIDE DEF i3, i2, i1, i0, t2, t1, t0
    <3>1. get_pml4e(m2, root, a) = <<root, i3>>
      BY DEF get_pml4e, i3
    <3>2. get_pdpte(m2, root, a) = <<t2, i2>>
      BY <1>9, <3>1 DEF get_pdpte, Load, i2
    <3>3. get_pde(m2, root, a) = <<t1, i1>>
      BY <1>10, <3>2 DEF get_pde, Load, i1
    <3> QED BY <1>11, <3>1, <3>2, <3>3 DEF get_pte, Load, i0
  <2>2. /\ Load(m2, <<root, i3>>) = t2 /\ Load(m2, <<t2, i2>>) = t1
        /\ Load(m2, <<t1, i1>>) = t0 /\ Load(m2, <<t0, i0>>) = m2[t0][i0]
    BY <1>9, <1>10, <1>11 DEF Load
  <2> HIDE DEF i3, i2, i1, i0, t2, t1, t0
  <2> QED BY <1>1, <2>1, <2>2 DEF resolve_vm_mapping, Present
<1> QED BY <1>1, <1>12, <1>13

-----------------------------------------------------------------------------
(* Every page mapped in m2 was mapped in m. *)
NoNewPages(m, at, m2, at2) ==
  \A t \in DOMAIN m2, i \in Slots :
    at2[t].l = 0 /\ m2[t][i] # 0 => t \in DOMAIN m /\ m2[t][i] = m[t][i] /\ at2[t] = at[t]

(* m with the places at has become m2 with at2. *)
Grown(m, n, at, m2, n2, at2) ==
  /\ Tree(m2, n2, at2, {}) /\ n <= n2
  /\ SamePlaces(m, at, at2) /\ Keeps(m, m2, at) /\ NoNewPages(m, at, m2, at2)

LEMMA GrownTwice ==
  ASSUME NEW m, NEW n, NEW at, NEW m1, NEW n1, NEW at1, NEW m2, NEW n2, NEW at2,
         n \in Nat, Grown(m, n, at, m1, n1, at1), Grown(m1, n1, at1, m2, n2, at2)
  PROVE  Grown(m, n, at, m2, n2, at2)
<1>1. n1 \in Nat /\ n2 \in Nat /\ n <= n2 /\ Tree(m2, n2, at2, {})
  <2>1. n1 \in Nat /\ n2 \in Nat
    BY DEF Grown, Tree
  <2> QED BY <2>1 DEF Grown
<1>2. SamePlaces(m, at, at2)
  BY DEF Grown, SamePlaces, Keeps
<1>3. Keeps(m, m2, at)
  <2>1. DOMAIN m \subseteq DOMAIN m1 /\ DOMAIN m \subseteq DOMAIN m2
    BY DEF Grown, Keeps
  <2>2. ASSUME NEW t \in DOMAIN m, NEW i \in Slots, m[t][i] # 0
        PROVE  m2[t][i] = m[t][i] \/ (at[t].l = 3 /\ i \in KernelHalf)
    <3>1. m1[t][i] = m[t][i] \/ (at[t].l = 3 /\ i \in KernelHalf)
      BY <2>2 DEF Grown, Keeps
    <3>2. t \in DOMAIN m1 /\ at1[t] = at[t]
      BY <2>1 DEF Grown, SamePlaces
    <3>3. m1[t][i] # 0 => m2[t][i] = m1[t][i] \/ (at[t].l = 3 /\ i \in KernelHalf)
      BY <3>2 DEF Grown, Keeps
    <3> QED BY <2>2, <3>1, <3>3
  <2> QED BY <2>1, <2>2 DEF Keeps
<1>4. NoNewPages(m, at, m2, at2)
  <2> SUFFICES ASSUME NEW t \in DOMAIN m2, NEW i \in Slots, at2[t].l = 0, m2[t][i] # 0
               PROVE  t \in DOMAIN m /\ m2[t][i] = m[t][i] /\ at2[t] = at[t]
    BY DEF NoNewPages
  <2>1. t \in DOMAIN m1 /\ m2[t][i] = m1[t][i] /\ at2[t] = at1[t]
    BY DEF Grown, NoNewPages
  <2>2. t \in DOMAIN m /\ m1[t][i] = m[t][i] /\ at1[t] = at[t]
    BY <2>1 DEF Grown, NoNewPages
  <2> QED BY <2>1, <2>2
<1> QED BY <1>1, <1>2, <1>3, <1>4 DEF Grown

(* kern/arch/x86_64/mmu.c: a table that is missing is made. *)
LEMMA AllocTable ==
  ASSUME NEW m, NEW n, NEW at, Tree(m, n, at, {}), NEW b \in User,
         NEW l \in 1..3, NEW t, OnWay(m, at, t, l, b)
  PROVE  LET i == Index(b, l)
             y == alloc_table([mem |-> m, next |-> n], <<t, i>>)
         IN  \E m2, n2, at2 :
               /\ y = [mem |-> m2, next |-> n2]
               /\ Grown(m, n, at, m2, n2, at2)
               /\ OnWay(m2, at2, m2[t][i], l - 1, b) /\ m2[t][i] # 0
<1> DEFINE i == Index(b, l)
           x == [mem |-> m, next |-> n]
           y == alloc_table(x, <<t, i>>)
<1>1. t \in DOMAIN m /\ i \in Slots /\ at[t] = PlaceOf(b, l) /\ at[t].l # 0 /\ n \in Nat \ {0}
  <2>1. n \in Nat /\ DOMAIN m \subseteq 1..(n - 1)
    BY DEF Tree
  <2>2. n # 0
    BY <2>1 DEF OnWay
  <2> QED BY <2>1, <2>2, PlaceFields, Indices DEF OnWay
<1>2. CASE m[t][i] # 0
  <2>1. y = [mem |-> m, next |-> n]
    BY <1>2 DEF alloc_table, Present, Load
  <2>2. OnWay(m, at, m[t][i], l - 1, b)
    BY <1>2, WalkDown DEF HugeAt
  <2>3. Grown(m, n, at, m, n, at)
    BY <1>1 DEF Grown, SamePlaces, Keeps, NoNewPages
  <2> HIDE DEF y
  <2>4. /\ y = [mem |-> m, next |-> n] /\ Grown(m, n, at, m, n, at)
        /\ OnWay(m, at, m[t][i], l - 1, b) /\ m[t][i] # 0
    BY <1>2, <2>1, <2>2, <2>3
  <2> QED BY <2>4 DEF y
<1>3. CASE m[t][i] = 0
  <2> DEFINE m2 == WithTable(Store(m, <<t, i>>, n), n)
             at2 == Extend(at, m, n, Under(at[t], i))
  <2>1. y = [mem |-> m2, next |-> n + 1]
    BY <1>3 DEF alloc_table, Present, Load
  <2>a. m2 = WithTable(Store(m, <<t, i>>, n), n) /\ at2 = Extend(at, m, n, Under(at[t], i))
    OBVIOUS
  <2> HIDE DEF m2, at2, y
  <2>2. /\ Tree(m2, n + 1, at2, {}) /\ SamePlaces(m, at, at2) /\ Keeps(m, m2, at)
        /\ DOMAIN m2 = DOMAIN m \cup {n} /\ at2[n] = Under(at[t], i)
        /\ m2[t][i] = n
        /\ \A u \in DOMAIN m, j \in Slots : (u = t /\ j = i) \/ m2[u][j] = m[u][j]
    BY <1>1, <1>3, <2>a, TreeAttach
  <2>b. m2[n] = EmptyTable
    BY <2>a DEF WithTable
  <2>d. \A j \in Slots : m2[n][j] = 0
    BY <2>b DEF EmptyTable, Slots
  <2>3. NoNewPages(m, at, m2, at2)
    <3> SUFFICES ASSUME NEW u \in DOMAIN m2, NEW j \in Slots, at2[u].l = 0, m2[u][j] # 0
                 PROVE  u \in DOMAIN m /\ m2[u][j] = m[u][j] /\ at2[u] = at[u]
      BY DEF NoNewPages
    <3>1. u # n
      BY <2>d
    <3>2. u \in DOMAIN m /\ at2[u] = at[u]
      BY <2>2, <3>1 DEF SamePlaces
    <3>3. u # t
      BY <1>1, <3>2
    <3> QED BY <2>2, <3>2, <3>3
  <2>4. Grown(m, n, at, m2, n + 1, at2)
    BY <1>1, <2>2, <2>3 DEF Grown
  <2>5. PlaceOf(b, l - 1) = Under(PlaceOf(b, l), i)
    <3>1. l = 1 \/ l = 2 \/ l = 3
      OBVIOUS
    <3>2. CASE l = 3
      BY <3>2, l - 1 = 2 DEF PlaceOf, Place2
    <3>3. CASE l = 2
      BY <3>3, l - 1 = 1 DEF PlaceOf, Place1
    <3>4. CASE l = 1
      BY <3>4, l - 1 = 0 DEF PlaceOf, Place0
    <3> QED BY <3>1, <3>2, <3>3, <3>4
  <2>6. OnWay(m2, at2, m2[t][i], l - 1, b) /\ m2[t][i] # 0
    BY <1>1, <2>2, <2>5 DEF OnWay
  <2>7. \E x2, n2, y2 : /\ y = [mem |-> x2, next |-> n2] /\ Grown(m, n, at, x2, n2, y2)
                        /\ OnWay(x2, y2, x2[t][i], l - 1, b) /\ x2[t][i] # 0
    BY <2>1, <2>4, <2>6
  <2> QED BY <2>7 DEF y
<1> QED BY <1>2, <1>3

LEMMA TableAllocated ==
  ASSUME NEW m, NEW n, NEW at, Tree(m, n, at, {}), NEW b \in User,
         NEW l \in 1..3, NEW t, OnWay(m, at, t, l, b), NEW i, i = Index(b, l),
         NEW y, y = alloc_table([mem |-> m, next |-> n], <<t, i>>), NEW k, k = l - 1
  PROVE  \E m2, n2, at2 :
           /\ y = [mem |-> m2, next |-> n2] /\ Grown(m, n, at, m2, n2, at2)
           /\ OnWay(m2, at2, m2[t][i], k, b) /\ m2[t][i] # 0
BY AllocTable

(* A page is mapped at boot where none was. *)
LEMMA BootMapped ==
  ASSUME NEW m, NEW n, NEW at, Tree(m, n, at, {}), NEW b \in User, NEW f,
         \A t : OnWay(m, at, t, 0, b) => m[t][Index(b, 0)] = 0
  PROVE  LET x == add_vm_mapping([mem |-> m, next |-> n], InitVspace, b, f)
         IN  \E at2 :
               /\ Tree(x.mem, x.next, at2, {}) /\ n <= x.next
               /\ SamePlaces(m, at, at2) /\ Keeps(m, x.mem, at)
               /\ \A t \in DOMAIN x.mem, i \in Slots :
                    at2[t].l = 0 /\ x.mem[t][i] # 0 =>
                      \/ t \in DOMAIN m /\ m[t][i] # 0 /\ at2[t] = at[t]
                      \/ at2[t] = PlaceOf(b, 0) /\ i = Index(b, 0)
<1> DEFINE x0 == [mem |-> m, next |-> n]
           r == InitVspace
           i3 == Index(b, 3)
           i2 == Index(b, 2)
           i1 == Index(b, 1)
           i0 == Index(b, 0)
           x3 == alloc_table(x0, get_pml4e(m, r, b))
           x2 == alloc_table(x3, get_pdpte(x3.mem, r, b))
           x1 == alloc_table(x2, get_pde(x2.mem, r, b))
           x == [x1 EXCEPT !.mem = Store(@, get_pte(@, r, b), f)]
<1>0. add_vm_mapping(x0, r, b, f) = x
  BY DEF add_vm_mapping
<1>a. n \in Nat /\ i3 \in Slots /\ i3 \notin KernelHalf /\ i2 \in Slots /\ i1 \in Slots /\ i0 \in Slots
  BY Indices DEF Tree
<1>b. OnWay(m, at, r, 3, b)
  BY PlaceFields DEF Tree, OnWay
<1>1. PICK m3, n3, at3 : /\ x3 = [mem |-> m3, next |-> n3] /\ Grown(m, n, at, m3, n3, at3)
                         /\ OnWay(m3, at3, m3[r][i3], 2, b) /\ m3[r][i3] # 0
  <2>1. x3 = alloc_table(x0, <<r, i3>>)
    BY Steps
  <2> HIDE DEF x3
  <2> QED BY <1>b, <2>1, TableAllocated, 3 - 1 = 2
<1> HIDE DEF x3
<1>2. PICK m2, n2, at2 : /\ x2 = [mem |-> m2, next |-> n2] /\ Grown(m3, n3, at3, m2, n2, at2)
                         /\ OnWay(m2, at2, m2[m3[r][i3]][i2], 1, b) /\ m2[m3[r][i3]][i2] # 0
  <2>1. x2 = alloc_table([mem |-> m3, next |-> n3], <<m3[r][i3], i2>>)
    BY <1>1, Steps
  <2>2. Tree(m3, n3, at3, {})
    BY <1>1 DEF Grown
  <2> HIDE DEF x2
  <2> QED BY <1>1, <2>1, <2>2, TableAllocated, 2 - 1 = 1
<1> HIDE DEF x2
<1> DEFINE t2 == m3[r][i3]
<1>3. m2[r][i3] = t2
  <2>1. r \in DOMAIN m3
    BY <1>1 DEF Grown, Tree
  <2> QED BY <1>1, <1>2, <1>a, <2>1 DEF Grown, Keeps
<1> DEFINE t1 == m2[t2][i2]
<1>4. PICK m1, n1, at1 : /\ x1 = [mem |-> m1, next |-> n1] /\ Grown(m2, n2, at2, m1, n1, at1)
                         /\ OnWay(m1, at1, m1[t1][i1], 0, b) /\ m1[t1][i1] # 0
  <2>1. x1 = alloc_table([mem |-> m2, next |-> n2], <<t1, i1>>)
    BY <1>2, <1>3, Steps
  <2>2. Tree(m2, n2, at2, {})
    BY <1>2 DEF Grown
  <2> HIDE DEF x1
  <2> QED BY <1>2, <2>1, <2>2, TableAllocated, 1 - 1 = 0
<1> HIDE DEF x1
<1> DEFINE t0 == m1[t1][i1]
<1>5. m1[r][i3] = t2 /\ m1[t2][i2] = t1
  <2>1. r \in DOMAIN m2 /\ t2 \in DOMAIN m2
    BY <1>1, <1>2 DEF Grown, Tree, OnWay, Keeps
  <2>2. at2[t2].l = 2
    <3>1. t2 \in DOMAIN m3 /\ at3[t2] = PlaceOf(b, 2)
      BY <1>1 DEF OnWay
    <3>2. at2[t2] = PlaceOf(b, 2)
      BY <1>2, <3>1 DEF Grown, SamePlaces
    <3> QED BY <3>2, PlaceFields
  <2>3. m1[r][i3] = m2[r][i3]
    BY <1>1, <1>3, <1>4, <1>a, <2>1 DEF Grown, Keeps
  <2>4. m1[t2][i2] = m2[t2][i2]
    BY <1>2, <1>4, <1>a, <2>1, <2>2 DEF Grown, Keeps
  <2> QED BY <1>3, <2>3, <2>4
<1>6. Grown(m, n, at, m1, n1, at1)
  <2>1. n \in Nat /\ n3 \in Nat
    BY <1>1 DEF Grown, Tree
  <2>2. Grown(m, n, at, m2, n2, at2)
    BY <1>1, <1>2, <2>1, GrownTwice
  <2> QED BY <1>4, <2>1, <2>2, GrownTwice
<1>7. x.mem = Store(m1, <<t0, i0>>, f) /\ x.next = n1
  <2>1. get_pte(m1, r, b) = <<t0, i0>>
    BY <1>5, Steps
  <2> QED BY <1>4, <2>1
<1>8. t0 \in DOMAIN m1 /\ at1[t0] = PlaceOf(b, 0) /\ at1[t0].l = 0
  BY <1>4, PlaceFields DEF OnWay
<1>9. m1[t0][i0] = 0
  <2> SUFFICES ASSUME m1[t0][i0] # 0 PROVE FALSE
    OBVIOUS
  <2>1. t0 \in DOMAIN m /\ m1[t0][i0] = m[t0][i0] /\ at1[t0] = at[t0]
    BY <1>6, <1>8, <1>a DEF Grown, NoNewPages
  <2>2. OnWay(m, at, t0, 0, b)
    BY <1>8, <2>1 DEF OnWay
  <2> QED BY <2>1, <2>2
<1> DEFINE mm == Store(m1, <<t0, i0>>, f)
<1>10. Tree(m1, n1, at1, {}) /\ n1 \in Nat /\ n <= n1
  BY <1>6 DEF Grown, Tree
<1>11. Tree(mm, n1, at1, {}) /\ Keeps(m1, mm, at1)
  BY <1>8, <1>9, <1>10, <1>a, TreeStore
<1>12. /\ DOMAIN mm = DOMAIN m1
       /\ \A u \in DOMAIN m1, j \in Slots : mm[u][j] = IF u = t0 /\ j = i0 THEN f ELSE m1[u][j]
  <2>1. IsTables(m1)
    BY <1>10 DEF Tree
  <2> HIDE DEF t0, i0
  <2>2. DOMAIN mm = DOMAIN m1
    BY <1>8, <1>a, <2>1, StoreEntry
  <2>3. ASSUME NEW u \in DOMAIN m1, NEW j \in Slots
        PROVE  mm[u][j] = IF u = t0 /\ j = i0 THEN f ELSE m1[u][j]
    BY <1>8, <1>a, <2>1, StoreEntry
  <2> QED BY <2>2, <2>3
<1> HIDE DEF mm, t0, t1, t2, i0, i1, i2, i3
<1>13. Keeps(m, mm, at)
  <2>1. DOMAIN m \subseteq DOMAIN m1
    BY <1>6 DEF Grown, Keeps
  <2>2. ASSUME NEW t \in DOMAIN m, NEW j \in Slots, m[t][j] # 0
        PROVE  mm[t][j] = m[t][j] \/ (at[t].l = 3 /\ j \in KernelHalf)
    <3>1. m1[t][j] = m[t][j] \/ (at[t].l = 3 /\ j \in KernelHalf)
      BY <1>6, <2>2 DEF Grown, Keeps
    <3>2. m1[t][j] = m[t][j] => mm[t][j] = m1[t][j]
      BY <1>9, <1>12, <2>1, <2>2
    <3> QED BY <3>1, <3>2
  <2> QED BY <1>12, <2>1, <2>2 DEF Keeps
<1>14. \A t \in DOMAIN mm, j \in Slots :
         at1[t].l = 0 /\ mm[t][j] # 0 =>
           \/ t \in DOMAIN m /\ m[t][j] # 0 /\ at1[t] = at[t]
           \/ at1[t] = PlaceOf(b, 0) /\ j = i0
  BY <1>6, <1>8, <1>12 DEF Grown, NoNewPages
<1>15. SamePlaces(m, at, at1)
  BY <1>6 DEF Grown
<1>16. x.mem = mm /\ x.next = n1
  BY <1>7 DEF mm
<1> HIDE DEF x
<1>17. /\ Tree(x.mem, x.next, at1, {}) /\ n <= x.next
       /\ SamePlaces(m, at, at1) /\ Keeps(m, x.mem, at)
       /\ \A t \in DOMAIN x.mem, j \in Slots :
            at1[t].l = 0 /\ x.mem[t][j] # 0 =>
              \/ t \in DOMAIN m /\ m[t][j] # 0 /\ at1[t] = at[t]
              \/ at1[t] = PlaceOf(b, 0) /\ j = Index(b, 0)
  BY <1>10, <1>11, <1>13, <1>14, <1>15, <1>16 DEF i0
<1> QED BY <1>0, <1>17

-----------------------------------------------------------------------------
(* A nonempty set of natural numbers has a least one. *)
LEMMA LeastNumber ==
  ASSUME NEW T, T \subseteq Nat, T # {}
  PROVE  \E x \in T : \A y \in T : x <= y
<1> DEFINE R == OpToRel(<, Nat)
<1>1. \A x, y \in Nat : <<x, y>> \in R <=> x < y
  BY DEF OpToRel
<1>2. IsWellFoundedOn(R, Nat)
  BY NatLessThanWellFounded, Zenon
<1> HIDE DEF R
<1>3. PICK x \in T : \A y \in T : ~ (<<y, x>> \in R)
  BY <1>2, WFMin
<1>4. \A y \in T : ~(y < x) /\ x \in Nat /\ y \in Nat
  BY <1>1, <1>3
<1> QED BY <1>4

(* before[] of PagesBefore, for the first n segments. *)
Counts(g, prog, n) ==
  g = [j \in 0..n |-> IF j = 0 THEN 0 ELSE g[j - 1] + PagesOf(prog[j])]

LEMMA CountsAt ==
  ASSUME NEW g, NEW prog, NEW n \in Nat, Counts(g, prog, n), NEW j \in 0..n
  PROVE  g[j] = IF j = 0 THEN 0 ELSE g[j - 1] + PagesOf(prog[j])
BY Zenon DEF Counts

LEMMA CountsExtend ==
  ASSUME NEW prog, NEW n \in Nat, NEW h, Counts(h, prog, n)
  PROVE  \E g : Counts(g, prog, n + 1)
<1> DEFINE E(j, f) == IF j = 0 THEN 0 ELSE f[j - 1] + PagesOf(prog[j])
           g == [j \in 0..(n + 1) |-> IF j = n + 1 THEN E(n + 1, h) ELSE h[j]]
<1>1. \A j \in 0..n : h[j] = E(j, h)
  BY CountsAt
<1>2. \A j \in 0..(n + 1) : j # 0 => j - 1 \in 0..(n + 1) /\ j - 1 # n + 1
  OBVIOUS
<1>3. \A j \in 0..(n + 1) : j # 0 => g[j - 1] = h[j - 1]
  BY <1>2, Zenon
<1>4. \A j \in 0..(n + 1) : g[j] = E(j, h)
  <2> SUFFICES ASSUME NEW j \in 0..(n + 1) PROVE g[j] = E(j, h)
    OBVIOUS
  <2>1. CASE j = n + 1
    BY <2>1, Zenon
  <2>2. CASE j # n + 1
    <3>1. j \in 0..n
      BY <2>2
    <3>2. g[j] = h[j]
      BY <2>2, Zenon
    <3> QED BY <1>1, <3>1, <3>2
  <2> QED BY <2>1, <2>2
<1>5. g = [j \in 0..(n + 1) |-> g[j]]
  BY Zenon
<1> HIDE DEF g
<1>6. \A j \in 0..(n + 1) : E(j, h) = E(j, g)
  BY <1>3
<1> HIDE DEF E
<1>7. \A j \in 0..(n + 1) : g[j] = E(j, g)
  BY <1>4, <1>6
<1>8. g = [j \in 0..(n + 1) |-> E(j, g)]
  BY <1>5, <1>7, Zenon
<1>9. Counts(g, prog, n + 1)
  BY <1>8 DEF Counts, E
<1> QED BY <1>9

LEMMA CountsExist ==
  ASSUME NEW prog, NEW n \in Nat
  PROVE  \E g : Counts(g, prog, n)
<1> DEFINE Bad == {k \in Nat : ~\E g : Counts(g, prog, k)}
<1> SUFFICES ASSUME ~\E g : Counts(g, prog, n) PROVE FALSE
  OBVIOUS
<1>1. n \in Bad
  OBVIOUS
<1>2. PICK k \in Bad : \A m \in Bad : k <= m
  BY <1>1, LeastNumber
<1>3. k \in Nat /\ ~\E g : Counts(g, prog, k)
  BY <1>2
<1>4. CASE k = 0
  <2> DEFINE g == [j \in 0..0 |-> 0]
  <2>1. Counts(g, prog, 0)
    <3>1. \A j \in 0..0 : j = 0
      OBVIOUS
    <3> QED BY <3>1, Zenon DEF Counts
  <2> QED BY <1>3, <1>4, <2>1
<1>5. CASE k # 0
  <2>1. k - 1 \in Nat /\ k - 1 < k /\ k = (k - 1) + 1
    BY <1>3, <1>5
  <2>2. k - 1 \notin Bad
    BY <1>2, <1>3, <2>1
  <2>3. PICK h : Counts(h, prog, k - 1)
    BY <2>1, <2>2
  <2>4. \E g : Counts(g, prog, k)
    BY <2>1, <2>3, CountsExtend
  <2> QED BY <1>3, <2>4
<1> QED BY <1>4, <1>5

Segments == [vaddr : Nat, memsz : Nat \ {0}]

(* A segment takes a page at least. *)
LEMMA PagesOfSegment ==
  ASSUME NEW seg \in Segments
  PROVE  PagesOf(seg) \in Nat \ {0}
<1> DEFINE o == Offset(seg)
           s == seg.memsz + o + PageBytes - 1
           q == s \div PageBytes
<1>1. PageBytes \in Nat \ {0} /\ seg.memsz \in Nat \ {0}
  BY Spans DEF Segments
<1>2. o \in Nat
  BY <1>1, Divides DEF Segments, Offset
<1>3. s \in Nat /\ s >= PageBytes
  BY <1>1, <1>2
<1> HIDE DEF o, s
<1>4. q \in Nat /\ s % PageBytes \in 0..(PageBytes - 1) /\ s = PageBytes * q + (s % PageBytes)
  BY <1>1, <1>3, Divides
<1> HIDE DEF q
<1>5. q # 0
  <2> SUFFICES ASSUME q = 0 PROVE FALSE
    OBVIOUS
  <2>1. PageBytes * q = 0
    BY <1>1
  <2> QED BY <1>1, <1>3, <1>4, <2>1
<1> QED BY <1>4, <1>5 DEF PagesOf, q, s, o

(* The pages of the segments before the n-th, and of all. *)
LEMMA PagesCounted ==
  ASSUME NEW prog \in Seq(Segments)
  PROVE  \A n \in 0..Len(prog) :
           /\ PagesBefore(prog, n) \in Nat
           /\ n # 0 => PagesBefore(prog, n) = PagesBefore(prog, n - 1) + PagesOf(prog[n])
           /\ PagesBefore(prog, n) <= PagesBefore(prog, Len(prog))
<1> DEFINE N == Len(prog)
           g == CHOOSE g : Counts(g, prog, N)
<1>1. N \in Nat /\ \A j \in 1..N : PagesOf(prog[j]) \in Nat
  BY PagesOfSegment
<1>2. Counts(g, prog, N)
  BY <1>1, CountsExist
<1>3. \A n : PagesBefore(prog, n) = g[n]
  BY DEF PagesBefore, Counts
<1> HIDE DEF g, N
<1>4. \A j \in 0..N : g[j] = IF j = 0 THEN 0 ELSE g[j - 1] + PagesOf(prog[j])
  BY <1>1, <1>2, CountsAt
<1>5. \A n \in 0..N : g[n] \in Nat
  <2> DEFINE Bad == {k \in 0..N : g[k] \notin Nat}
  <2> SUFFICES ASSUME Bad # {} PROVE FALSE
    OBVIOUS
  <2>1. PICK k \in Bad : \A m \in Bad : k <= m
    <3>1. Bad \subseteq Nat
      BY <1>1
    <3> QED BY <3>1, LeastNumber
  <2>2. CASE k = 0
    BY <1>4, <2>1, <2>2
  <2>3. CASE k # 0
    <3>1. k \in 0..N /\ k \in 1..N /\ k - 1 \in 0..N /\ ~(k <= k - 1)
      BY <1>1, <2>1, <2>3
    <3>2. g[k - 1] \in Nat
      BY <2>1, <3>1
    <3> QED BY <1>1, <1>4, <2>1, <2>3, <3>1, <3>2
  <2> QED BY <2>2, <2>3
<1>6. \A n \in 0..N : g[n] <= g[N]
  <2> DEFINE T == {d \in 0..N : ~(g[N - d] <= g[N])}
  <2>1. T = {}
    <3> SUFFICES ASSUME T # {} PROVE FALSE
      OBVIOUS
    <3>1. PICK d \in T : \A m \in T : d <= m
      <4>1. T \subseteq Nat
        BY <1>1
      <4> QED BY <4>1, LeastNumber
    <3>2. d \in 0..N /\ ~(g[N - d] <= g[N])
      BY <3>1
    <3>3. d # 0
      <4>1. N - 0 = N /\ N \in 0..N
        BY <1>1
      <4>2. g[N] <= g[N]
        BY <1>5, <4>1
      <4> QED BY <3>2, <4>1, <4>2
    <3>4. d - 1 \in 0..N /\ ~(d <= d - 1)
      BY <1>1, <3>2, <3>3
    <3>5. g[N - (d - 1)] <= g[N]
      BY <3>1, <3>4
    <3>6. N - (d - 1) \in 1..N /\ (N - (d - 1)) - 1 = N - d /\ N - d \in 0..N
          /\ N - (d - 1) \in 0..N /\ N \in 0..N
      BY <1>1, <3>2, <3>3
    <3>7. g[N - (d - 1)] = g[N - d] + PagesOf(prog[N - (d - 1)])
      BY <1>1, <1>4, <3>6
    <3> QED BY <1>1, <1>5, <3>2, <3>5, <3>6, <3>7
  <2>2. ASSUME NEW n \in 0..N PROVE g[n] <= g[N]
    <3>1. N - n \in 0..N /\ N - (N - n) = n
      BY <1>1
    <3> QED BY <2>1, <3>1
  <2> QED BY <2>2
<1> QED BY <1>3, <1>4, <1>5, <1>6 DEF N

-----------------------------------------------------------------------------
IsSeq(q) == q \in Seq({q[j] : j \in DOMAIN q})

LEMMA SeqIs ==
  ASSUME NEW S, NEW q \in Seq(S)
  PROVE  IsSeq(q)
<1>1. /\ Len(q) \in Nat /\ DOMAIN q = 1..Len(q) /\ q = [j \in 1..Len(q) |-> q[j]]
  OBVIOUS
<1> DEFINE T == {q[j] : j \in DOMAIN q}
<1>2. \A j \in 1..Len(q) : q[j] \in T
  BY <1>1
<1> HIDE DEF T
<1>3. q \in Seq(T)
  BY <1>1, <1>2
<1> QED BY <1>3 DEF IsSeq, T

(* The jobs of spawn_thread. *)
NeedsRoot(job) == job.op \in {"create", "scratch", "map", "configure"}

JobShape(job) ==
  job.op \in {"create", "scratch", "map"} =>
    /\ job = MapJob(job.op, job.root, job.frames, job.addr)
    /\ IsSeq(job.frames) /\ job.frames # <<>>
    /\ IsUser(job.addr, Len(job.frames))

IsCopy(job) == job = [op |-> "copy", addr |-> job.addr, prog |-> job.prog, seg |-> job.seg]

(* A segment is copied right after it is mapped for it, and the thread is  *)
(* configured at the end, unless the program has stopped.                  *)
Formed(q) ==
  /\ IsSeq(q)
  /\ \A j \in DOMAIN q : /\ JobShape(q[j])
                         /\ q[j].op \in {"create", "scratch"} => j + 1 \in DOMAIN q /\ IsCopy(q[j + 1])
  /\ \A j \in DOMAIN q : q[j].op \in {"configure", "stopped"} <=> j = Len(q)

(* The jobs q name the vspaces that the jobs p name. *)
RootsFrom(q, p) ==
  \A j \in DOMAIN q : NeedsRoot(q[j]) =>
    \E k \in DOMAIN p : NeedsRoot(p[k]) /\ q[j].root = p[k].root

LEMMA SeqBasics ==
  ASSUME NEW q, IsSeq(q), q # <<>>
  PROVE  /\ Len(q) \in Nat \ {0} /\ DOMAIN q = 1..Len(q) /\ Head(q) = q[1]
         /\ IsSeq(Tail(q)) /\ Len(Tail(q)) = Len(q) - 1
         /\ \A j \in 1..(Len(q) - 1) : Tail(q)[j] = q[j + 1]
         /\ Tail(q) = <<>> <=> Len(q) = 1
<1> DEFINE S == {q[j] : j \in DOMAIN q}
<1>1. q \in Seq(S)
  BY DEF IsSeq
<1> HIDE DEF S
<1>2. /\ Len(q) \in Nat \ {0} /\ DOMAIN q = 1..Len(q) /\ Head(q) = q[1]
      /\ Tail(q) \in Seq(S) /\ Len(Tail(q)) = Len(q) - 1
      /\ \A j \in 1..(Len(q) - 1) : Tail(q)[j] = q[j + 1]
  BY <1>1
<1>3. IsSeq(Tail(q))
  <2>1. Tail(q) \in Seq(S)
    BY <1>2
  <2> QED BY <2>1, SeqIs
<1>4. Tail(q) = <<>> <=> Len(q) = 1
  BY <1>2
<1> QED BY <1>2, <1>3, <1>4

(* p is q with the head h put before it. *)
Prefixed(p, h, q) ==
  /\ IsSeq(p) /\ Len(p) = Len(q) + 1 /\ Len(q) \in Nat /\ p # <<>>
  /\ DOMAIN p = 1..(Len(q) + 1) /\ p[1] = h
  /\ \A j \in 1..Len(q) : p[j + 1] = q[j]

LEMMA NewHead ==
  ASSUME NEW q, IsSeq(q), NEW h, NEW p, p = <<h>> \o q
  PROVE  Prefixed(p, h, q)
<1> DEFINE S == {q[j] : j \in DOMAIN q} \cup {h}
<1>1. q \in Seq(S)
  <2>1. q \in Seq({q[j] : j \in DOMAIN q}) /\ {q[j] : j \in DOMAIN q} \subseteq S
    BY DEF IsSeq
  <2> HIDE DEF S
  <2> QED BY <2>1
<1>2. <<h>> \in Seq(S) /\ Len(<<h>>) = 1 /\ <<h>>[1] = h
  OBVIOUS
<1> HIDE DEF S
<1>3. p \in Seq(S) /\ Len(p) = Len(q) + 1 /\ Len(q) \in Nat /\ DOMAIN p = 1..(Len(q) + 1)
      /\ p[1] = h /\ \A j \in 1..Len(q) : p[j + 1] = q[j]
  BY <1>1, <1>2
<1>4. IsSeq(p) /\ p # <<>>
  <2>1. p \in Seq(S)
    BY <1>3
  <2>2. IsSeq(p)
    BY <2>1, SeqIs, Zenon
  <2> QED BY <1>3, <2>2
<1> QED BY <1>3, <1>4 DEF Prefixed

LEMMA FormedTail ==
  ASSUME NEW q, Formed(q), q # <<>>
  PROVE  /\ Formed(Tail(q)) /\ RootsFrom(Tail(q), q)
         /\ Head(q).op \notin {"configure", "stopped"} <=> Tail(q) # <<>>
<1> DEFINE p == Tail(q)
<1>1. /\ Len(q) \in Nat \ {0} /\ DOMAIN q = 1..Len(q) /\ Head(q) = q[1]
      /\ IsSeq(p) /\ Len(p) = Len(q) - 1 /\ (p = <<>> <=> Len(q) = 1)
      /\ \A j \in 1..(Len(q) - 1) : p[j] = q[j + 1]
  BY SeqBasics DEF Formed
<1> HIDE DEF p
<1>2. DOMAIN p = 1..(Len(q) - 1)
  BY <1>1 DEF IsSeq
<1>3. ASSUME NEW j \in DOMAIN p
      PROVE  /\ p[j] = q[j + 1] /\ j + 1 \in DOMAIN q /\ JobShape(p[j])
             /\ p[j].op \in {"create", "scratch"} => j + 1 \in DOMAIN p /\ IsCopy(p[j + 1])
  <2>1. p[j] = q[j + 1] /\ j + 1 \in DOMAIN q /\ j \in Nat
    BY <1>1, <1>2
  <2>2. /\ JobShape(q[j + 1])
        /\ q[j + 1].op \in {"create", "scratch"} => j + 1 + 1 \in DOMAIN q /\ IsCopy(q[j + 1 + 1])
    BY <2>1 DEF Formed
  <2>3. j + 1 + 1 \in DOMAIN q => j + 1 \in DOMAIN p /\ p[j + 1] = q[j + 1 + 1]
    BY <1>1, <1>2, <2>1
  <2> QED BY <2>1, <2>2, <2>3
<1>4. ASSUME NEW j \in DOMAIN p
      PROVE  p[j].op \in {"configure", "stopped"} <=> j = Len(p)
  <2>1. q[j + 1].op \in {"configure", "stopped"} <=> j + 1 = Len(q)
    BY <1>3 DEF Formed
  <2>2. j + 1 = Len(q) <=> j = Len(p)
    BY <1>1, <1>2
  <2> QED BY <1>3, <2>1, <2>2
<1>5. Formed(p)
  BY <1>1, <1>3, <1>4 DEF Formed
<1>6. RootsFrom(p, q)
  BY <1>3 DEF RootsFrom
<1>7. Head(q).op \notin {"configure", "stopped"} <=> p # <<>>
  <2>1. q[1].op \in {"configure", "stopped"} <=> 1 = Len(q)
    BY <1>1 DEF Formed
  <2> QED BY <1>1, <2>1
<1> QED BY <1>5, <1>6, <1>7 DEF p

LEMMA FormedHead ==
  ASSUME NEW q, Formed(q), q # <<>>, NEW h, JobShape(h),
         h.op \notin {"configure", "stopped"}, h.op \in {"create", "scratch"} => IsCopy(q[1])
  PROVE  Formed(<<h>> \o q)
<1> DEFINE p == <<h>> \o q
<1>1. /\ IsSeq(p) /\ Len(p) = Len(q) + 1 /\ Len(q) \in Nat /\ p # <<>>
      /\ DOMAIN p = 1..(Len(q) + 1) /\ p[1] = h
      /\ \A j \in 1..Len(q) : p[j + 1] = q[j]
  <2>1. IsSeq(q) /\ p = <<h>> \o q
    BY DEF Formed
  <2> HIDE DEF p
  <2>2. Prefixed(p, h, q)
    BY <2>1, NewHead
  <2> QED BY <2>2 DEF Prefixed
<1>2. Len(q) \in Nat \ {0} /\ DOMAIN q = 1..Len(q)
  BY SeqBasics DEF Formed
<1> HIDE DEF p
<1>3. ASSUME NEW j \in DOMAIN p
      PROVE  JobShape(p[j]) /\ (p[j].op \in {"create", "scratch"} => j + 1 \in DOMAIN p /\ IsCopy(p[j + 1]))
  <2>1. CASE j = 1
    <3>1. j + 1 \in DOMAIN p /\ p[j + 1] = q[1]
      BY <1>1, <1>2, <2>1
    <3> QED BY <1>1, <2>1, <3>1
  <2>2. CASE j # 1
    <3> DEFINE k == j - 1
    <3>1. k \in 1..Len(q) /\ j = k + 1 /\ p[j] = q[k]
      BY <1>1, <2>2
    <3>2. /\ JobShape(q[k])
          /\ q[k].op \in {"create", "scratch"} => k + 1 \in DOMAIN q /\ IsCopy(q[k + 1])
      BY <1>2, <3>1 DEF Formed
    <3>3. k + 1 \in DOMAIN q => j + 1 \in DOMAIN p /\ p[j + 1] = q[k + 1]
      BY <1>1, <1>2, <3>1
    <3> QED BY <3>1, <3>2, <3>3
  <2> QED BY <2>1, <2>2
<1>4. ASSUME NEW j \in DOMAIN p
      PROVE  p[j].op \in {"configure", "stopped"} <=> j = Len(p)
  <2>1. CASE j = 1
    BY <1>1, <1>2, <2>1
  <2>2. CASE j # 1
    <3>1. j - 1 \in DOMAIN q /\ p[j] = q[j - 1] /\ (j - 1 = Len(q) <=> j = Len(p))
      BY <1>1, <1>2, <2>2
    <3>2. q[j - 1].op \in {"configure", "stopped"} <=> j - 1 = Len(q)
      BY <3>1 DEF Formed
    <3> QED BY <3>1, <3>2
  <2> QED BY <2>1, <2>2
<1>5. Formed(p)
  BY <1>1, <1>3, <1>4 DEF Formed
<1> QED BY <1>5 DEF p

(* Pages below the kernel's half. *)
LEMMA UserAddress ==
  ASSUME NEW a, NEW n \in Nat \ {0}, IsUser(a, n)
  PROVE  a \in User /\ (n # 1 => IsUser(a + PageBytes, n - 1))
<1> DEFINE e == n * PageBytes
           d == (n - 1) * PageBytes
<1>1. PageBytes \in Nat \ {0} /\ UserEnd \in Nat
  BY Spans
<1>2. e \in Nat \ {0} /\ d \in Nat /\ e = d + PageBytes
  BY <1>1, SMTT(30)
<1>3. a \in Nat /\ a + e <= UserEnd
  BY DEF IsUser
<1> HIDE DEF e, d
<1>4. a \in User
  BY <1>1, <1>2, <1>3 DEF User
<1>5. a + PageBytes \in Nat /\ a + PageBytes + d <= UserEnd
  BY <1>1, <1>2, <1>3
<1> QED BY <1>4, <1>5 DEF IsUser, d

(* What map_page and map_buffer leave to do. *)
LEMMA JobsLeft ==
  ASSUME Formed(todo), InMapPage, NEW q, q = PageDone \/ q = todo \/ q = BufferFailed
  PROVE  Formed(q) /\ q # <<>> /\ RootsFrom(q, todo)
<1> DEFINE t == Tail(todo)
<1>1. todo # <<>> /\ Job.op \in {"scratch", "map"} /\ Job = Head(todo)
  BY DEF InMapPage, Job
<1>2. /\ Len(todo) \in Nat \ {0} /\ DOMAIN todo = 1..Len(todo) /\ Job = todo[1]
      /\ IsSeq(t) /\ Len(t) = Len(todo) - 1
      /\ \A j \in 1..(Len(todo) - 1) : t[j] = todo[j + 1]
  BY <1>1, SeqBasics DEF Formed
<1>3. Formed(t) /\ t # <<>> /\ RootsFrom(t, todo)
  BY <1>1, FormedTail
<1>4. /\ Job = MapJob(Job.op, Job.root, Job.frames, Job.addr)
      /\ IsSeq(Job.frames) /\ Job.frames # <<>> /\ IsUser(Job.addr, Len(Job.frames))
  BY <1>1, <1>2 DEF Formed, JobShape
<1>5. Job.op = "scratch" => IsCopy(t[1]) /\ t[1] = todo[2]
  <2> SUFFICES ASSUME Job.op = "scratch" PROVE IsCopy(t[1]) /\ t[1] = todo[2]
    OBVIOUS
  <2>1. 1 \in DOMAIN todo /\ 1 + 1 = 2
    BY <1>2
  <2>2. 2 \in DOMAIN todo /\ IsCopy(todo[2])
    BY <1>2, <2>1 DEF Formed
  <2>3. t[1] = todo[2]
    BY <1>2, <2>2, <2>1
  <2> QED BY <2>2, <2>3
<1> HIDE DEF t
<1>6. CASE q = todo
  <2>1. RootsFrom(todo, todo)
    BY DEF RootsFrom
  <2> QED BY <1>1, <1>6, <2>1
<1>7. CASE q = t
  BY <1>3, <1>7
<1>8. CASE /\ Len(Job.frames) # 1
           /\ q = <<MapJob(Job.op, Job.root, Tail(Job.frames), Job.addr + PageBytes)>> \o t
  <2> DEFINE f == Tail(Job.frames)
             h == MapJob(Job.op, Job.root, f, Job.addr + PageBytes)
  <2>2. /\ IsSeq(f) /\ f # <<>> /\ Len(f) = Len(Job.frames) - 1 /\ Len(Job.frames) \in Nat \ {0}
    BY <1>4, <1>8, SeqBasics
  <2>3. IsUser(Job.addr + PageBytes, Len(f))
    BY <1>4, <1>8, <2>2, UserAddress
  <2>4. h.op = Job.op /\ h.root = Job.root /\ h.frames = f /\ h.addr = Job.addr + PageBytes
    BY DEF MapJob
  <2>a. q = <<h>> \o t
    BY <1>8
  <2> HIDE DEF h
  <2>5. JobShape(h)
    <3>1. h = MapJob(h.op, h.root, h.frames, h.addr)
      BY <2>4 DEF h
    <3> QED BY <2>2, <2>3, <2>4, <3>1 DEF JobShape
  <2>6. Formed(q)
    BY <1>1, <1>3, <1>5, <1>8, <2>a, <2>4, <2>5, FormedHead
  <2>7. /\ q # <<>> /\ DOMAIN q = 1..(Len(t) + 1) /\ q[1] = h /\ Len(t) \in Nat
        /\ \A j \in 1..Len(t) : q[j + 1] = t[j]
    <3>1. Prefixed(q, h, t)
      BY <1>2, <2>a, NewHead
    <3> QED BY <3>1 DEF Prefixed
  <2>8. RootsFrom(q, todo)
    <3> SUFFICES ASSUME NEW j \in DOMAIN q, NeedsRoot(q[j])
                 PROVE  \E k \in DOMAIN todo : NeedsRoot(todo[k]) /\ q[j].root = todo[k].root
      BY DEF RootsFrom
    <3>1. CASE j = 1
      BY <1>1, <1>2, <2>4, <2>7, <3>1 DEF NeedsRoot
    <3>2. CASE j # 1
      <4>1. j - 1 \in 1..Len(t) /\ q[j] = t[j - 1]
        BY <2>7, <3>2
      <4>2. j - 1 \in DOMAIN t
        BY <1>2, <4>1 DEF IsSeq
      <4> QED BY <1>3, <4>1, <4>2 DEF RootsFrom
    <3> QED BY <3>1, <3>2
  <2> QED BY <2>6, <2>7, <2>8
<1>9. CASE Job.op = "scratch" /\ q = <<[todo[2] EXCEPT !.addr = 0]>> \o Tail(t)
  <2> DEFINE h == [todo[2] EXCEPT !.addr = 0]
             tt == Tail(t)
  <2>1. h.op = "copy"
    <3> DEFINE c == todo[2]
               a == c.addr
               p == c.prog
               s == c.seg
    <3>1. c = [op |-> "copy", addr |-> a, prog |-> p, seg |-> s]
      BY <1>5, <1>9 DEF IsCopy
    <3> HIDE DEF a, p, s
    <3> QED BY <3>1
  <2>2. t[1].op = "copy"
    BY <1>5, <1>9 DEF IsCopy
  <2>3. Head(t) = t[1] /\ DOMAIN t = 1..Len(t) /\ Len(t) \in Nat \ {0}
    BY <1>3, SeqBasics DEF Formed
  <2>4. Formed(tt) /\ tt # <<>> /\ RootsFrom(tt, t)
    BY <1>3, <2>2, <2>3, FormedTail
  <2> HIDE DEF h, tt
  <2>5. q = <<h>> \o tt
    BY <1>9 DEF h, tt
  <2>6. JobShape(h)
    BY <2>1 DEF JobShape
  <2>7. Formed(q)
    BY <2>1, <2>4, <2>5, <2>6, FormedHead
  <2>8. /\ q # <<>> /\ DOMAIN q = 1..(Len(tt) + 1) /\ q[1] = h /\ Len(tt) \in Nat
        /\ \A j \in 1..Len(tt) : q[j + 1] = tt[j]
    BY <2>4, <2>5, NewHead DEF Formed
  <2>9. DOMAIN tt = 1..Len(tt)
    BY <2>4, SeqBasics DEF Formed
  <2>10. RootsFrom(q, todo)
    <3> SUFFICES ASSUME NEW j \in DOMAIN q, NeedsRoot(q[j])
                 PROVE  \E k \in DOMAIN todo : NeedsRoot(todo[k]) /\ q[j].root = todo[k].root
      BY DEF RootsFrom
    <3>1. j # 1
      BY <2>1, <2>8 DEF NeedsRoot
    <3>2. j - 1 \in DOMAIN tt /\ q[j] = tt[j - 1]
      BY <2>8, <2>9, <3>1
    <3>3. PICK k \in DOMAIN t : NeedsRoot(t[k]) /\ q[j].root = t[k].root
      BY <2>4, <3>2 DEF RootsFrom
    <3> QED BY <1>3, <3>3 DEF RootsFrom
  <2> QED BY <2>7, <2>8, <2>10
<1> QED BY <1>6, <1>7, <1>8, <1>9 DEF PageDone, BufferFailed, t


-----------------------------------------------------------------------------
(* The huge pages there may be: none before the first program runs. *)
Huge == IF booting = <<>> THEN HugeAddrs ELSE {}

IsRoot(at, root) == root \in DOMAIN mem /\ at[root] = Top

(* The tables are trees; the pages still to be mapped at boot are not      *)
(* mapped; programs and jobs have a PML4 each.                             *)
Placed(at) ==
  /\ Tree(mem, next, at, Huge)
  /\ \A k \in DOMAIN booting : \A t :
       OnWay(mem, at, t, 0, booting[k]) => mem[t][Index(booting[k], 0)] = 0
  /\ \A i \in DOMAIN tcbs : IsRoot(at, tcbs[i].vspace_root)
  /\ \A j \in DOMAIN todo : NeedsRoot(todo[j]) => IsRoot(at, todo[j].root)

Spawns == Len(tcbs) + (IF todo = <<>> THEN 0 ELSE 1)

(* The scratch area has room for the programs still to be started. *)
Room(most) ==
  /\ \A prog \in Programs : PagesBefore(prog, Len(prog)) <= most
  /\ IsUser(mappable_addr, (MaxSpawns - Spawns) * most)

Jobs ==
  /\ IsSeq(booting)
  /\ \A i \in DOMAIN booting : booting[i] \in User
  /\ \A i, j \in DOMAIN booting :
       i # j => booting[i] \div PageBytes # booting[j] \div PageBytes
  /\ level \in 0..3
  /\ IsSeq(tcbs) /\ Len(tcbs) \in Nat /\ Spawns <= MaxSpawns
  /\ Formed(todo) /\ (todo # <<>> => booting = <<>>)
  /\ Programs # {} => \E most \in Nat : Room(most)

VspaceInvariant == Jobs /\ \E at : Placed(at)

(* MappingsStable of a step. *)
StepStable ==
  \A root \in Roots, addr \in UserAddrs :
    At(root, addr) # 0 => At(root, addr)' = At(root, addr)

(* The pages of the lower half of a PML4 are the user's. *)
LEMMA UserPagesAreUser ==
  ASSUME NEW a \in UserAddrs
  PROVE  a \in User /\ BesideHuge(HugeAddrs, a)
<1> DEFINE h == Radix \div 2
           k == h * Radix * Radix * Radix
<1>1. PICK i \in 0..(k - 1) : a = i * PageBytes
  BY DEF UserAddrs, UserPages
<1>2. PageBytes \in Nat \ {0} /\ h \in Nat \ {0} /\ Radix \in Nat \ {0}
  BY Spans
<1>3. UserEnd = h * (PageBytes * Radix * Radix * Radix)
  BY DEF UserEnd, EntrySpan, PtSpan, PdSpan, PdptSpan
<1> HIDE DEF h
<1>4. k \in Nat /\ h * (PageBytes * Radix * Radix * Radix) = k * PageBytes
  <2>1. h * Radix \in Nat /\ h * (PageBytes * Radix) = (h * Radix) * PageBytes
    BY <1>2, SMTT(30)
  <2>2. /\ h * Radix * Radix \in Nat
        /\ h * (PageBytes * Radix * Radix) = (h * Radix * Radix) * PageBytes
    <3> DEFINE x == h * Radix
               y == PageBytes * Radix
    <3>1. x \in Nat /\ y \in Nat /\ h * y = x * PageBytes
      BY <1>2, <2>1, SMTT(30)
    <3> HIDE DEF x, y
    <3>2. x * Radix \in Nat /\ h * (y * Radix) = (h * y) * Radix
      BY <1>2, <3>1, SMTT(30)
    <3>3. (x * PageBytes) * Radix = (x * Radix) * PageBytes
      BY <1>2, <3>1, SMTT(30)
    <3> QED BY <3>1, <3>2, <3>3 DEF x, y
  <2> DEFINE x == h * Radix * Radix
             y == PageBytes * Radix * Radix
  <2>3. x \in Nat /\ y \in Nat /\ h * y = x * PageBytes
    BY <1>2, <2>2, SMTT(30)
  <2> HIDE DEF x, y
  <2>4. x * Radix \in Nat /\ h * (y * Radix) = (h * y) * Radix
    BY <1>2, <2>3, SMTT(30)
  <2>5. (x * PageBytes) * Radix = (x * Radix) * PageBytes
    BY <1>2, <2>3, SMTT(30)
  <2> QED BY <2>3, <2>4, <2>5 DEF x, y
<1> HIDE DEF k
<1>5. i * PageBytes \in Nat /\ i * PageBytes < k * PageBytes
  <2>1. i \in Nat /\ i + 1 <= k
    BY <1>1, <1>4
  <2>2. i * PageBytes \in Nat /\ (i + 1) * PageBytes = i * PageBytes + PageBytes
    BY <1>2, <2>1, SMTT(30)
  <2>3. (i + 1) * PageBytes <= k * PageBytes /\ k * PageBytes \in Nat
    BY <1>2, <1>4, <2>1, SMTT(30)
  <2> QED BY <1>2, <2>2, <2>3
<1>6. a \in User
  BY <1>1, <1>3, <1>4, <1>5, Spans DEF User
<1>7. BesideHuge(HugeAddrs, a)
  BY DEF UserAddrs, BesideHuge
<1> QED BY <1>6, <1>7

(* The addresses of the hand mappings are user addresses. *)
LEMMA HandAddrsAreUser ==
  TableAddrs \subseteq User /\ PageAddrs \subseteq User /\ HugeAddrs \subseteq User
<1>1. PageBytes \in Nat /\ PtSpan \in Nat /\ UserEnd \in Nat
  BY Spans DEF EntrySpan
<1>2. /\ TableAddrs \subseteq 0..(UserEnd - 1)
      /\ PageAddrs \subseteq PageBytes..(UserEnd - 1)
      /\ HugeAddrs \subseteq PtSpan..(UserEnd - 1)
  BY VspaceAssumption
<1> QED BY <1>1, <1>2 DEF User

(* A step that keeps the entries keeps the mappings. *)
LEMMA KeptMeansStable ==
  ASSUME NEW at, Placed(at), Keeps(mem, mem', at)
  PROVE  StepStable
<1> SUFFICES ASSUME NEW root \in Roots, NEW a \in UserAddrs, At(root, a) # 0
             PROVE  At(root, a)' = At(root, a)
  BY DEF StepStable
<1>1. a \in User /\ BesideHuge(Huge, a) /\ Huge \subseteq User
  BY UserPagesAreUser, HandAddrsAreUser DEF Huge, BesideHuge
<1>2. OnWay(mem, at, root, 3, a)
  <2>1. IsRoot(at, root)
    BY DEF Roots, Placed, Tree, IsRoot
  <2> QED BY <1>1, <2>1, PlaceFields DEF IsRoot, OnWay
<1>3. Tree(mem, next, at, Huge) /\ resolve_vm_mapping(mem, root, a) # 0
  BY DEF Placed, At
<1>4. resolve_vm_mapping(mem', root, a) = resolve_vm_mapping(mem, root, a)
  BY <1>1, <1>2, <1>3, MappingKept
<1> QED BY <1>4 DEF At

(* A step after boot that grows the trees; the roots it needs are known or *)
(* new.                                                                    *)
LEMMA TreesGrow ==
  ASSUME NEW at, Placed(at), booting = <<>>, booting' = booting, NEW at2,
         Tree(mem', next', at2, HugeAddrs), SamePlaces(mem, at, at2), Keeps(mem, mem', at),
         \A i \in DOMAIN tcbs' : \/ \E k \in DOMAIN tcbs : tcbs'[i].vspace_root = tcbs[k].vspace_root
                                 \/ \E k \in DOMAIN todo : /\ NeedsRoot(todo[k])
                                                           /\ tcbs'[i].vspace_root = todo[k].root,
         \A j \in DOMAIN todo' : NeedsRoot(todo'[j]) =>
           \/ \E k \in DOMAIN todo : NeedsRoot(todo[k]) /\ todo'[j].root = todo[k].root
           \/ todo'[j].root \in DOMAIN mem' /\ at2[todo'[j].root] = Top
  PROVE  (\E x : Placed(x))' /\ StepStable
<1>1. \A root : IsRoot(at, root) => root \in DOMAIN mem' /\ at2[root] = Top
  BY DEF IsRoot, SamePlaces, Keeps
<1>2. Placed(at2)'
  <2>1. Tree(mem', next', at2, Huge')
    BY DEF Huge
  <2>2. \A i \in DOMAIN tcbs' : tcbs'[i].vspace_root \in DOMAIN mem' /\ at2[tcbs'[i].vspace_root] = Top
    BY <1>1 DEF Placed
  <2>3. \A j \in DOMAIN todo' : NeedsRoot(todo'[j]) =>
          todo'[j].root \in DOMAIN mem' /\ at2[todo'[j].root] = Top
    BY <1>1 DEF Placed
  <2>4. DOMAIN booting' = {}
    OBVIOUS
  <2> QED BY <2>1, <2>2, <2>3, <2>4 DEF Placed, IsRoot, NeedsRoot
<1>3. StepStable
  BY KeptMeansStable
<1> QED BY <1>2, <1>3

-----------------------------------------------------------------------------
(* A step of the program that starts no other one. *)
LEMMA JobsGoOn ==
  ASSUME Jobs, booting = <<>>, booting' = booting, mappable_addr' = mappable_addr,
         Formed(todo'), level' \in 0..3, IsSeq(tcbs'), Len(tcbs') \in Nat, Spawns' = Spawns
  PROVE  Jobs'
<1>1. Programs # {} => (\E most \in Nat : Room(most))'
  <2> SUFFICES ASSUME Programs # {} PROVE (\E most \in Nat : Room(most))'
    OBVIOUS
  <2>1. PICK most \in Nat : Room(most)
    BY DEF Jobs
  <2>2. Room(most)'
    BY <2>1 DEF Room
  <2> QED BY <2>2
<1>2. /\ IsSeq(booting') /\ \A i \in DOMAIN booting' : booting'[i] \in User
      /\ \A i, j \in DOMAIN booting' :
           i # j => booting'[i] \div PageBytes # booting'[j] \div PageBytes
  BY DEF Jobs
<1>3. Spawns' <= MaxSpawns
  BY DEF Jobs
<1> QED BY <1>1, <1>2, <1>3 DEF Jobs

(* The job of map_page is about an address of the user in a vspace. *)
LEMMA JobPlaced ==
  ASSUME Jobs, NEW at, Placed(at), InMapPage
  PROVE  /\ Job.addr \in User /\ OnWay(mem, at, Job.root, 3, Job.addr)
         /\ Tree(mem, next, at, HugeAddrs)
<1>1. todo # <<>> /\ Formed(todo) /\ booting = <<>>
  BY DEF Jobs, InMapPage
<1>2. Job = todo[1] /\ 1 \in DOMAIN todo /\ Job.op \in {"scratch", "map"}
  BY <1>1, SeqBasics DEF Formed, Job, InMapPage
<1>3. JobShape(Job) /\ NeedsRoot(Job)
  BY <1>1, <1>2 DEF Formed, NeedsRoot
<1>4. Len(Job.frames) \in Nat \ {0} /\ IsUser(Job.addr, Len(Job.frames))
  BY <1>2, <1>3, SeqBasics DEF JobShape
<1>5. Job.addr \in User
  BY <1>4, UserAddress
<1>6. IsRoot(at, Job.root)
  BY <1>2, <1>3 DEF Placed
<1>7. OnWay(mem, at, Job.root, 3, Job.addr)
  BY <1>5, <1>6, PlaceFields DEF IsRoot, OnWay
<1> QED BY <1>1, <1>5, <1>7 DEF Placed, Huge

(* What map_page's system call leaves behind. *)
LEMMA TryPageStep ==
  ASSUME VspaceInvariant, TryPage
  PROVE  VspaceInvariant' /\ StepStable
<1> DEFINE r == IF Head(Job.frames) \in empty THEN illegal_operation(mem)
                ELSE x86_64_page_map(mem, Head(Job.frames), Job.root, Job.addr)
<1>1. PICK at : Placed(at)
  BY DEF VspaceInvariant
<1>2. /\ InMapPage /\ mem' = r.mem /\ level' = r.level /\ next' = next
      /\ todo' = PageDone \/ todo' = todo \/ todo' = BufferFailed
      /\ booting' = booting /\ mappable_addr' = mappable_addr /\ tcbs' = tcbs
  BY DEF TryPage
<1>3. Jobs /\ Formed(todo) /\ todo # <<>> /\ booting = <<>>
  BY <1>2 DEF VspaceInvariant, Jobs, InMapPage
<1>4. Formed(todo') /\ todo' # <<>> /\ RootsFrom(todo', todo)
  BY <1>2, <1>3, JobsLeft
<1>5. Job.addr \in User
  BY <1>1, <1>2, <1>3, JobPlaced
<1>6. Tree(mem, next, at, HugeAddrs) /\ OnWay(mem, at, Job.root, 3, Job.addr)
  BY <1>1, <1>2, <1>3, JobPlaced
<1>7. r.level \in 0..3 /\ (r.mem = mem \/ Writes(mem, at, 0, Job.addr, Head(Job.frames), r.mem))
  <2>1. CASE Head(Job.frames) \in empty
    BY <2>1 DEF illegal_operation
  <2>2. CASE Head(Job.frames) \notin empty
    BY <1>5, <1>6, <2>2, PageMap
  <2> QED BY <2>1, <2>2
<1> HIDE DEF r
<1>8. Tree(mem', next', at, HugeAddrs) /\ Keeps(mem, mem', at)
  <2>1. CASE r.mem = mem
    BY <1>2, <1>6, <2>1 DEF Keeps
  <2>2. CASE Writes(mem, at, 0, Job.addr, Head(Job.frames), r.mem)
    <3>1. PICK t : /\ OnWay(mem, at, t, 0, Job.addr) /\ mem[t][Index(Job.addr, 0)] = 0
                   /\ r.mem = Store(mem, <<t, Index(Job.addr, 0)>>, Head(Job.frames))
      BY <2>2 DEF Writes
    <3>2. t \in DOMAIN mem /\ Index(Job.addr, 0) \in Slots /\ at[t].l = 0
      BY <1>5, <3>1, PlaceFields, Indices DEF OnWay
    <3> QED BY <1>2, <1>6, <3>1, <3>2, TreeStore
  <2> QED BY <1>7, <2>1, <2>2
<1>9. SamePlaces(mem, at, at)
  BY DEF SamePlaces
<1>10. (\E x : Placed(x))' /\ StepStable
  BY <1>1, <1>2, <1>3, <1>4, <1>8, <1>9, TreesGrow DEF RootsFrom
<1>11. Spawns' = Spawns
  BY <1>2, <1>3, <1>4 DEF Spawns
<1>12. Jobs'
  BY <1>2, <1>3, <1>4, <1>7, <1>11, JobsGoOn DEF Jobs
<1> QED BY <1>10, <1>12 DEF VspaceInvariant

(* A program that has stopped does nothing more. *)
LEMMA StoppedFormed ==
  Formed(Stopped) /\ Stopped # <<>> /\ \A q : RootsFrom(Stopped, q)
<1>1. /\ Stopped \in Seq({[op |-> "stopped"]}) /\ Len(Stopped) = 1
      /\ Stopped[1].op = "stopped" /\ DOMAIN Stopped = {1} /\ Stopped # <<>>
  BY DEF Stopped
<1>2. IsSeq(Stopped)
  BY <1>1, SeqIs
<1> QED BY <1>1, <1>2 DEF Formed, JobShape, RootsFrom, NeedsRoot

(* What map_page does about a missing table. *)
LEMMA MakeTableStep ==
  ASSUME VspaceInvariant, MakeTable
  PROVE  VspaceInvariant' /\ StepStable
<1> DEFINE r == TableMap(level, next, Job.root, Job.addr)
<1>1. PICK at : Placed(at)
  BY DEF VspaceInvariant
<1>2. /\ InMapPage /\ level # 0 /\ mem' = WithTable(r.mem, next) /\ level' = 0
      /\ next' = next + 1
      /\ todo' = todo \/ todo' = Stopped
      /\ booting' = booting /\ mappable_addr' = mappable_addr /\ tcbs' = tcbs
  BY DEF MakeTable
<1>3. Jobs /\ Formed(todo) /\ todo # <<>> /\ booting = <<>> /\ level \in 1..3
  BY <1>2 DEF VspaceInvariant, Jobs, InMapPage
<1>4. Formed(todo') /\ todo' # <<>> /\ RootsFrom(todo', todo)
  <2>1. CASE todo' = todo
    BY <1>3, <2>1 DEF RootsFrom
  <2>2. CASE todo' = Stopped
    BY <2>2, StoppedFormed
  <2> QED BY <1>2, <2>1, <2>2
<1>5. Job.addr \in User
  BY <1>1, <1>2, <1>3, JobPlaced
<1>6. Tree(mem, next, at, HugeAddrs) /\ OnWay(mem, at, Job.root, 3, Job.addr)
  BY <1>1, <1>2, <1>3, JobPlaced
<1>7. PICK at2 : /\ Tree(mem', next', at2, HugeAddrs) /\ SamePlaces(mem, at, at2)
                 /\ Keeps(mem, mem', at)
  <2> DEFINE m2 == WithTable(TableMap(level, next, Job.root, Job.addr).mem, next)
  <2>1. \E at2 : Tree(m2, next + 1, at2, HugeAddrs) /\ SamePlaces(mem, at, at2) /\ Keeps(mem, m2, at)
    BY <1>3, <1>5, <1>6, TableMapped
  <2> HIDE DEF m2
  <2>2. mem' = m2 /\ next' = next + 1
    BY <1>2 DEF m2
  <2> QED BY <2>1, <2>2
<1>8. (\E x : Placed(x))' /\ StepStable
  BY <1>1, <1>2, <1>3, <1>4, <1>7, TreesGrow DEF RootsFrom
<1>9. Spawns' = Spawns
  BY <1>2, <1>3, <1>4 DEF Spawns
<1>10. Jobs'
  BY <1>2, <1>3, <1>4, <1>9, JobsGoOn DEF Jobs
<1> QED BY <1>8, <1>10 DEF VspaceInvariant

(* The steps of spawn_thread that leave the tables as they are. *)
LEMMA TablesStay ==
  ASSUME VspaceInvariant, todo # <<>>, Formed(todo'), todo' # <<>>, RootsFrom(todo', todo),
         mem' = mem, next' = next, level' \in 0..3, booting' = booting,
         mappable_addr' = mappable_addr, tcbs' = tcbs
  PROVE  VspaceInvariant' /\ StepStable
<1>1. PICK at : Placed(at)
  BY DEF VspaceInvariant
<1>2. Jobs /\ booting = <<>>
  BY DEF VspaceInvariant, Jobs
<1>3. Tree(mem', next', at, HugeAddrs) /\ SamePlaces(mem, at, at) /\ Keeps(mem, mem', at)
  BY <1>1, <1>2 DEF Placed, Huge, SamePlaces, Keeps
<1>4. (\E x : Placed(x))' /\ StepStable
  BY <1>1, <1>2, <1>3, TreesGrow DEF RootsFrom
<1>5. Spawns' = Spawns
  BY DEF Spawns
<1>6. Jobs'
  BY <1>2, <1>5, JobsGoOn DEF Jobs
<1> QED BY <1>4, <1>6 DEF VspaceInvariant

LEMMA NoTableStep ==
  ASSUME VspaceInvariant, NoTable
  PROVE  VspaceInvariant' /\ StepStable
<1>1. /\ todo # <<>> /\ mem' = mem /\ next' = next /\ level' = 0 /\ booting' = booting
      /\ mappable_addr' = mappable_addr /\ tcbs' = tcbs /\ todo' = Stopped
  BY DEF NoTable, InMapPage
<1> QED BY <1>1, StoppedFormed, TablesStay

(* A buffer that is made is mapped next. *)
LEMMA CreateBufferStep ==
  ASSUME VspaceInvariant, CreateBuffer
  PROVE  VspaceInvariant' /\ StepStable
<1> DEFINE t == Tail(todo)
           h == MapJob("scratch", Job.root, Job.frames, Job.addr)
<1>1. /\ todo # <<>> /\ Job.op = "create" /\ todo' = <<h>> \o t /\ mem' = mem /\ next' = next
      /\ level' = level /\ booting' = booting /\ mappable_addr' = mappable_addr /\ tcbs' = tcbs
  BY DEF CreateBuffer
<1>2. Formed(todo) /\ level \in 0..3
  BY DEF VspaceInvariant, Jobs
<1>3. /\ Len(todo) \in Nat \ {0} /\ DOMAIN todo = 1..Len(todo) /\ Job = todo[1]
      /\ IsSeq(t) /\ \A j \in 1..(Len(todo) - 1) : t[j] = todo[j + 1]
  BY <1>1, <1>2, SeqBasics DEF Formed, Job
<1>4. Formed(t) /\ t # <<>> /\ RootsFrom(t, todo)
  BY <1>1, <1>2, FormedTail DEF Job
<1>5. IsCopy(t[1])
  <2>1. 1 \in DOMAIN todo /\ 1 + 1 = 2
    BY <1>3
  <2>2. 2 \in DOMAIN todo /\ IsCopy(todo[2])
    BY <1>1, <1>2, <1>3, <2>1 DEF Formed
  <2> QED BY <1>3, <2>1, <2>2
<1>6. IsSeq(Job.frames) /\ Job.frames # <<>> /\ IsUser(Job.addr, Len(Job.frames))
  BY <1>1, <1>2, <1>3 DEF Formed, JobShape
<1>7. h.op = "scratch" /\ h.root = Job.root /\ h.frames = Job.frames /\ h.addr = Job.addr
  BY DEF MapJob
<1>8. h = MapJob(h.op, h.root, h.frames, h.addr)
  BY <1>7
<1> HIDE DEF h, t
<1>9. JobShape(h)
  BY <1>6, <1>7, <1>8 DEF JobShape
<1>10. Formed(todo')
  BY <1>1, <1>4, <1>5, <1>7, <1>9, FormedHead
<1>11. /\ todo' # <<>> /\ DOMAIN todo' = 1..(Len(t) + 1) /\ todo'[1] = h /\ Len(t) \in Nat
       /\ \A j \in 1..Len(t) : todo'[j + 1] = t[j]
  <2>1. Prefixed(todo', h, t)
    BY <1>1, <1>3, NewHead
  <2> QED BY <2>1 DEF Prefixed
<1>12. DOMAIN t = 1..Len(t)
  BY <1>4, SeqBasics DEF Formed
<1>13. RootsFrom(todo', todo)
  <2> SUFFICES ASSUME NEW j \in DOMAIN todo', NeedsRoot(todo'[j])
               PROVE  \E k \in DOMAIN todo : NeedsRoot(todo[k]) /\ todo'[j].root = todo[k].root
    BY DEF RootsFrom
  <2>1. CASE j = 1
    BY <1>1, <1>3, <1>7, <1>11, <2>1 DEF NeedsRoot
  <2>2. CASE j # 1
    <3>1. j - 1 \in DOMAIN t /\ todo'[j] = t[j - 1]
      BY <1>11, <1>12, <2>2
    <3> QED BY <1>4, <3>1 DEF RootsFrom
  <2> QED BY <2>1, <2>2
<1> QED BY <1>1, <1>2, <1>10, <1>11, <1>13, TablesStay

LEMMA CopySegmentStep ==
  ASSUME VspaceInvariant, CopySegment
  PROVE  VspaceInvariant' /\ StepStable
<1>1. /\ todo # <<>> /\ Job.op = "copy" /\ mem' = mem /\ next' = next
      /\ todo' = Tail(todo) \/ todo' = Stopped
      /\ level' = level /\ booting' = booting /\ mappable_addr' = mappable_addr /\ tcbs' = tcbs
  BY DEF CopySegment
<1>2. Formed(todo) /\ level \in 0..3 /\ Head(todo).op = "copy"
  BY <1>1 DEF VspaceInvariant, Jobs, Job
<1>3. Formed(todo') /\ todo' # <<>> /\ RootsFrom(todo', todo)
  BY <1>1, <1>2, FormedTail, StoppedFormed
<1> QED BY <1>1, <1>2, <1>3, TablesStay

LEMMA ConfigureStep ==
  ASSUME VspaceInvariant, Configure
  PROVE  VspaceInvariant' /\ StepStable
<1> DEFINE t == [vspace_root |-> Job.root, ipc_buffer |-> Job.ipc,
                 stack |-> Job.stack, prog |-> Job.prog,
                 r15 |-> IpcAddr(Job.prog),
                 rsp |-> StackAddr(Job.prog) + Len(Job.stack) * PageBytes]
<1>1. PICK at : Placed(at)
  BY DEF VspaceInvariant
<1>2. /\ todo # <<>> /\ Job.op = "configure" /\ todo' = Tail(todo) /\ mem' = mem /\ next' = next
      /\ level' = level /\ booting' = booting /\ mappable_addr' = mappable_addr
      /\ tcbs' = Append(tcbs, t)
  BY DEF Configure
<1>3. Jobs /\ Formed(todo) /\ booting = <<>> /\ IsSeq(tcbs)
  BY <1>2 DEF VspaceInvariant, Jobs
<1>4. Formed(todo') /\ todo' = <<>> /\ RootsFrom(todo', todo)
  <2>1. Head(todo).op = "configure"
    BY <1>2 DEF Job
  <2> QED BY <1>2, <1>3, <2>1, FormedTail
<1>5. Tree(mem', next', at, HugeAddrs) /\ SamePlaces(mem, at, at) /\ Keeps(mem, mem', at)
  BY <1>1, <1>2, <1>3 DEF Placed, Huge, SamePlaces, Keeps
<1>6. NeedsRoot(todo[1]) /\ 1 \in DOMAIN todo /\ t.vspace_root = todo[1].root
  BY <1>2, <1>3, SeqBasics DEF Formed, Job, NeedsRoot
<1> HIDE DEF t
<1>7. /\ IsSeq(tcbs') /\ Len(tcbs') = Len(tcbs) + 1 /\ Len(tcbs') \in Nat
      /\ \A i \in DOMAIN tcbs' : (i \in DOMAIN tcbs /\ tcbs'[i] = tcbs[i]) \/ tcbs'[i] = t
  <2> DEFINE S == {tcbs[i] : i \in DOMAIN tcbs} \cup {t}
  <2>1. tcbs \in Seq(S) /\ t \in S
    <3>1. tcbs \in Seq({tcbs[i] : i \in DOMAIN tcbs}) /\ {tcbs[i] : i \in DOMAIN tcbs} \subseteq S
      BY <1>3 DEF IsSeq
    <3>2. t \in S
      OBVIOUS
    <3> HIDE DEF S
    <3> QED BY <3>1, <3>2
  <2> HIDE DEF S
  <2>2. tcbs' \in Seq(S)
    BY <1>2, <2>1
  <2>3. IsSeq(tcbs')
    BY <2>2, SeqIs
  <2>4. /\ Len(tcbs') = Len(tcbs) + 1 /\ Len(tcbs') \in Nat
        /\ \A i \in DOMAIN tcbs' : (i \in DOMAIN tcbs /\ tcbs'[i] = tcbs[i]) \/ tcbs'[i] = t
    BY <1>2, <2>1
  <2> QED BY <2>3, <2>4
<1>8. (\E x : Placed(x))' /\ StepStable
  BY <1>1, <1>2, <1>3, <1>4, <1>5, <1>6, <1>7, TreesGrow DEF RootsFrom
<1>9. Spawns' = Spawns
  BY <1>2, <1>3, <1>4, <1>7 DEF Spawns, Jobs
<1>10. Jobs'
  BY <1>2, <1>3, <1>4, <1>7, <1>9, JobsGoOn DEF Jobs
<1> QED BY <1>8, <1>10 DEF VspaceInvariant

(* The maps made by hand, between two spawns. *)
LEMMA ByHand ==
  ASSUME VspaceInvariant, NEW at, Placed(at), NEW m, MapByHand(m), NEW at2,
         Tree(m, next + 1, at2, HugeAddrs), SamePlaces(mem, at, at2), Keeps(mem, m, at)
  PROVE  VspaceInvariant' /\ StepStable
<1>1. /\ mem' = m /\ next' = next + 1 /\ booting = <<>> /\ todo = <<>> /\ todo' = todo
      /\ level' = level /\ booting' = booting /\ mappable_addr' = mappable_addr /\ tcbs' = tcbs
  BY DEF MapByHand
<1>2. Jobs /\ Formed(todo)
  BY DEF VspaceInvariant, Jobs
<1>3. (\E x : Placed(x))' /\ StepStable
  BY <1>1, TreesGrow
<1>4. Spawns' = Spawns
  BY <1>1 DEF Spawns
<1>5. Jobs'
  BY <1>1, <1>2, <1>4, JobsGoOn DEF Jobs
<1> QED BY <1>3, <1>5 DEF VspaceInvariant

LEMMA HandRoot ==
  ASSUME NEW at, Placed(at), booting = <<>>, NEW root \in Roots, NEW a \in User
  PROVE  /\ Tree(mem, next, at, HugeAddrs) /\ OnWay(mem, at, root, 3, a)
         /\ next \in Nat /\ next \notin DOMAIN mem /\ next # 0
<1>1. Tree(mem, next, at, HugeAddrs)
  BY DEF Placed, Huge
<1>2. IsRoot(at, root)
  BY <1>1 DEF Roots, Placed, Tree, IsRoot
<1>3. next \in Nat /\ next \notin DOMAIN mem /\ next # 0
  BY <1>1 DEF Tree
<1> QED BY <1>1, <1>2, <1>3, PlaceFields DEF IsRoot, OnWay

LEMMA MapTableStep ==
  ASSUME VspaceInvariant, NEW lvl \in 1..3, NEW root \in Roots, NEW a \in TableAddrs,
         MapTable(lvl, root, a)
  PROVE  VspaceInvariant' /\ StepStable
<1> DEFINE m == WithTable(TableMap(lvl, next, root, a).mem, next)
<1>1. PICK at : Placed(at)
  BY DEF VspaceInvariant
<1>2. MapByHand(m) /\ booting = <<>> /\ a \in User
  BY VspaceAssumption DEF MapTable, MapByHand, User
<1>3. Tree(mem, next, at, HugeAddrs) /\ OnWay(mem, at, root, 3, a)
  BY <1>1, <1>2, HandRoot
<1>4. \E x : Tree(m, next + 1, x, HugeAddrs) /\ SamePlaces(mem, at, x) /\ Keeps(mem, m, at)
  BY <1>2, <1>3, TableMapped
<1> HIDE DEF m
<1> QED BY <1>1, <1>2, <1>4, ByHand

LEMMA MapPageStep ==
  ASSUME VspaceInvariant, NEW root \in Roots, NEW a \in PageAddrs, MapPage(root, a)
  PROVE  VspaceInvariant' /\ StepStable
<1> DEFINE m == x86_64_page_map(mem, next, root, a).mem
           i == Index(a, 0)
<1>1. PICK at : Placed(at)
  BY DEF VspaceInvariant
<1>2. MapByHand(m) /\ booting = <<>> /\ a \in User
  BY HandAddrsAreUser DEF MapPage, MapByHand
<1>3. Tree(mem, next, at, HugeAddrs) /\ OnWay(mem, at, root, 3, a) /\ next \in Nat
  BY <1>1, <1>2, HandRoot
<1>4. m = mem \/ Writes(mem, at, 0, a, next, m)
  BY <1>2, <1>3, PageMap
<1>5. Tree(mem, next + 1, at, HugeAddrs)
  BY <1>3, TreeWaits
<1> HIDE DEF m
<1>6. Tree(m, next + 1, at, HugeAddrs) /\ Keeps(mem, m, at)
  <2>1. CASE m = mem
    BY <1>5, <2>1 DEF Keeps
  <2>2. CASE Writes(mem, at, 0, a, next, m)
    <3>1. PICK t : OnWay(mem, at, t, 0, a) /\ mem[t][i] = 0 /\ m = Store(mem, <<t, i>>, next)
      BY <2>2 DEF Writes
    <3>2. t \in DOMAIN mem /\ i \in Slots /\ at[t].l = 0
      BY <1>2, <3>1, PlaceFields, Indices DEF OnWay
    <3> QED BY <1>5, <3>1, <3>2, TreeStore
  <2> QED BY <1>4, <2>1, <2>2
<1>7. SamePlaces(mem, at, at)
  BY DEF SamePlaces
<1> QED BY <1>1, <1>2, <1>6, <1>7, ByHand

(* A huge page hides no mapping: its entry was zero. *)
LEMMA MapHugePageStep ==
  ASSUME VspaceInvariant, NEW a \in HugeAddrs, MapHugePage(a)
  PROVE  VspaceInvariant' /\ StepStable
<1> DEFINE m == x86_64_huge_page_map(mem, next, InitVspace, a).mem
           i == Index(a, 1)
<1>1. PICK at : Placed(at)
  BY DEF VspaceInvariant
<1>2. MapByHand(m) /\ booting = <<>> /\ a \in User
  BY HandAddrsAreUser DEF MapHugePage, MapByHand
<1>3. /\ Tree(mem, next, at, HugeAddrs) /\ OnWay(mem, at, InitVspace, 3, a)
      /\ next \in Nat /\ next \notin DOMAIN mem /\ next # 0
  <2>1. InitVspace \in Roots
    BY DEF Roots
  <2> QED BY <1>1, <1>2, <2>1, HandRoot
<1>4. m = mem \/ Writes(mem, at, 1, a, next, m)
  BY <1>2, <1>3, PtMap DEF x86_64_huge_page_map
<1>5. Tree(mem, next + 1, at, HugeAddrs)
  BY <1>3, TreeWaits
<1> HIDE DEF m
<1>6. Tree(m, next + 1, at, HugeAddrs) /\ Keeps(mem, m, at)
  <2>1. CASE m = mem
    BY <1>5, <2>1 DEF Keeps
  <2>2. CASE Writes(mem, at, 1, a, next, m)
    <3>1. PICK t : OnWay(mem, at, t, 1, a) /\ mem[t][i] = 0 /\ m = Store(mem, <<t, i>>, next)
      BY <2>2 DEF Writes
    <3>2. t \in DOMAIN mem /\ i \in Slots /\ at[t].l = 1 /\ HugeAt(HugeAddrs, at[t], i)
      BY <1>2, <3>1, PlaceFields, Indices DEF OnWay, HugeAt
    <3>3. Opaque(mem, next + 1, next)
      BY <1>3 DEF Opaque
    <3> QED BY <1>5, <3>1, <3>2, <3>3, TreeStore
  <2> QED BY <1>4, <2>1, <2>2
<1>7. SamePlaces(mem, at, at)
  BY DEF SamePlaces
<1> QED BY <1>1, <1>2, <1>6, <1>7, ByHand

-----------------------------------------------------------------------------
(* A page of the first program, mapped at boot: its entry was zero, so     *)
(* nothing that was mapped is replaced.                                    *)
LEMMA BootMapStep ==
  ASSUME VspaceInvariant, BootMap
  PROVE  VspaceInvariant' /\ StepStable
<1> DEFINE b == Head(booting)
           x == add_vm_mapping([mem |-> mem, next |-> next + 1], InitVspace, b, next)
<1>1. PICK at : Placed(at)
  BY DEF VspaceInvariant
<1>2. /\ booting # <<>> /\ mem' = x.mem /\ next' = x.next /\ booting' = Tail(booting)
      /\ todo' = todo /\ level' = level /\ mappable_addr' = mappable_addr /\ tcbs' = tcbs
  BY DEF BootMap
<1>3. Jobs /\ todo = <<>>
  BY <1>2 DEF VspaceInvariant, Jobs
<1>4. /\ Len(booting) \in Nat \ {0} /\ DOMAIN booting = 1..Len(booting) /\ b = booting[1]
      /\ IsSeq(booting') /\ DOMAIN booting' = 1..(Len(booting) - 1)
      /\ \A j \in 1..(Len(booting) - 1) : booting'[j] = booting[j + 1]
  <2>1. /\ Len(booting) \in Nat \ {0} /\ DOMAIN booting = 1..Len(booting) /\ b = booting[1]
        /\ IsSeq(booting') /\ Len(booting') = Len(booting) - 1
        /\ \A j \in 1..(Len(booting) - 1) : booting'[j] = booting[j + 1]
    BY <1>2, <1>3, SeqBasics DEF Jobs
  <2> QED BY <2>1 DEF IsSeq
<1>5. b \in User /\ \A j \in DOMAIN booting' :
        /\ booting'[j] \in User /\ j + 1 \in DOMAIN booting /\ booting'[j] = booting[j + 1]
        /\ booting'[j] \div PageBytes # b \div PageBytes
  <2>1. b \in User
    BY <1>3, <1>4 DEF Jobs
  <2>2. ASSUME NEW j \in DOMAIN booting'
        PROVE  /\ booting'[j] \in User /\ j + 1 \in DOMAIN booting /\ booting'[j] = booting[j + 1]
               /\ booting'[j] \div PageBytes # b \div PageBytes
    <3>1. j + 1 \in DOMAIN booting /\ booting'[j] = booting[j + 1] /\ j + 1 # 1 /\ 1 \in DOMAIN booting
      BY <1>4
    <3> QED BY <1>3, <1>4, <3>1 DEF Jobs
  <2> QED BY <2>1, <2>2
<1> HIDE DEF b
<1>6. Tree(mem, next + 1, at, {}) /\ next + 1 \in Nat
  <2>1. Tree(mem, next, at, {}) /\ next \in Nat
    BY <1>1, <1>2 DEF Placed, Huge, Tree
  <2> QED BY <2>1, TreeWaits
<1>7. \A t : OnWay(mem, at, t, 0, b) => mem[t][Index(b, 0)] = 0
  BY <1>1, <1>4 DEF Placed
<1>8. PICK at2 :
        /\ Tree(x.mem, x.next, at2, {}) /\ next + 1 <= x.next
        /\ SamePlaces(mem, at, at2) /\ Keeps(mem, x.mem, at)
        /\ \A t \in DOMAIN x.mem, i \in Slots :
             at2[t].l = 0 /\ x.mem[t][i] # 0 =>
               \/ t \in DOMAIN mem /\ mem[t][i] # 0 /\ at2[t] = at[t]
               \/ at2[t] = PlaceOf(b, 0) /\ i = Index(b, 0)
  BY <1>5, <1>6, <1>7, BootMapped
<1> HIDE DEF x
<1>9. Keeps(mem, mem', at)
  BY <1>2, <1>8
<1>10. StepStable
  BY <1>1, <1>9, KeptMeansStable
<1>11. Placed(at2)'
  <2>1. Tree(mem', next', at2, Huge')
    <3>1. Tree(mem', next', at2, {}) /\ next' \in Nat
      BY <1>2, <1>8 DEF Tree
    <3> QED BY <3>1, TreeWaits
  <2>2. ASSUME NEW k \in DOMAIN booting', NEW t, OnWay(mem', at2, t, 0, booting'[k])
        PROVE  mem'[t][Index(booting'[k], 0)] = 0
    <3> DEFINE c == booting'[k]
               i == Index(c, 0)
    <3>1. c \in User /\ k + 1 \in DOMAIN booting /\ c = booting[k + 1]
          /\ c \div PageBytes # b \div PageBytes
      BY <1>5
    <3>2. t \in DOMAIN mem' /\ at2[t] = PlaceOf(c, 0) /\ at2[t].l = 0 /\ i \in Slots
      BY <2>2, <3>1, PlaceFields, Indices DEF OnWay
    <3> SUFFICES ASSUME mem'[t][i] # 0 PROVE FALSE
      OBVIOUS
    <3>3. CASE t \in DOMAIN mem /\ mem[t][i] # 0 /\ at2[t] = at[t]
      <4>1. OnWay(mem, at, t, 0, booting[k + 1])
        BY <3>1, <3>2, <3>3 DEF OnWay
      <4> HIDE DEF i
      <4>2. mem[t][Index(booting[k + 1], 0)] = 0
        BY <1>1, <3>1, <4>1 DEF Placed
      <4> QED BY <3>1, <3>3, <4>2 DEF i
    <3>4. CASE at2[t] = PlaceOf(b, 0) /\ i = Index(b, 0)
      <4>1. PlaceOf(c, 0) = PlaceOf(b, 0)
        BY <3>2, <3>4
      <4>2. Index(c, 3) = Index(b, 3) /\ Index(c, 2) = Index(b, 2) /\ Index(c, 1) = Index(b, 1)
        <5>1. PlaceOf(c, 0) = [l |-> 0, i3 |-> Index(c, 3), i2 |-> Index(c, 2),
                               i1 |-> Index(c, 1)]
          BY <3>1, PlaceFields
        <5>2. PlaceOf(b, 0) = [l |-> 0, i3 |-> Index(b, 3), i2 |-> Index(b, 2),
                               i1 |-> Index(b, 1)]
          BY <1>5, PlaceFields
        <5> QED BY <4>1, <5>1, <5>2
      <4>3. PlaceOf(c, 1) = PlaceOf(b, 1)
        BY <1>5, <3>1, <4>2, PlaceFields
      <4>4. c \div PageBytes = b \div PageBytes
        BY <1>5, <3>1, <3>4, <4>2, <4>3, SameWay
      <4> QED BY <3>1, <4>4
    <3> QED BY <1>2, <1>8, <3>2, <3>3, <3>4
  <2>3. \A root : IsRoot(at, root) => root \in DOMAIN mem' /\ at2[root] = Top
    BY <1>2, <1>8 DEF IsRoot, SamePlaces, Keeps
  <2>4. \A i \in DOMAIN tcbs' : tcbs'[i].vspace_root \in DOMAIN mem' /\ at2[tcbs'[i].vspace_root] = Top
    BY <1>1, <1>2, <2>3 DEF Placed
  <2>5. \A j \in DOMAIN todo' : NeedsRoot(todo'[j]) =>
          todo'[j].root \in DOMAIN mem' /\ at2[todo'[j].root] = Top
    BY <1>1, <1>2, <2>3 DEF Placed
  <2> QED BY <2>1, <2>2, <2>4, <2>5 DEF Placed, IsRoot, NeedsRoot
<1>12. Jobs'
  <2>1. Spawns' = Spawns
    BY <1>2 DEF Spawns
  <2>2. Programs # {} => (\E most \in Nat : Room(most))'
    <3> SUFFICES ASSUME Programs # {} PROVE (\E most \in Nat : Room(most))'
      OBVIOUS
    <3>1. PICK most \in Nat : Room(most)
      BY <1>3 DEF Jobs
    <3>2. Room(most)'
      BY <1>2, <2>1, <3>1 DEF Room
    <3> QED BY <3>2
  <2>3. \A i, j \in DOMAIN booting' :
          i # j => booting'[i] \div PageBytes # booting'[j] \div PageBytes
    <3> SUFFICES ASSUME NEW i \in DOMAIN booting', NEW j \in DOMAIN booting', i # j
                 PROVE  booting'[i] \div PageBytes # booting'[j] \div PageBytes
      OBVIOUS
    <3>1. i + 1 \in DOMAIN booting /\ j + 1 \in DOMAIN booting /\ i + 1 # j + 1
          /\ booting'[i] = booting[i + 1] /\ booting'[j] = booting[j + 1]
      BY <1>4
    <3> QED BY <1>3, <3>1 DEF Jobs
  <2>4. /\ level' \in 0..3 /\ IsSeq(tcbs') /\ Len(tcbs') \in Nat /\ Spawns' <= MaxSpawns
        /\ Formed(todo') /\ todo' = <<>>
    BY <1>2, <1>3, <2>1 DEF Jobs
  <2>5. \A i \in DOMAIN booting' : booting'[i] \in User
    BY <1>5
  <2> QED BY <1>4, <2>2, <2>3, <2>4, <2>5 DEF Jobs
<1> QED BY <1>10, <1>11, <1>12 DEF VspaceInvariant

-----------------------------------------------------------------------------
(* p is t put after s. *)
Joins(p, s, t) ==
  /\ IsSeq(p) /\ Len(s) \in Nat /\ Len(t) \in Nat /\ Len(p) = Len(s) + Len(t)
  /\ DOMAIN p = 1..(Len(s) + Len(t)) /\ DOMAIN s = 1..Len(s) /\ DOMAIN t = 1..Len(t)
  /\ \A j \in 1..Len(s) : p[j] = s[j]
  /\ \A k \in 1..Len(t) : p[Len(s) + k] = t[k]

LEMMA Joined ==
  ASSUME NEW s, IsSeq(s), NEW t, IsSeq(t), NEW p, p = s \o t
  PROVE  Joins(p, s, t)
<1> DEFINE U == {s[j] : j \in DOMAIN s}
           V == {t[j] : j \in DOMAIN t}
           S == U \cup V
<1>1. s \in Seq(S) /\ t \in Seq(S)
  <2>1. s \in Seq(U) /\ t \in Seq(V) /\ U \subseteq S /\ V \subseteq S
    BY DEF IsSeq
  <2> HIDE DEF U, V, S
  <2> QED BY <2>1
<1> HIDE DEF S
<1>2. /\ p \in Seq(S) /\ Len(s) \in Nat /\ Len(t) \in Nat /\ Len(p) = Len(s) + Len(t)
      /\ DOMAIN p = 1..(Len(s) + Len(t)) /\ DOMAIN s = 1..Len(s) /\ DOMAIN t = 1..Len(t)
      /\ \A j \in 1..Len(s) : p[j] = s[j]
      /\ \A k \in 1..Len(t) : p[Len(s) + k] = t[k]
  BY <1>1
<1>3. IsSeq(p)
  <2>1. p \in Seq(S)
    BY <1>2
  <2> QED BY <2>1, SeqIs, Zenon
<1> QED BY <1>2, <1>3 DEF Joins

(* The buffer of a segment and where it is in the scratch area. *)
LEMMA SegmentBuffer ==
  ASSUME NEW prog \in Seq(Segments), NEW i \in 1..Len(prog), NEW first \in Nat,
         NEW most \in Nat, PagesBefore(prog, Len(prog)) <= most, NEW start, IsUser(start, most)
  PROVE  LET f == BufferOf(prog, first, i)
         IN  /\ IsSeq(f) /\ f # <<>> /\ Len(f) = PagesOf(prog[i])
             /\ IsUser(start + (f[1] - first) * PageBytes, Len(f))
<1> DEFINE f == BufferOf(prog, first, i)
           b == PagesBefore(prog, i - 1)
           n == PagesOf(prog[i])
<1>1. n \in Nat \ {0} /\ b \in Nat /\ b + n <= most
  <2>1. i \in 0..Len(prog) /\ i - 1 \in 0..Len(prog) /\ i # 0 /\ Len(prog) \in 0..Len(prog)
    OBVIOUS
  <2>2. prog[i] \in Segments
    OBVIOUS
  <2>3. n \in Nat \ {0}
    BY <2>2, PagesOfSegment
  <2>4. /\ b \in Nat /\ PagesBefore(prog, i) = b + n
        /\ PagesBefore(prog, i) <= PagesBefore(prog, Len(prog))
        /\ PagesBefore(prog, i) \in Nat /\ PagesBefore(prog, Len(prog)) \in Nat
    BY <2>1, PagesCounted
  <2> HIDE DEF b, n
  <2> QED BY <2>3, <2>4
<1>2. f = [j \in 1..n |-> first + b + j - 1]
  BY DEF BufferOf
<1> HIDE DEF f, b, n
<1>3. f \in Seq(Int) /\ Len(f) = n /\ f[1] = first + b /\ f # <<>>
  BY <1>1, <1>2
<1>4. IsSeq(f)
  <2>1. f \in Seq(Int)
    BY <1>3
  <2> QED BY <2>1, SeqIs
<1>5. IsUser(start + b * PageBytes, n)
  <2> DEFINE x == b * PageBytes
             y == n * PageBytes
             z == most * PageBytes
  <2>1. x \in Nat /\ y \in Nat /\ z \in Nat
    BY <1>1, Spans, SMTT(30)
  <2>2. (b + n) * PageBytes = x + y /\ (b + n) * PageBytes <= z
    BY <1>1, Spans, SMTT(30)
  <2>3. start \in Nat /\ start + z <= UserEnd /\ UserEnd \in Nat
    BY Spans DEF IsUser
  <2> HIDE DEF x, y, z
  <2>4. start + x \in Nat /\ (start + x) + y <= UserEnd
    BY <2>1, <2>2, <2>3
  <2> QED BY <2>4 DEF IsUser, x, y
<1>6. f[1] - first = b
  BY <1>1, <1>3
<1> QED BY <1>3, <1>4, <1>5, <1>6 DEF f, n

(* The jobs for the segments of a program. *)
LEMMA SegmentJobsFormed ==
  ASSUME NEW prog \in Seq(Segments), NEW root, NEW first \in Nat,
         \A i \in DOMAIN prog : IsUser(prog[i].vaddr, PagesOf(prog[i])),
         NEW most \in Nat, PagesBefore(prog, Len(prog)) <= most, IsUser(mappable_addr, most)
  PROVE  LET q == SegmentJobs(prog, root, first)
         IN  /\ IsSeq(q)
             /\ \A n \in DOMAIN q :
                  /\ JobShape(q[n]) /\ q[n].op \in {"create", "copy", "map"}
                  /\ q[n].op \in {"create", "scratch"} => n + 1 \in DOMAIN q /\ IsCopy(q[n + 1])
                  /\ NeedsRoot(q[n]) => q[n].root \in {InitVspace, root}
<1> DEFINE q == SegmentJobs(prog, root, first)
           i(n) == (n + 2) \div 3
           fr(n) == BufferOf(prog, first, i(n))
           sc(n) == mappable_addr + (fr(n)[1] - first) * PageBytes
           create(n) == MapJob("create", InitVspace, fr(n), sc(n))
           copy(n) == [op |-> "copy", addr |-> sc(n), prog |-> prog, seg |-> i(n)]
           map(n) == MapJob("map", root, fr(n), prog[i(n)].vaddr)
           D == 1..(3 * Len(prog))
<1>1. q = [n \in D |-> CASE n % 3 = 1 -> create(n) [] n % 3 = 2 -> copy(n) [] OTHER -> map(n)]
  BY DEF SegmentJobs
<1>2. \A n \in D : i(n) \in 1..Len(prog) /\ n \in Nat
  BY SMT
<1>3. ASSUME NEW n \in D
      PROVE  /\ IsSeq(fr(n)) /\ fr(n) # <<>> /\ IsUser(sc(n), Len(fr(n)))
             /\ IsUser(prog[i(n)].vaddr, Len(fr(n)))
  <2> DEFINE k == i(n)
             f == BufferOf(prog, first, k)
  <2>1. k \in 1..Len(prog) /\ k \in DOMAIN prog
    BY <1>2
  <2> HIDE DEF k
  <2>2. /\ IsSeq(f) /\ f # <<>> /\ Len(f) = PagesOf(prog[k])
        /\ IsUser(mappable_addr + (f[1] - first) * PageBytes, Len(f))
    BY <2>1, SegmentBuffer
  <2>3. IsUser(prog[k].vaddr, Len(f))
    BY <2>1, <2>2
  <2> QED BY <2>2, <2>3 DEF k
<1>4. \A n \in D : /\ n % 3 = 1 => q[n] = create(n)
                   /\ n % 3 = 2 => q[n] = copy(n)
                   /\ n % 3 # 1 /\ n % 3 # 2 => q[n] = map(n)
  <2> HIDE DEF D, create, copy, map
  <2>1. \A n : n % 3 = 2 => n % 3 # 1
    OBVIOUS
  <2> HIDE DEF q
  <2> QED BY <1>1, <2>1, Zenon
<1>5. DOMAIN q = D
  BY <1>1
<1>6. IsSeq(q)
  <2> DEFINE S == {q[n] : n \in D}
  <2>1. q = [n \in D |-> q[n]]
    BY <1>1
  <2> HIDE DEF q
  <2>2. \A n \in D : q[n] \in S
    OBVIOUS
  <2>3. 3 * Len(prog) \in Nat
    OBVIOUS
  <2> HIDE DEF S
  <2>4. q \in Seq(S)
    BY <2>1, <2>2, <2>3
  <2> QED BY <2>4, SeqIs
<1> HIDE DEF q
<1>7. ASSUME NEW n \in DOMAIN q
      PROVE  /\ JobShape(q[n]) /\ q[n].op \in {"create", "copy", "map"}
             /\ q[n].op \in {"create", "scratch"} => n + 1 \in DOMAIN q /\ IsCopy(q[n + 1])
             /\ NeedsRoot(q[n]) => q[n].root \in {InitVspace, root}
  <2>1. /\ IsSeq(fr(n)) /\ fr(n) # <<>> /\ IsUser(sc(n), Len(fr(n)))
        /\ IsUser(prog[i(n)].vaddr, Len(fr(n)))
    BY <1>3, <1>5
  <2>2. CASE n % 3 = 1
    <3>1. q[n] = create(n)
      BY <1>4, <1>5, <2>2
    <3> HIDE DEF fr, sc
    <3>2. /\ q[n].op = "create" /\ q[n].root = InitVspace /\ q[n].frames = fr(n)
          /\ q[n].addr = sc(n)
      BY <3>1 DEF MapJob
    <3>3. JobShape(q[n])
      BY <2>1, <3>1, <3>2 DEF JobShape
    <3>4. n + 1 \in D /\ (n + 1) % 3 = 2
      <4> DEFINE k == n \div 3
                 L == Len(prog)
      <4>1. L \in Nat /\ n \in Nat /\ n <= 3 * L
        BY <1>5
      <4> HIDE DEF L
      <4>2. k \in Nat /\ n = 3 * k + 1
        BY <2>2, <4>1, SMT
      <4> HIDE DEF k
      <4>3. n + 1 \in 1..(3 * L) /\ (n + 1) % 3 = 2
        BY <4>1, <4>2, SMT
      <4> QED BY <4>3 DEF L
    <3>5. q[n + 1] = copy(n + 1)
      BY <1>4, <3>4
    <3>6. IsCopy(q[n + 1])
      <4> DEFINE c == q[n + 1]
      <4>1. c = [op |-> "copy", addr |-> sc(n + 1), prog |-> prog, seg |-> i(n + 1)]
        BY <3>5
      <4> HIDE DEF c, i
      <4>2. c = [op |-> "copy", addr |-> c.addr, prog |-> c.prog, seg |-> c.seg]
        BY <4>1
      <4> QED BY <4>2 DEF IsCopy, c
    <3> QED BY <1>5, <3>2, <3>3, <3>4, <3>6
  <2>3. CASE n % 3 = 2
    <3>1. q[n].op = "copy"
      BY <1>4, <1>5, <2>3
    <3> QED BY <3>1 DEF JobShape, NeedsRoot
  <2>4. CASE n % 3 # 1 /\ n % 3 # 2
    <3>1. q[n] = map(n)
      BY <1>4, <1>5, <2>4
    <3> HIDE DEF fr, i
    <3>2. /\ q[n].op = "map" /\ q[n].root = root /\ q[n].frames = fr(n)
          /\ q[n].addr = prog[i(n)].vaddr
      BY <3>1 DEF MapJob
    <3>3. JobShape(q[n])
      BY <2>1, <3>1, <3>2 DEF JobShape
    <3> QED BY <3>2, <3>3
  <2> QED BY <2>2, <2>3, <2>4
<1> QED BY <1>6, <1>7 DEF q

(* The scratch area before and after a program takes its pages. *)
LEMMA RoomTaken ==
  ASSUME NEW a, NEW d \in Nat \ {0}, NEW most \in Nat, NEW pages \in Nat, pages <= most,
         IsUser(a, d * most)
  PROVE  IsUser(a, most) /\ IsUser(a + pages * PageBytes, (d - 1) * most)
<1> DEFINE r == (d - 1) * most
<1>1. r \in Nat /\ d * most = r + most /\ pages + r <= d * most
  BY SMTT(30)
<1> DEFINE x == pages * PageBytes
           y == r * PageBytes
           z == most * PageBytes
           w == (d * most) * PageBytes
<1> HIDE DEF r
<1>2. x \in Nat /\ y \in Nat /\ z \in Nat /\ w \in Nat /\ w = y + z /\ x <= z
  <2>1. x \in Nat /\ y \in Nat /\ z \in Nat /\ x <= z
    BY <1>1, Spans, SMTT(30)
  <2>2. (r + most) * PageBytes = y + z
    BY <1>1, Spans, SMTT(30)
  <2>3. w = y + z
    BY <1>1, <2>2
  <2> QED BY <2>1, <2>3
<1>3. a \in Nat /\ a + w <= UserEnd /\ UserEnd \in Nat
  BY Spans DEF IsUser
<1> HIDE DEF x, y, z, w
<1>4. a + z <= UserEnd /\ a + x \in Nat /\ (a + x) + y <= UserEnd
  BY <1>2, <1>3
<1> QED BY <1>3, <1>4 DEF IsUser, x, y, z, r

LEMMA ThreeMore ==
  ASSUME NEW L \in Nat, NEW j \in 1..(L + 3)
  PROVE  j \in 1..L \/ j = L + 1 \/ j = L + 2 \/ j = L + 3
OBVIOUS

(* Jobs for the segments of the program with this root, and the last jobs. *)
SegmentJobsOf(s, root) ==
  \A j \in DOMAIN s :
    /\ JobShape(s[j]) /\ s[j].op \in {"create", "copy", "map"}
    /\ s[j].op \in {"create", "scratch"} => j + 1 \in DOMAIN s /\ IsCopy(s[j + 1])
    /\ NeedsRoot(s[j]) => s[j].root \in {InitVspace, root}

LastJobs(prog, root, ipc, stack) ==
  <<MapJob("map", root, <<ipc>>, IpcAddr(prog)),
    MapJob("map", root, stack, StackAddr(prog)),
    [op |-> "configure", root |-> root, ipc |-> ipc, stack |-> stack, prog |-> prog]>>

SpawnJobsOf(q, root) ==
  /\ Formed(q) /\ q # <<>>
  /\ \A j \in DOMAIN q : NeedsRoot(q[j]) => q[j].root \in {InitVspace, root}

(* What spawn_thread will do. *)
LEMMA SpawnJobs ==
  ASSUME NEW prog \in Programs, NEW n \in StackPages, NEW root, NEW ipc, NEW stack,
         stack \in Seq(Int), Len(stack) = n, NEW s, IsSeq(s), SegmentJobsOf(s, root),
         NEW q, q = s \o LastJobs(prog, root, ipc, stack)
  PROVE  SpawnJobsOf(q, root)
<1> DEFINE a == MapJob("map", root, <<ipc>>, IpcAddr(prog))
           b == MapJob("map", root, stack, StackAddr(prog))
           c == [op |-> "configure", root |-> root, ipc |-> ipc, stack |-> stack, prog |-> prog]
           t == <<a, b, c>>
<1>1. /\ a.op = "map" /\ a.root = root /\ b.op = "map" /\ b.root = root
      /\ c.op = "configure" /\ c.root = root
  BY DEF MapJob
<1>2. JobShape(a) /\ JobShape(b) /\ JobShape(c)
  <2>1. IsUser(IpcAddr(prog), 1) /\ IsUser(StackAddr(prog), n) /\ n \in Nat \ {0}
    BY VspaceAssumption
  <2>2. IsSeq(stack) /\ stack # <<>>
    <3>1. stack # <<>>
      BY <2>1
    <3> QED BY <3>1, SeqIs
  <2>3. IsSeq(<<ipc>>) /\ <<ipc>> # <<>> /\ Len(<<ipc>>) = 1
    <3> DEFINE f == <<ipc>>
    <3>1. f \in Seq({ipc}) /\ f # <<>> /\ Len(f) = 1
      OBVIOUS
    <3> HIDE DEF f
    <3>2. IsSeq(f)
      BY <3>1, SeqIs
    <3> QED BY <3>1, <3>2 DEF f
  <2>4. a.frames = <<ipc>> /\ a.addr = IpcAddr(prog) /\ b.frames = stack /\ b.addr = StackAddr(prog)
    BY DEF MapJob
  <2>5. JobShape(a)
    <3>1. a = MapJob(a.op, a.root, a.frames, a.addr)
      BY <1>1, <2>4
    <3> HIDE DEF a
    <3>2. IsSeq(a.frames) /\ a.frames # <<>> /\ IsUser(a.addr, Len(a.frames))
      BY <2>1, <2>3, <2>4
    <3> QED BY <3>1, <3>2 DEF JobShape
  <2>6. JobShape(b)
    <3>1. b = MapJob(b.op, b.root, b.frames, b.addr)
      BY <1>1, <2>4
    <3> HIDE DEF b
    <3>2. IsSeq(b.frames) /\ b.frames # <<>> /\ IsUser(b.addr, Len(b.frames))
      BY <2>1, <2>2, <2>4
    <3> QED BY <3>1, <3>2 DEF JobShape
  <2>7. JobShape(c)
    BY <1>1 DEF JobShape
  <2> QED BY <2>5, <2>6, <2>7
<1> HIDE DEF a, b, c
<1>3. t \in Seq({a, b, c}) /\ Len(t) = 3 /\ t[1] = a /\ t[2] = b /\ t[3] = c
  OBVIOUS
<1>4. q = s \o t
  BY DEF LastJobs, a, b, c
<1> HIDE DEF t
<1>5. IsSeq(t)
  BY <1>3, SeqIs
<1>6. Joins(q, s, t)
  BY <1>4, <1>5, Joined
<1> DEFINE L == Len(s)
<1>7. /\ IsSeq(q) /\ L \in Nat /\ Len(q) = L + 3 /\ DOMAIN q = 1..(L + 3) /\ DOMAIN s = 1..L
      /\ \A j \in 1..L : q[j] = s[j]
  BY <1>3, <1>6 DEF Joins
<1>8. q[L + 1] = a /\ q[L + 2] = b /\ q[L + 3] = c
  <2>1. \A k \in 1..3 : q[L + k] = t[k]
    BY <1>3, <1>6 DEF Joins
  <2>2. 1 \in 1..3 /\ 2 \in 1..3 /\ 3 \in 1..3
    OBVIOUS
  <2>3. q[L + 1] = t[1] /\ q[L + 2] = t[2] /\ q[L + 3] = t[3]
    BY <2>1, <2>2, Zenon
  <2> QED BY <1>3, <2>3, Zenon
<1> HIDE DEF L
<1>a. L \in Nat /\ Len(q) = L + 3
  BY <1>7
<1>9. ASSUME NEW j \in DOMAIN q
      PROVE  /\ JobShape(q[j])
             /\ q[j].op \in {"create", "scratch"} => j + 1 \in DOMAIN q /\ IsCopy(q[j + 1])
             /\ q[j].op \in {"configure", "stopped"} <=> j = Len(q)
             /\ NeedsRoot(q[j]) => q[j].root \in {InitVspace, root}
  <2>1. CASE j \in 1..L
    <3>1. q[j] = s[j] /\ j \in DOMAIN s /\ j # Len(q)
      BY <1>7, <2>1
    <3>2. /\ JobShape(s[j]) /\ s[j].op \in {"create", "copy", "map"}
          /\ s[j].op \in {"create", "scratch"} => j + 1 \in DOMAIN s /\ IsCopy(s[j + 1])
          /\ NeedsRoot(s[j]) => s[j].root \in {InitVspace, root}
      BY <3>1 DEF SegmentJobsOf
    <3>3. j + 1 \in DOMAIN s => j + 1 \in DOMAIN q /\ q[j + 1] = s[j + 1]
      BY <1>7
    <3> QED BY <3>1, <3>2, <3>3
  <2>2. CASE j = L + 1
    <3>0. j # Len(q)
      BY <1>a, <2>2
    <3>1. q[j] = a /\ j # Len(q)
      BY <1>8, <2>2, <3>0
    <3> QED BY <1>1, <1>2, <3>1
  <2>3. CASE j = L + 2
    <3>0. j # Len(q)
      BY <1>a, <2>3
    <3>1. q[j] = b /\ j # Len(q)
      BY <1>8, <2>3, <3>0
    <3> QED BY <1>1, <1>2, <3>1
  <2>4. CASE j = L + 3
    <3>1. q[j] = c /\ j = Len(q)
      BY <1>7, <1>8, <2>4
    <3> QED BY <1>1, <1>2, <3>1
  <2>5. j \in 1..(L + 3)
    BY <1>7
  <2>6. j \in 1..L \/ j = L + 1 \/ j = L + 2 \/ j = L + 3
    BY <1>a, <2>5, ThreeMore
  <2> QED BY <2>1, <2>2, <2>3, <2>4, <2>6
<1>10. Formed(q)
  BY <1>7, <1>9 DEF Formed
<1>11. q # <<>>
  BY <1>7
<1> QED BY <1>9, <1>10, <1>11 DEF SpawnJobsOf

(* A new vspace is a table of its own, at the top. *)
LEMMA SpawnThreadStep ==
  ASSUME VspaceInvariant, NEW prog \in Programs, NEW n \in StackPages, SpawnThread(prog, n)
  PROVE  VspaceInvariant' /\ StepStable
<1> DEFINE stack == [j \in 1..n |-> next + 1 + j]
           first == next + 2 + n
           pages == PagesBefore(prog, Len(prog))
           s == SegmentJobs(prog, next, first)
           tail == LastJobs(prog, next, next + 1, stack)
<1>1. PICK at : Placed(at)
  BY DEF VspaceInvariant
<1>2. /\ booting = <<>> /\ todo = <<>> /\ Len(tcbs) < MaxSpawns
      /\ mem' = WithTable(mem, next) /\ next' = first + pages
      /\ mappable_addr' = mappable_addr + pages * PageBytes
      /\ todo' = s \o tail
      /\ booting' = booting /\ level' = level /\ tcbs' = tcbs
  BY DEF SpawnThread, LastJobs
<1>3. Jobs /\ Len(tcbs) \in Nat /\ MaxSpawns \in Nat
  BY VspaceAssumption DEF VspaceInvariant, Jobs
<1>4. Tree(mem, next, at, HugeAddrs) /\ next \in Nat /\ n \in Nat \ {0}
  BY <1>1, <1>2, VspaceAssumption DEF Placed, Huge, Tree
<1>5. /\ prog \in Seq(Segments) /\ \A i \in DOMAIN prog : IsUser(prog[i].vaddr, PagesOf(prog[i]))
  BY VspaceAssumption DEF Segments
<1>6. pages \in Nat
  <2>1. Len(prog) \in 0..Len(prog)
    BY <1>5
  <2> QED BY <1>5, <2>1, PagesCounted
<1> DEFINE d == MaxSpawns - Len(tcbs)
<1>7. d \in Nat \ {0}
  BY <1>2, <1>3
<1>8. PICK most \in Nat : /\ \A p \in Programs : PagesBefore(p, Len(p)) <= most
                          /\ IsUser(mappable_addr, d * most)
  <2>1. Programs # {}
    OBVIOUS
  <2>2. PICK most \in Nat : Room(most)
    BY <1>3, <2>1 DEF Jobs
  <2>3. MaxSpawns - Spawns = d
    BY <1>2, <1>3 DEF Spawns
  <2> QED BY <2>2, <2>3 DEF Room
<1>9. /\ pages <= most /\ IsUser(mappable_addr, most)
      /\ IsUser(mappable_addr + pages * PageBytes, (d - 1) * most)
  <2>1. pages <= most
    BY <1>8
  <2> HIDE DEF pages, d
  <2> QED BY <1>6, <1>7, <1>8, <2>1, RoomTaken
<1>10. IsSeq(s) /\ SegmentJobsOf(s, next)
  <2>1. first \in Nat
    BY <1>4
  <2> HIDE DEF first
  <2> QED BY <1>5, <1>9, <2>1, SegmentJobsFormed DEF SegmentJobsOf
<1>11. stack \in Seq(Int) /\ Len(stack) = n
  BY <1>4
<1> HIDE DEF s
<1>12. /\ Formed(todo') /\ todo' # <<>>
       /\ \A j \in DOMAIN todo' : NeedsRoot(todo'[j]) => todo'[j].root \in {InitVspace, next}
  <2> DEFINE q == s \o tail
  <2>a. q = s \o tail
    OBVIOUS
  <2> HIDE DEF q, stack
  <2>1. SpawnJobsOf(q, next)
    BY <1>10, <1>11, <2>a, SpawnJobs
  <2>2. todo' = q
    BY <1>2 DEF q
  <2> QED BY <2>1, <2>2 DEF SpawnJobsOf
<1> HIDE DEF tail, stack
<1> DEFINE at2 == Extend(at, mem, next, Top)
<1>13. /\ Tree(mem', next + 1, at2, HugeAddrs) /\ SamePlaces(mem, at, at2) /\ at2[next] = Top
       /\ Keeps(mem, mem', at) /\ next \notin DOMAIN mem
  <2>1. Top \in Places
    BY Spans DEF Top, Places, Slots
  <2> QED BY <1>2, <1>4, <2>1, TreeGrows
<1>14. Tree(mem', next', at2, HugeAddrs)
  <2>1. next' \in Nat /\ next + 1 <= next'
    BY <1>2, <1>4, <1>6
  <2> HIDE DEF at2
  <2> QED BY <1>13, <2>1, TreeWaits
<1>15. \A r \in {InitVspace, next} : r \in DOMAIN mem' /\ at2[r] = Top
  <2>1. InitVspace \in DOMAIN mem' /\ at2[InitVspace] = Top
    BY <1>14 DEF Tree
  <2>2. next \in DOMAIN mem'
    BY <1>2 DEF WithTable
  <2> QED BY <1>13, <2>1, <2>2
<1> HIDE DEF at2
<1>16. (\E x : Placed(x))' /\ StepStable
  BY <1>1, <1>2, <1>12, <1>13, <1>14, <1>15, TreesGrow
<1>17. Jobs'
  <2>1. Spawns' = Len(tcbs) + 1
    BY <1>2, <1>12 DEF Spawns
  <2>2. Spawns' <= MaxSpawns /\ MaxSpawns - Spawns' = d - 1
    BY <1>2, <1>3, <2>1
  <2>3. Room(most)'
    BY <1>2, <1>8, <1>9, <2>2 DEF Room
  <2>4. /\ IsSeq(booting') /\ \A i \in DOMAIN booting' : booting'[i] \in User
        /\ \A i, j \in DOMAIN booting' :
             i # j => booting'[i] \div PageBytes # booting'[j] \div PageBytes
        /\ level' \in 0..3 /\ IsSeq(tcbs') /\ Len(tcbs') \in Nat /\ booting' = <<>>
    BY <1>2, <1>3 DEF Jobs
  <2> QED BY <1>12, <2>2, <2>3, <2>4 DEF Jobs
<1> QED BY <1>16, <1>17 DEF VspaceInvariant

(* Nor does one that has too little memory. *)
LEMMA SpawnDoomedStep ==
  ASSUME VspaceInvariant, SpawnDoomed
  PROVE  VspaceInvariant' /\ StepStable
<1>1. /\ booting = <<>> /\ todo = <<>> /\ Len(tcbs) < MaxSpawns /\ todo' = Stopped
      /\ UNCHANGED <<mem, next, booting, mappable_addr, level, tcbs>>
  BY DEF SpawnDoomed
<1>2. PICK at : Placed(at)
  BY DEF VspaceInvariant
<1>3. Jobs /\ Len(tcbs) \in Nat /\ MaxSpawns \in Nat
  BY VspaceAssumption DEF VspaceInvariant, Jobs
<1>4. Tree(mem', next', at, HugeAddrs) /\ SamePlaces(mem, at, at) /\ Keeps(mem, mem', at)
  BY <1>1, <1>2 DEF Placed, Huge, SamePlaces, Keeps
<1>5. Formed(todo') /\ todo' # <<>> /\ RootsFrom(todo', todo)
  BY <1>1, StoppedFormed
<1>6. (\E x : Placed(x))' /\ StepStable
  BY <1>1, <1>2, <1>4, <1>5, TreesGrow DEF RootsFrom
<1>7. Spawns = Len(tcbs) /\ Spawns' = Len(tcbs) + 1 /\ Spawns' <= MaxSpawns
  BY <1>1, <1>3, <1>5 DEF Spawns
<1>8. ASSUME Programs # {} PROVE (\E most \in Nat : Room(most))'
  <2>1. PICK most \in Nat : Room(most)
    BY <1>3, <1>8 DEF Jobs
  <2>2. IsUser(mappable_addr, (MaxSpawns - Spawns') * most)
    <3> DEFINE d == MaxSpawns - Len(tcbs)
    <3>1. d \in Nat \ {0} /\ MaxSpawns - Spawns = d /\ MaxSpawns - Spawns' = d - 1
      BY <1>1, <1>3, <1>7
    <3>2. IsUser(mappable_addr, d * most)
      BY <2>1, <3>1 DEF Room
    <3> HIDE DEF d
    <3>3. IsUser(mappable_addr + 0 * PageBytes, (d - 1) * most)
      <4>1. 0 \in Nat /\ 0 <= most
        BY <2>1
      <4> QED BY <2>1, <3>1, <3>2, <4>1, RoomTaken, Zenon
    <3>4. mappable_addr + 0 * PageBytes = mappable_addr
      BY <3>2, Spans DEF IsUser
    <3> QED BY <3>1, <3>3, <3>4
  <2>3. Room(most)'
    BY <1>1, <2>1, <2>2 DEF Room
  <2> QED BY <2>3
<1>9. Jobs'
  BY <1>1, <1>3, <1>5, <1>7, <1>8 DEF Jobs
<1> QED BY <1>6, <1>9 DEF VspaceInvariant

-----------------------------------------------------------------------------
LEMMA BootPagesAreUser ==
  /\ BootPages \in Seq(Nat) /\ \A i \in DOMAIN BootPages : BootPages[i] \in User
  /\ \A i, j \in DOMAIN BootPages :
       i # j => BootPages[i] \div PageBytes # BootPages[j] \div PageBytes
<1>1. BootPages \in Seq(Nat)
  BY VspaceAssumption
<1>2. ASSUME NEW i \in DOMAIN BootPages, NEW j \in DOMAIN BootPages
      PROVE  /\ BootPages[i] \in PageBytes..(UserEnd - 1)
             /\ i # j => BootPages[i] \div PageBytes # BootPages[j] \div PageBytes
  BY VspaceAssumption, Zenon
<1>3. ASSUME NEW i \in DOMAIN BootPages PROVE BootPages[i] \in User
  <2>0. BootPages[i] \in Nat
    BY <1>1
  <2>1. BootPages[i] \in Nat /\ UserEnd \in Nat
    BY <2>0, Spans
  <2>2. BootPages[i] < UserEnd
    <3>1. BootPages[i] \in PageBytes..(UserEnd - 1)
      BY <1>2
    <3> HIDE DEF UserEnd
    <3> QED BY <2>1, <3>1, Spans
  <2> QED BY <2>1, <2>2 DEF User
<1> QED BY <1>1, <1>2, <1>3

(* The boot loader's PML4: the kernel's half and nothing else. *)
LEMMA InitialTables ==
  ASSUME Init
  PROVE  VspaceInvariant
<1> DEFINE at == [t \in {InitVspace} |-> Top]
           e == [i \in 0..(Radix - 1) |-> IF i \in KernelHalf THEN KernelFrame(i) ELSE 0]
<1>1. /\ mem = [t \in {InitVspace} |-> e] /\ next = KernelFrame(Radix)
      /\ booting = BootPages /\ mappable_addr = ScratchStart
      /\ todo = <<>> /\ level = 0 /\ tcbs = <<>>
  BY DEF Init
<1>2. Radix \in Nat \ {0, 1} /\ KernelHalf \subseteq Slots /\ Radix \div 2 \in Nat \ {0}
  BY Spans DEF KernelHalf, Slots
<1>3. next = Radix + 2 /\ next \in Nat /\ DOMAIN mem = {1} /\ InitVspace = 1 /\ mem[1] = e
  BY <1>1, <1>2 DEF KernelFrame, InitVspace
<1>4. \A i \in Slots : e[i] = IF i \in KernelHalf THEN i + 2 ELSE 0
  BY DEF Slots, KernelFrame
<1>5. e = [i \in Slots |-> e[i]]
  BY DEF Slots
<1> HIDE DEF e
<1>6. Tree(mem, next, at, {})
  <2>1. DOMAIN mem \subseteq 1..(next - 1)
    BY <1>2, <1>3
  <2>2. IsTables(mem)
    <3>1. mem = [t \in DOMAIN mem |-> mem[t]]
      BY <1>1
    <3>2. \A t \in DOMAIN mem : mem[t] = [i \in Slots |-> mem[t][i]]
      BY <1>3, <1>5
    <3> QED BY <3>1, <3>2 DEF IsTables
  <2>3. at \in [DOMAIN mem -> Places]
    <3>1. Top \in Places
      BY <1>2 DEF Top, Places, Slots
    <3> QED BY <1>3, <3>1
  <2>4. \A i \in KernelHalf : Opaque(mem, next, mem[InitVspace][i])
    <3> SUFFICES ASSUME NEW i \in KernelHalf PROVE Opaque(mem, next, mem[InitVspace][i])
      OBVIOUS
    <3>1. i \in Slots /\ mem[InitVspace][i] = i + 2
      BY <1>2, <1>3, <1>4
    <3>2. i + 2 \in 1..(next - 1) /\ i + 2 # 1
      BY <1>2, <1>3, <3>1 DEF Slots
    <3> QED BY <1>3, <3>1, <3>2 DEF Opaque
  <2>5. ASSUME NEW t \in DOMAIN mem, NEW i \in Slots PROVE Child(mem, next, at, {}, t, i)
    <3>1. t = InitVspace /\ at[t].l = 3
      BY <1>3 DEF Top
    <3>2. CASE i \in KernelHalf
      BY <2>4, <3>1, <3>2 DEF Child
    <3>3. CASE i \notin KernelHalf
      BY <1>3, <1>4, <3>1, <3>3 DEF Child
    <3> QED BY <3>2, <3>3
  <2>6. InitVspace \in DOMAIN mem /\ at[InitVspace] = Top
    BY <1>3
  <2> HIDE DEF at
  <2> QED BY <1>3, <2>1, <2>2, <2>3, <2>4, <2>5, <2>6 DEF Tree
<1>7. Placed(at)
  <2>1. Tree(mem, next, at, Huge)
    <3> HIDE DEF at
    <3> QED BY <1>3, <1>6, TreeWaits
  <2>2. \A t \in DOMAIN mem : at[t].l = 3
    BY <1>3 DEF Top
  <2>3. \A k \in DOMAIN booting : booting[k] \in User
    BY <1>1, BootPagesAreUser
  <2>4. \A k \in DOMAIN booting : \A t : ~OnWay(mem, at, t, 0, booting[k])
    <3> SUFFICES ASSUME NEW k \in DOMAIN booting, NEW t, OnWay(mem, at, t, 0, booting[k])
                 PROVE  FALSE
      OBVIOUS
    <3> HIDE DEF at
    <3>1. PlaceOf(booting[k], 0).l = 0
      BY <2>3, PlaceFields
    <3> QED BY <2>2, <3>1 DEF OnWay
  <2>5. DOMAIN tcbs = {} /\ DOMAIN todo = {}
    BY <1>1
  <2> HIDE DEF at
  <2> QED BY <2>1, <2>4, <2>5 DEF Placed
<1>8. Jobs
  <2>1. IsSeq(booting) /\ IsSeq(tcbs) /\ IsSeq(todo)
    <3>1. booting \in Seq(Nat) /\ tcbs \in Seq(Nat) /\ todo \in Seq(Nat)
      BY <1>1, VspaceAssumption
    <3> QED BY <3>1, SeqIs
  <2>2. /\ \A i \in DOMAIN booting : booting[i] \in User
        /\ \A i, j \in DOMAIN booting :
             i # j => booting[i] \div PageBytes # booting[j] \div PageBytes
    BY <1>1, BootPagesAreUser
  <2>3. Len(tcbs) = 0 /\ Spawns = 0 /\ MaxSpawns \in Nat
    BY <1>1, VspaceAssumption DEF Spawns
  <2>4. Formed(todo)
    <3>1. DOMAIN todo = {}
      BY <1>1
    <3> QED BY <2>1, <3>1 DEF Formed
  <2>5. ASSUME Programs # {} PROVE \E most \in Nat : Room(most)
    <3>1. PICK most \in {PagesBefore(prog, Len(prog)) : prog \in Programs} :
            /\ \A prog \in Programs : PagesBefore(prog, Len(prog)) <= most
            /\ IsUser(ScratchStart, MaxSpawns * most)
      BY <2>5, VspaceAssumption
    <3>2. most \in Nat
      <4>1. PICK prog \in Programs : most = PagesBefore(prog, Len(prog))
        BY <3>1
      <4>2. prog \in Seq(Segments)
        BY VspaceAssumption DEF Segments
      <4>3. Len(prog) \in 0..Len(prog)
        BY <4>2
      <4> QED BY <4>1, <4>2, <4>3, PagesCounted
    <3>3. MaxSpawns - Spawns = MaxSpawns
      BY <2>3
    <3> QED BY <1>1, <3>1, <3>2, <3>3 DEF Room
  <2> QED BY <1>1, <2>1, <2>2, <2>3, <2>4, <2>5 DEF Jobs
<1> HIDE DEF at
<1> QED BY <1>7, <1>8 DEF VspaceInvariant

LEMMA NextStep ==
  ASSUME VspaceInvariant, Next
  PROVE  VspaceInvariant' /\ StepStable
<1>1. CASE BootMap
  BY <1>1, BootMapStep
<1>2. CASE \E prog \in Programs, n \in StackPages : SpawnThread(prog, n)
  BY <1>2, SpawnThreadStep
<1>3. CASE Spawning
  BY <1>3, CreateBufferStep, TryPageStep, MakeTableStep, NoTableStep, CopySegmentStep,
     ConfigureStep DEF Spawning
<1>7. CASE SpawnDoomed
  BY <1>7, SpawnDoomedStep
<1>4. CASE \E lvl \in 1..3, root \in Roots, addr \in TableAddrs : MapTable(lvl, root, addr)
  BY <1>4, MapTableStep
<1>5. CASE \E root \in Roots, addr \in PageAddrs : MapPage(root, addr)
  BY <1>5, MapPageStep
<1>6. CASE \E addr \in HugeAddrs : MapHugePage(addr)
  BY <1>6, MapHugePageStep
<1> QED BY <1>1, <1>2, <1>3, <1>4, <1>5, <1>6, <1>7 DEF Next

(* Nothing happens to the tables. *)
LEMMA StutterStep ==
  ASSUME VspaceInvariant, UNCHANGED vars
  PROVE  VspaceInvariant'
<1>1. PICK at : Placed(at)
  BY DEF VspaceInvariant
<1>2. Placed(at)'
  BY <1>1 DEF vars, Placed, Huge, IsRoot, NeedsRoot
<1>3. Spawns' = Spawns
  BY DEF vars, Spawns
<1>4. Programs # {} => (\E most \in Nat : Room(most))'
  <2> SUFFICES ASSUME Programs # {} PROVE (\E most \in Nat : Room(most))'
    OBVIOUS
  <2>1. PICK most \in Nat : Room(most)
    BY DEF VspaceInvariant, Jobs
  <2>2. Room(most)'
    BY <1>3, <2>1 DEF Room, vars
  <2> QED BY <2>2
<1>5. Jobs'
  <2>1. Jobs
    BY DEF VspaceInvariant
  <2> QED BY <1>3, <1>4, <2>1 DEF vars, Jobs
<1> QED BY <1>2, <1>5 DEF VspaceInvariant

(* In every vspace the page tables are a tree whose entries lead to the    *)
(* table of their place, and spawn_thread (lib/exec.c) only asks for user  *)
(* addresses in vspaces that exist.                                        *)
THEOREM TablesAreTrees == Spec => []VspaceInvariant
<1>1. Init => VspaceInvariant
  BY InitialTables
<1>2. VspaceInvariant /\ [Next]_vars => VspaceInvariant'
  BY NextStep, StutterStep
<1> QED BY <1>1, <1>2, PTL DEF Spec

(* What is mapped stays mapped to the same frame: by the checks of the map *)
(* methods (obj/page.c) each of them writes one entry that was zero, and   *)
(* at boot every page is mapped once.                                      *)
THEOREM MappingsAreStable == Spec => MappingsStable
<1> DEFINE Stable == \A root \in Roots, addr \in UserAddrs :
                       At(root, addr) # 0 => At(root, addr)' = At(root, addr)
<1>1. VspaceInvariant /\ [Next]_vars => [Stable]_vars
  BY NextStep DEF StepStable
<1>2. [][Stable]_vars => MappingsStable
  BY DEF MappingsStable
<1> HIDE DEF Stable
<1> QED BY <1>1, <1>2, TablesAreTrees, PTL DEF Spec
=============================================================================
