------------------------- MODULE IntrusiveListProofs -------------------------
(***************************************************************************)
(* The pointers of list.h implement sequences, for every set of heads and  *)
(* nodes.  The inductive invariant is the conjunction of the three         *)
(* invariants of IntrusiveList: neither Represents nor OnOneList is        *)
(* preserved without the other.                                            *)
(***************************************************************************)
EXTENDS IntrusiveList, SequenceTheorems, TLAPS

IInv == TypeOK /\ Represents /\ OnOneList

(* The ring of a head starts and ends at the head. *)
LEMMA RingEnds ==
  ASSUME TypeOK, NEW h \in Heads
  PROVE  /\ Len(lists[h]) \in Nat
         /\ Ring(h, 0) = h
         /\ Ring(h, Len(lists[h]) + 1) = h
         /\ \A i \in 1..Len(lists[h]) : Ring(h, i) = lists[h][i] /\ lists[h][i] \in Nodes
         /\ \A i \in Nat : Ring(h, i) \in Ptrs
BY DEF TypeOK, Ring, Ptrs

(* Two rings share no pointer, and a ring visits each pointer once. *)
LEMMA RingInjective ==
  ASSUME IInv,
         NEW g \in Heads, NEW h \in Heads,
         NEW i \in 0..Len(lists[g]), NEW j \in 0..Len(lists[h]),
         Ring(g, i) = Ring(h, j)
  PROVE  g = h /\ i = j
<1>1. CASE i = 0 /\ j = 0
  BY <1>1, RingEnds DEF IInv
<1>2. CASE i = 0 /\ j # 0
  BY <1>2, RingEnds, ListAssumption DEF IInv
<1>3. CASE i # 0 /\ j = 0
  BY <1>3, RingEnds, ListAssumption DEF IInv
<1>4. CASE i # 0 /\ j # 0
  <2>1. i \in 1..Len(lists[g]) /\ j \in 1..Len(lists[h])
    BY <1>4, RingEnds DEF IInv
  <2>2. lists[g][i] = lists[h][j] /\ lists[g][i] \in Nodes
    BY <2>1, RingEnds DEF IInv
  <2>3. OnList(lists[g], lists[g][i]) /\ OnList(lists[h], lists[g][i])
    BY <2>1, <2>2 DEF OnList
  <2>4. g = h
    BY <2>2, <2>3 DEF IInv, OnOneList
  <2> QED BY <2>1, <2>2, <2>4 DEF IInv, OnOneList, NoDuplicates
<1> QED BY <1>1, <1>2, <1>3, <1>4

(* A node has neighbours exactly while it is on a list. *)
LEMMA LinkedOnList ==
  ASSUME IInv, NEW n \in Nodes, ~Linked(n)
  PROVE  \A h \in Heads : ~OnList(lists[h], n)
<1> SUFFICES ASSUME NEW h \in Heads, NEW i \in 1..Len(lists[h]), lists[h][i] = n
             PROVE  FALSE
  BY DEF OnList
<1>1. Ring(h, i) = n /\ i \in 0..Len(lists[h]) /\ i + 1 \in Nat
  BY RingEnds DEF IInv
<1>2. next[n] = Ring(h, i + 1)
  BY <1>1 DEF IInv, Represents
<1>3. Ring(h, i + 1) \in Ptrs
  BY <1>1, RingEnds DEF IInv
<1>4. next[n] = n
  BY <1>2, <1>3, ListAssumption DEF Linked, Ptrs
<1>5. CASE i = Len(lists[h])
  BY <1>2, <1>4, <1>5, RingEnds, ListAssumption DEF IInv
<1>6. CASE i # Len(lists[h])
  <2>1. i + 1 \in 0..Len(lists[h])
    BY <1>6, RingEnds DEF IInv
  <2>2. i + 1 = i
    BY <1>1, <1>2, <1>4, <2>1, RingInjective
  <2> QED BY <2>2
<1> QED BY <1>5, <1>6

-----------------------------------------------------------------------------
(* Linking a node behind a head. *)
LEMMA AppendPreserves ==
  ASSUME IInv, NEW n \in Nodes, NEW h \in Heads, Append_to_list(n, h)
  PROVE  IInv'
<1> DEFINE L == lists[h]
<1>1. \A g \in Heads : ~OnList(lists[g], n)
  BY LinkedOnList DEF Append_to_list
<1>2. L \in Seq(Nodes) /\ Len(L) \in Nat
  BY DEF IInv, TypeOK
<1>3. /\ append_to_list(L, n) \in Seq(Nodes)
      /\ Len(append_to_list(L, n)) = Len(L) + 1
      /\ append_to_list(L, n)[1] = n
      /\ \A i \in 1..Len(L) : append_to_list(L, n)[i + 1] = L[i]
  BY <1>2 DEF append_to_list
<1>4. /\ lists' \in [Heads -> Seq(Nodes)]
      /\ lists'[h] = append_to_list(L, n)
      /\ \A g \in Heads : g # h => lists'[g] = lists[g]
  BY <1>3 DEF IInv, TypeOK, Append_to_list
<1>5. /\ Ring(h, 1)' = n
      /\ Ring(h, 0)' = h
      /\ \A i \in 1..(Len(L) + 1) : Ring(h, i + 1)' = Ring(h, i)
  BY <1>2, <1>3, <1>4 DEF Ring
<1>6. \A g \in Heads : g # h => \A i \in Nat : Ring(g, i)' = Ring(g, i)
  BY <1>4 DEF Ring
<1>7. next[h] = Ring(h, 1) /\ Ring(h, 1) \in Ptrs /\ n \in Ptrs /\ h \in Ptrs /\ n # h
  <2>1. 0 \in 0..Len(L) /\ Ring(h, 0) = h
    BY <1>2, RingEnds DEF IInv
  <2> QED BY <2>1, RingEnds, ListAssumption DEF IInv, Represents, Ptrs
<1>8. /\ next' = [next EXCEPT ![n] = Ring(h, 1), ![h] = n]
      /\ prev' = [prev EXCEPT ![n] = h, ![Ring(h, 1)] = n]
  BY <1>7 DEF Append_to_list, insert_list_internal
<1>9. TypeOK'
  BY <1>4, <1>7, <1>8, ListAssumption DEF IInv, TypeOK, Ptrs
<1>10. \A g \in Heads : \A i \in Nat : Ring(g, i) # n
  BY <1>1, RingEnds, ListAssumption DEF IInv, Ring, OnList
<1>11. ASSUME NEW g \in Heads, NEW i \in 0..Len(lists'[g])
       PROVE  next'[Ring(g, i)'] = Ring(g, i + 1)' /\ prev'[Ring(g, i + 1)'] = Ring(g, i)'
  <2>1. CASE g # h
    <3>1. i \in 0..Len(lists[g]) /\ i \in Nat /\ i + 1 \in Nat
      BY <1>4, <2>1
    <3>2. next[Ring(g, i)] = Ring(g, i + 1) /\ prev[Ring(g, i + 1)] = Ring(g, i)
      BY <3>1 DEF IInv, Represents
    <3>3. Ring(g, i) # h
      <4>1. 0 \in 0..Len(L) /\ Ring(h, 0) = h
        BY <1>2, RingEnds DEF IInv
      <4> QED BY <2>1, <3>1, <4>1, RingInjective
    <3>4. Ring(g, i + 1) # Ring(h, 1)
      BY <2>1, <3>1, <3>2, <1>7, RingInjective, RingEnds DEF IInv, Represents
    <3>5. Ring(g, i) # n /\ Ring(g, i + 1) # n
      BY <1>10, <3>1
    <3>6. Ring(g, i) \in Ptrs /\ Ring(g, i + 1) \in Ptrs
      BY <3>1, RingEnds DEF IInv
    <3>7. Ring(g, i)' = Ring(g, i) /\ Ring(g, i + 1)' = Ring(g, i + 1)
      BY <1>6, <2>1, <3>1
    <3> QED BY <1>8, <3>2, <3>3, <3>4, <3>5, <3>6, <3>7 DEF IInv, TypeOK
  <2>2. CASE g = h /\ i = 0
    BY <1>5, <1>7, <1>8, <2>2 DEF IInv, TypeOK
  <2>3. CASE g = h /\ i = 1
    <3>1. 1 \in 1..(Len(L) + 1)
      BY <1>2
    <3>2. Ring(h, 1 + 1)' = Ring(h, 1)
      BY <1>5, <3>1
    <3>3. Ring(h, 1) # n
      BY <1>10
    <3> QED BY <1>5, <1>7, <1>8, <2>3, <3>2, <3>3 DEF IInv, TypeOK
  <2>4. CASE g = h /\ i \notin {0, 1}
    <3>1. /\ i - 1 \in 1..Len(L) /\ i - 1 \in 0..Len(L)
          /\ i \in 1..(Len(L) + 1) /\ i - 1 \in 1..(Len(L) + 1)
          /\ i \in Nat /\ i - 1 \in Nat /\ (i - 1) + 1 = i
      BY <1>2, <1>3, <1>4, <2>4
    <3>2. Ring(h, i)' = Ring(h, i - 1) /\ Ring(h, i + 1)' = Ring(h, i)
      BY <1>5, <3>1
    <3>3. next[Ring(h, i - 1)] = Ring(h, i) /\ prev[Ring(h, i)] = Ring(h, i - 1)
      BY <3>1 DEF IInv, Represents
    <3>4. Ring(h, i - 1) # h
      <4>1. 0 \in 0..Len(L) /\ Ring(h, 0) = h
        BY <1>2, RingEnds DEF IInv
      <4> QED BY <3>1, <4>1, RingInjective
    <3>5. Ring(h, i) # Ring(h, 1)
      <4>1. prev[Ring(h, 1)] = h
        <5>1. 0 \in 0..Len(L) /\ Ring(h, 0) = h
          BY <1>2, RingEnds DEF IInv
        <5> QED BY <5>1 DEF IInv, Represents
      <4> QED BY <4>1, <3>3, <3>4
    <3>6. Ring(h, i) # n /\ Ring(h, i - 1) # n
      BY <1>10, <3>1
    <3>7. Ring(h, i) \in Ptrs /\ Ring(h, i - 1) \in Ptrs
      BY <3>1, RingEnds DEF IInv
    <3> QED BY <1>8, <2>4, <3>2, <3>3, <3>4, <3>5, <3>6, <3>7 DEF IInv, TypeOK
  <2> QED BY <2>1, <2>2, <2>3, <2>4
<1>12. ASSUME NEW m \in Nodes, \A g \in Heads : ~OnList(lists'[g], m)
       PROVE  next'[m] \in {Null, m} /\ prev'[m] = next'[m]
  <2>1. m # n
    <3>1. 1 \in 1..Len(lists'[h]) /\ lists'[h][1] = n
      BY <1>2, <1>3, <1>4
    <3> QED BY <1>12, <3>1 DEF OnList
  <2>2. \A g \in Heads : ~OnList(lists[g], m)
    <3> SUFFICES ASSUME NEW g \in Heads, NEW j \in 1..Len(lists[g]), lists[g][j] = m
                 PROVE  OnList(lists'[g], m)
      BY <1>12 DEF OnList
    <3>1. CASE g # h
      BY <1>4, <3>1 DEF OnList
    <3>2. CASE g = h
      <4>1. j + 1 \in 1..Len(lists'[g]) /\ lists'[g][j + 1] = m
        BY <1>2, <1>3, <1>4, <3>2
      <4> QED BY <4>1 DEF OnList
    <3> QED BY <3>1, <3>2
  <2>3. m # h /\ m # Ring(h, 1) /\ m \in Ptrs
    BY <2>2, ListAssumption DEF Ring, OnList, Ptrs
  <2>4. next[m] \in {Null, m} /\ prev[m] = next[m]
    BY <2>2 DEF IInv, Represents
  <2> QED BY <1>8, <2>1, <2>3, <2>4 DEF IInv, TypeOK
<1>13. OnOneList'
  <2>1. ASSUME NEW g \in Heads PROVE NoDuplicates(lists'[g])
    <3>1. CASE g # h
      BY <1>4, <3>1 DEF IInv, OnOneList
    <3>2. CASE g = h
      <4> SUFFICES ASSUME NEW i \in 1..(Len(L) + 1), NEW j \in 1..(Len(L) + 1),
                          append_to_list(L, n)[i] = append_to_list(L, n)[j]
                   PROVE  i = j
        BY <1>3, <1>4, <3>2 DEF NoDuplicates
      <4>1. \A a \in 1..(Len(L) + 1) : a # 1 =>
              /\ a - 1 \in 1..Len(L)
              /\ append_to_list(L, n)[a] = L[a - 1]
              /\ L[a - 1] # n
        <5> SUFFICES ASSUME NEW a \in 1..(Len(L) + 1), a # 1
                     PROVE  /\ a - 1 \in 1..Len(L)
                            /\ append_to_list(L, n)[a] = L[a - 1]
                            /\ L[a - 1] # n
          OBVIOUS
        <5>1. a - 1 \in 1..Len(L) /\ (a - 1) + 1 = a
          BY <1>2
        <5> QED BY <5>1, <1>1, <1>3 DEF OnList
      <4>2. \A a, b \in 1..Len(L) : L[a] = L[b] => a = b
        BY DEF IInv, OnOneList, NoDuplicates
      <4>3. CASE i = 1 /\ j # 1
        BY <1>3, <4>1, <4>3
      <4>4. CASE i # 1 /\ j = 1
        BY <1>3, <4>1, <4>4
      <4>5. CASE i # 1 /\ j # 1
        <5>1. /\ i - 1 \in 1..Len(L) /\ j - 1 \in 1..Len(L)
              /\ L[i - 1] = L[j - 1]
          BY <4>1, <4>5
        <5>2. i - 1 = j - 1
          BY <4>2, <5>1
        <5> QED BY <5>2, <1>2
      <4> QED BY <4>3, <4>4, <4>5
    <3> QED BY <3>1, <3>2
  <2>2. ASSUME NEW m \in Nodes, NEW g \in Heads, OnList(lists'[g], m)
        PROVE  OnList(lists[g], m) \/ (m = n /\ g = h)
    <3>1. CASE g # h
      BY <1>4, <2>2, <3>1
    <3>2. CASE g = h
      <4>1. PICK i \in 1..(Len(L) + 1) : append_to_list(L, n)[i] = m
        BY <1>3, <1>4, <2>2, <3>2 DEF OnList
      <4>2. CASE i = 1
        BY <1>3, <3>2, <4>1, <4>2
      <4>3. CASE i # 1
        <5>1. i - 1 \in 1..Len(L) /\ (i - 1) + 1 = i
          BY <1>2, <4>3
        <5>2. L[i - 1] = m
          BY <1>3, <4>1, <5>1
        <5> QED BY <3>2, <5>1, <5>2 DEF OnList
      <4> QED BY <4>2, <4>3
    <3> QED BY <3>1, <3>2
  <2> QED BY <1>1, <2>1, <2>2 DEF IInv, OnOneList
<1> QED BY <1>9, <1>11, <1>12, <1>13 DEF IInv, Represents

-----------------------------------------------------------------------------
(* q without its p-th element. *)
RemoveAt(q, p) == [i \in 1..(Len(q) - 1) |-> IF i < p THEN q[i] ELSE q[i + 1]]

LEMMA RemoveAtFacts ==
  ASSUME NEW q \in Seq(Nodes), NEW p \in 1..Len(q)
  PROVE  /\ RemoveAt(q, p) \in Seq(Nodes)
         /\ Len(RemoveAt(q, p)) = Len(q) - 1
         /\ \A i \in 1..(Len(q) - 1) :
              RemoveAt(q, p)[i] = IF i < p THEN q[i] ELSE q[i + 1]
<1>1. Len(q) \in Nat /\ Len(q) - 1 \in Nat
  OBVIOUS
<1>2. \A i \in 1..(Len(q) - 1) : q[i] \in Nodes /\ q[i + 1] \in Nodes
  BY <1>1
<1>3. RemoveAt(q, p) \in [1..(Len(q) - 1) -> Nodes]
  BY <1>2 DEF RemoveAt
<1> QED BY <1>1, <1>3 DEF RemoveAt

(* Unlinking the p-th node of the list of h. *)
LEMMA UnlinkPreserves ==
  ASSUME IInv, NEW h \in Heads, NEW p \in 1..Len(lists[h]),
         unlink(lists[h][p]),
         lists' = [lists EXCEPT ![h] = RemoveAt(@, p)]
  PROVE  IInv'
<1> DEFINE L == lists[h]
           n == lists[h][p]
<1>1. L \in Seq(Nodes) /\ Len(L) \in Nat /\ n \in Nodes
  BY DEF IInv, TypeOK
<1>2. /\ lists' \in [Heads -> Seq(Nodes)]
      /\ lists'[h] = RemoveAt(L, p)
      /\ \A g \in Heads : g # h => lists'[g] = lists[g]
  BY <1>1, RemoveAtFacts DEF IInv, TypeOK
<1>3. /\ Len(lists'[h]) = Len(L) - 1
      /\ \A i \in 1..(Len(L) - 1) : lists'[h][i] = IF i < p THEN L[i] ELSE L[i + 1]
  BY <1>1, <1>2, RemoveAtFacts, ZenonT(40)
<1>4. \A g \in Heads : g # h => \A i \in Nat : Ring(g, i)' = Ring(g, i)
  BY <1>2 DEF Ring
<1>5. \A i \in 0..(p - 1) : Ring(h, i)' = Ring(h, i)
  BY <1>1, <1>3 DEF Ring
<1>6. \A i \in p..Len(L) : Ring(h, i)' = Ring(h, i + 1)
  BY <1>1, <1>3 DEF Ring
<1>7. /\ Ring(h, p) = n /\ n \in Ptrs
      /\ prev[n] = Ring(h, p - 1) /\ next[n] = Ring(h, p + 1)
      /\ Ring(h, p - 1) \in Ptrs /\ Ring(h, p + 1) \in Ptrs
  <2>1. p - 1 \in 0..Len(L) /\ p \in 0..Len(L) /\ (p - 1) + 1 = p
    BY <1>1
  <2>2. p - 1 \in Nat /\ p + 1 \in Nat
    BY <1>1
  <2> QED BY <1>1, <2>1, <2>2, RingEnds DEF IInv, Represents, Ptrs
<1>8. /\ next' = [next EXCEPT ![Ring(h, p - 1)] = Ring(h, p + 1), ![n] = n]
      /\ prev' = [prev EXCEPT ![Ring(h, p + 1)] = Ring(h, p - 1), ![n] = n]
  BY <1>7 DEF unlink
<1>9. TypeOK'
  BY <1>2, <1>7, <1>8, ListAssumption DEF IInv, TypeOK, Ptrs
<1>10. ASSUME NEW g \in Heads, NEW i \in 0..(Len(lists[g]) + 1), Ring(g, i) = n
       PROVE  g = h /\ i = p
  <2>1. CASE i = Len(lists[g]) + 1
    BY <1>1, <1>10, <2>1, RingEnds, ListAssumption DEF IInv
  <2>2. CASE i # Len(lists[g]) + 1
    <3>1. i \in 0..Len(lists[g]) /\ p \in 0..Len(L)
      BY <1>1, <2>2, RingEnds DEF IInv
    <3> QED BY <1>7, <1>10, <3>1, RingInjective
  <2> QED BY <2>1, <2>2
<1>11. ASSUME NEW g \in Heads, NEW i \in 0..Len(lists'[g])
       PROVE  next'[Ring(g, i)'] = Ring(g, i + 1)' /\ prev'[Ring(g, i + 1)'] = Ring(g, i)'
  <2>0. ASSUME NEW f \in Heads, NEW j \in 0..Len(lists[f]),
               f # h \/ j \notin {p - 1, p}
        PROVE  /\ next'[Ring(f, j)] = Ring(f, j + 1)
               /\ prev'[Ring(f, j + 1)] = Ring(f, j)
    <3>1. Len(lists[f]) \in Nat /\ j \in Nat /\ j + 1 \in Nat
          /\ j \in 0..(Len(lists[f]) + 1) /\ j + 1 \in 0..(Len(lists[f]) + 1)
      BY RingEnds DEF IInv
    <3>2. next[Ring(f, j)] = Ring(f, j + 1) /\ prev[Ring(f, j + 1)] = Ring(f, j)
      BY DEF IInv, Represents
    <3>3. Ring(f, j) # n /\ Ring(f, j + 1) # n
      <4>1. Ring(f, j) # n
        BY <1>10, <2>0, <3>1
      <4>2. f # h \/ j + 1 # p
        BY <1>1, <2>0, <3>1
      <4> QED BY <1>10, <4>1, <4>2, <3>1
    <3>4. p - 1 \in 0..Len(L) /\ p \in 0..Len(L)
      BY <1>1
    <3>5. Ring(f, j) # Ring(h, p - 1)
      BY <2>0, <3>4, RingInjective
    <3>6. Ring(f, j + 1) # Ring(h, p + 1)
      <4>1. prev[Ring(h, p + 1)] = n
        BY <1>7, <3>4 DEF IInv, Represents
      <4> QED BY <3>2, <3>3, <4>1
    <3>7. Ring(f, j) \in Ptrs /\ Ring(f, j + 1) \in Ptrs
      BY <3>1, RingEnds DEF IInv
    <3> QED BY <1>8, <3>2, <3>3, <3>5, <3>6, <3>7 DEF IInv, TypeOK
  <2>1. CASE g # h
    <3>1. i \in 0..Len(lists[g]) /\ i \in Nat /\ i + 1 \in Nat
      BY <1>2, <2>1
    <3> QED BY <1>4, <2>0, <2>1, <3>1
  <2>2. CASE g = h /\ i < p - 1
    <3>1. /\ i \in 0..(p - 1) /\ i + 1 \in 0..(p - 1) /\ i \in 0..Len(L)
          /\ i \notin {p - 1, p}
      BY <1>1, <1>3, <2>2
    <3>2. next'[Ring(h, i)] = Ring(h, i + 1) /\ prev'[Ring(h, i + 1)] = Ring(h, i)
      BY <2>0, <3>1
    <3> QED BY <1>5, <2>2, <3>1, <3>2
  <2>3. CASE g = h /\ i = p - 1
    <3>1. i \in 0..(p - 1) /\ i + 1 = p /\ p \in p..Len(L)
      BY <1>1, <2>3
    <3>2. Ring(h, i)' = Ring(h, p - 1) /\ Ring(h, i + 1)' = Ring(h, p + 1)
      BY <1>5, <1>6, <2>3, <3>1
    <3>3. Ring(h, p - 1) # n /\ Ring(h, p + 1) # n
      <4>1. p - 1 \in 0..(Len(lists[h]) + 1) /\ p + 1 \in 0..(Len(lists[h]) + 1)
            /\ p - 1 # p /\ p + 1 # p
        BY <1>1
      <4> QED BY <1>10, <4>1
    <3> QED BY <1>7, <1>8, <2>3, <3>2, <3>3 DEF IInv, TypeOK
  <2>4. CASE g = h /\ i > p - 1
    <3>1. /\ i \in p..Len(L) /\ i + 1 \in p..Len(L)
          /\ i + 1 \in 0..Len(L) /\ i + 1 \notin {p - 1, p}
      BY <1>1, <1>3, <2>4
    <3>2. /\ next'[Ring(h, i + 1)] = Ring(h, (i + 1) + 1)
          /\ prev'[Ring(h, (i + 1) + 1)] = Ring(h, i + 1)
      BY <2>0, <3>1
    <3> QED BY <1>6, <2>4, <3>1, <3>2
  <2> QED BY <1>1, <1>3, <2>1, <2>2, <2>3, <2>4
<1>12. ASSUME NEW m \in Nodes, \A g \in Heads : ~OnList(lists'[g], m)
       PROVE  next'[m] \in {Null, m} /\ prev'[m] = next'[m]
  <2>1. CASE m = n
    BY <1>7, <1>8, <2>1 DEF IInv, TypeOK
  <2>2. CASE m # n
    <3>1. \A g \in Heads : ~OnList(lists[g], m)
      <4> SUFFICES ASSUME NEW g \in Heads, NEW j \in 1..Len(lists[g]), lists[g][j] = m
                   PROVE  OnList(lists'[g], m)
        BY <1>12 DEF OnList
      <4>1. CASE g # h
        BY <1>2, <4>1 DEF OnList
      <4>2. CASE g = h /\ j < p
        <5>1. j \in 1..(Len(L) - 1)
          BY <1>1, <4>2
        <5> QED BY <1>3, <4>2, <5>1 DEF OnList
      <4>3. CASE g = h /\ j > p
        <5>1. j - 1 \in 1..(Len(L) - 1) /\ ~(j - 1 < p) /\ (j - 1) + 1 = j
          BY <1>1, <4>3
        <5>2. lists'[h][j - 1] = m
          BY <1>3, <4>3, <5>1
        <5> QED BY <1>3, <4>3, <5>1, <5>2 DEF OnList
      <4>4. CASE g = h /\ j = p
        BY <2>2, <4>4
      <4> QED BY <1>1, <4>1, <4>2, <4>3, <4>4
    <3>2. m # Ring(h, p - 1) /\ m # Ring(h, p + 1) /\ m \in Ptrs
      BY <3>1, ListAssumption DEF Ring, OnList, Ptrs
    <3>3. next[m] \in {Null, m} /\ prev[m] = next[m]
      BY <3>1 DEF IInv, Represents
    <3> QED BY <1>8, <2>2, <3>2, <3>3 DEF IInv, TypeOK
  <2> QED BY <2>1, <2>2
<1>13. OnOneList'
  <2>1. ASSUME NEW g \in Heads PROVE NoDuplicates(lists'[g])
    <3>1. CASE g # h
      BY <1>2, <3>1 DEF IInv, OnOneList
    <3>2. CASE g = h
      <4> SUFFICES ASSUME NEW i \in 1..(Len(L) - 1), NEW j \in 1..(Len(L) - 1),
                          lists'[h][i] = lists'[h][j]
                   PROVE  i = j
        BY <1>3, <3>2 DEF NoDuplicates
      <4> DEFINE I == IF i < p THEN i ELSE i + 1
                 J == IF j < p THEN j ELSE j + 1
      <4>1. I \in 1..Len(L) /\ J \in 1..Len(L)
        BY <1>1
      <4>2. L[I] = L[J]
        BY <1>3
      <4>3. I = J
        BY <4>1, <4>2 DEF IInv, OnOneList, NoDuplicates
      <4> QED BY <4>3, <1>1
    <3> QED BY <3>1, <3>2
  <2>2. ASSUME NEW m \in Nodes, NEW g \in Heads, OnList(lists'[g], m)
        PROVE  OnList(lists[g], m)
    <3>1. CASE g # h
      BY <1>2, <2>2, <3>1
    <3>2. CASE g = h
      <4>1. PICK i \in 1..(Len(L) - 1) : lists'[h][i] = m
        BY <1>3, <2>2, <3>2 DEF OnList
      <4>2. i \in 1..Len(L) /\ i + 1 \in 1..Len(L)
        BY <1>1
      <4> QED BY <1>3, <3>2, <4>1, <4>2 DEF OnList
    <3> QED BY <3>1, <3>2
  <2> QED BY <2>1, <2>2 DEF IInv, OnOneList
<1> QED BY <1>9, <1>11, <1>12, <1>13 DEF IInv, Represents

-----------------------------------------------------------------------------
(* remove_from_list on an initialised node, on a list or not. *)
LEMMA RemovePreserves ==
  ASSUME IInv, NEW n \in Nodes, Remove_from_list(n)
  PROVE  IInv'
<1>1. CASE \E h \in Heads : OnList(lists[h], n)
  <2>1. PICK h \in Heads : OnList(lists[h], n)
    BY <1>1
  <2> DEFINE p == CHOOSE i \in 1..Len(lists[h]) : lists[h][i] = n
  <2>2. p \in 1..Len(lists[h]) /\ lists[h][p] = n
    BY <2>1 DEF OnList
  <2>3. \A g \in Heads : g # h => remove_from_list(lists[g], n) = lists[g]
    BY <2>1 DEF remove_from_list, IInv, OnOneList
  <2>4. remove_from_list(lists[h], n) = RemoveAt(lists[h], p)
    BY <2>1 DEF remove_from_list, RemoveAt
  <2> HIDE DEF p
  <2>5. lists' = [lists EXCEPT ![h] = RemoveAt(@, p)]
    BY <2>3, <2>4 DEF Remove_from_list, IInv, TypeOK
  <2>6. unlink(lists[h][p])
    BY <2>2 DEF Remove_from_list
  <2> QED BY <2>2, <2>5, <2>6, UnlinkPreserves
<1>2. CASE \A h \in Heads : ~OnList(lists[h], n)
  <2>1. next[n] = n /\ prev[n] = n
    BY <1>2 DEF IInv, Represents, Remove_from_list
  <2>2. n \in Ptrs
    BY DEF Ptrs
  <2>3. next' = next /\ prev' = prev
    BY <2>1, <2>2 DEF Remove_from_list, unlink, IInv, TypeOK
  <2>4. lists' = lists
    BY <1>2 DEF Remove_from_list, remove_from_list, IInv, TypeOK
  <2> QED BY <2>3, <2>4 DEF IInv, TypeOK, Represents, OnOneList, Ring
<1> QED BY <1>1, <1>2

(* pop_from_list on a list that is_list_empty says is not empty. *)
LEMMA PopPreserves ==
  ASSUME IInv, NEW h \in Heads, Pop_from_list(h)
  PROVE  IInv'
<1> DEFINE L == lists[h]
<1>1. L \in Seq(Nodes) /\ Len(L) \in Nat /\ 0 \in 0..Len(L)
  BY DEF IInv, TypeOK
<1>2. next[h] = Ring(h, 1)
  BY <1>1, RingEnds DEF IInv, Represents
<1>3. 1 \in 1..Len(L)
  BY <1>1, <1>2 DEF Ring, Pop_from_list, is_list_empty
<1>4. next[h] = L[1]
  BY <1>2, <1>3 DEF Ring
<1>5. Tail(L) = RemoveAt(L, 1)
  <2>1. L # <<>> /\ Tail(L) \in Seq(Nodes) /\ Len(Tail(L)) = Len(L) - 1
        /\ \A i \in 1..(Len(L) - 1) : Tail(L)[i] = L[i + 1]
    BY <1>1, <1>3
  <2>2. /\ RemoveAt(L, 1) \in Seq(Nodes) /\ Len(RemoveAt(L, 1)) = Len(L) - 1
        /\ \A i \in 1..(Len(L) - 1) : RemoveAt(L, 1)[i] = L[i + 1]
    BY <1>1, <1>3, RemoveAtFacts
  <2>3. \A i \in 1..Len(Tail(L)) : Tail(L)[i] = RemoveAt(L, 1)[i]
    BY <2>1, <2>2
  <2> QED BY <2>1, <2>2, <2>3, SeqEqual
<1>6. lists' = [lists EXCEPT ![h] = RemoveAt(@, 1)]
  BY <1>5 DEF Pop_from_list
<1>7. unlink(lists[h][1])
  BY <1>4 DEF Pop_from_list
<1> QED BY <1>3, <1>6, <1>7, UnlinkPreserves

(* The two together are inductive. *)
LEMMA ListsInductive == Spec => []IInv
<1>1. Init => IInv
  <2> SUFFICES ASSUME Init PROVE IInv
    OBVIOUS
  <2>1. \A h \in Heads : lists[h] = <<>> /\ Len(lists[h]) = 0
    BY DEF Init
  <2>2. TypeOK
    BY ListAssumption DEF Init, TypeOK, Ptrs
  <2>3. OnOneList
    BY <2>1 DEF OnOneList, NoDuplicates, OnList
  <2>4. Represents
    <3>1. ASSUME NEW h \in Heads, NEW i \in 0..Len(lists[h])
          PROVE  Ring(h, i) = h /\ Ring(h, i + 1) = h
      BY <2>1 DEF Ring
    <3>2. \A h \in Heads : next[h] = h /\ prev[h] = h
      BY DEF Init, Ptrs
    <3>3. \A n \in Nodes : next[n] = Null /\ prev[n] = Null
      BY ListAssumption DEF Init, Ptrs
    <3> QED BY <3>1, <3>2, <3>3 DEF Represents
  <2> QED BY <2>2, <2>3, <2>4 DEF IInv
<1>2. IInv /\ [Next]_vars => IInv'
  <2> SUFFICES ASSUME IInv, [Next]_vars PROVE IInv'
    OBVIOUS
  <2>1. ASSUME NEW n \in Nodes, NEW h \in Heads, Append_to_list(n, h) PROVE IInv'
    BY <2>1, AppendPreserves
  <2>2. ASSUME NEW n \in Nodes, Remove_from_list(n) PROVE IInv'
    BY <2>2, RemovePreserves
  <2>3. ASSUME NEW h \in Heads, Pop_from_list(h) PROVE IInv'
    BY <2>3, PopPreserves
  <2>4. CASE UNCHANGED vars
    BY <2>4 DEF vars, IInv, TypeOK, Represents, OnOneList, Ring
  <2> QED BY <2>1, <2>2, <2>3, <2>4 DEF Next
<1> QED BY <1>1, <1>2, PTL DEF Spec

(* The pointer operations of list.h implement the sequence operators that  *)
(* the scheduler and the message queues are modelled with: after any       *)
(* number of appends, removals and pops on any number of lists, the rings  *)
(* of pointers are the sequences.                                          *)
THEOREM ListsImplementSequences == Spec => []Represents
<1>1. IInv => Represents
  BY DEF IInv
<1> QED BY <1>1, ListsInductive, PTL

(* However nodes move between lists, none is ever on two of them or on one *)
(* twice (append_to_list, remove_from_list, pop_from_list).                *)
THEOREM NodesStayOnOneList == Spec => []OnOneList
<1>1. IInv => OnOneList
  BY DEF IInv
<1> QED BY <1>1, ListsInductive, PTL

=============================================================================
