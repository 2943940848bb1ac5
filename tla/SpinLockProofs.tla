--------------------------- MODULE SpinLockProofs ---------------------------
(***************************************************************************)
(* Mutual exclusion and the order of service of the ticket lock, for every *)
(* number of CPUs and every counter width that has a ticket for each CPU.  *)
(***************************************************************************)
EXTENDS SpinLock, FiniteSetTheorems, TLAPS

IInv == TypeOK /\ TicketsInOrder

(* A queue without repetitions is no longer than there are CPUs, so that   *)
(* the tickets in it have not wrapped around onto each other.              *)
LEMMA QueueFits ==
  ASSUME NEW q \in Seq(CPUs),
         \A i, j \in 1..Len(q) : q[i] = q[j] => i = j
  PROVE  Len(q) \in Nat /\ Len(q) <= W
<1>1. Len(q) \in Nat /\ q \in [1..Len(q) -> CPUs]
  OBVIOUS
<1>2. q \in Injection(1..Len(q), CPUs)
  BY <1>1 DEF Injection, IsInjective
<1>3. Cardinality(1..Len(q)) <= Cardinality(CPUs)
  BY <1>2, FS_Injection, LockAssumption
<1>4. Cardinality(1..Len(q)) = Len(q)
  BY <1>1, FS_Interval, SMTT(30)
<1>5. Cardinality(CPUs) \in Nat
  BY FS_CardinalityType, LockAssumption
<1> QED BY <1>1, <1>3, <1>4, <1>5, LockAssumption

(* Different places in the queue have different tickets. *)
LEMMA PlusInjective ==
  ASSUME NEW x \in 0..(W - 1), NEW i \in 0..(W - 1), NEW j \in 0..(W - 1),
         Plus(x, i) = Plus(x, j)
  PROVE  i = j
BY LockAssumption DEF Plus

(* A CPU whose ticket is front is the first one of the queue. *)
LEMMA FrontIsFirst ==
  ASSUME IInv, NEW c \in CPUs, pc[c] # "out", ticket[c] = front
  PROVE  queue # <<>> /\ queue[1] = c /\ Head(queue) = c
<1>1. queue \in Seq(CPUs) /\ Len(queue) \in Nat /\ Len(queue) <= W
  BY QueueFits DEF IInv, TypeOK, TicketsInOrder
<1>2. PICK i \in 1..Len(queue) : queue[i] = c
  BY DEF IInv, TicketsInOrder
<1>3. Plus(front, i - 1) = Plus(front, 0)
  BY <1>2, LockAssumption DEF IInv, TypeOK, TicketsInOrder, Plus
<1>4. i - 1 \in 0..(W - 1) /\ 0 \in 0..(W - 1)
  BY <1>1, LockAssumption
<1>5. i - 1 = 0
  BY <1>3, <1>4, PlusInjective DEF IInv, TypeOK
<1> QED BY <1>1, <1>2, <1>5

(* Taking a ticket. *)
LEMMA TakeTicketPreserves ==
  ASSUME IInv, NEW c \in CPUs, TakeTicket(c)
  PROVE  IInv'
<1> DEFINE n == Len(queue)
<1>1. queue \in Seq(CPUs) /\ n \in Nat /\ front \in 0..(W - 1) /\ front' = front
  BY DEF IInv, TypeOK, TakeTicket
<1>2. /\ queue' \in Seq(CPUs) /\ Len(queue') = n + 1 /\ queue'[n + 1] = c
      /\ \A i \in 1..n : queue'[i] = queue[i]
  BY <1>1 DEF TakeTicket
<1>3. \A i \in 1..n : queue[i] \in CPUs /\ queue[i] # c
  BY <1>1 DEF IInv, TicketsInOrder, TakeTicket
<1>4. \A i, j \in 1..Len(queue') : queue'[i] = queue'[j] => i = j
  <2> SUFFICES ASSUME NEW i \in 1..(n + 1), NEW j \in 1..(n + 1), queue'[i] = queue'[j]
               PROVE  i = j
    BY <1>2
  <2>1. CASE i = n + 1 /\ j # n + 1
    <3>1. j \in 1..n
      BY <1>1, <2>1
    <3> QED BY <1>2, <1>3, <2>1, <3>1
  <2>2. CASE i # n + 1 /\ j = n + 1
    <3>1. i \in 1..n
      BY <1>1, <2>2
    <3> QED BY <1>2, <1>3, <2>2, <3>1
  <2>3. CASE i # n + 1 /\ j # n + 1
    <3>1. i \in 1..n /\ j \in 1..n
      BY <1>1, <2>3
    <3> QED BY <1>2, <3>1 DEF IInv, TicketsInOrder
  <2> QED BY <2>1, <2>2, <2>3
<1>5. n + 1 <= W
  BY <1>2, <1>4, QueueFits
<1>6. /\ pc' \in [CPUs -> {"out", "spinning", "in"}]
      /\ pc'[c] = "spinning" /\ \A d \in CPUs : d # c => pc'[d] = pc[d]
      /\ ticket' \in [CPUs -> 0..(W - 1)]
      /\ ticket'[c] = back /\ \A d \in CPUs : d # c => ticket'[d] = ticket[d]
  BY DEF IInv, TypeOK, TakeTicket
<1>7. back' \in 0..(W - 1) /\ back' = Plus(front', Len(queue'))
  <2>1. back = Plus(front, n) /\ back' = fetch_add(back)
    BY DEF IInv, TicketsInOrder, TakeTicket
  <2>2. fetch_add(Plus(front, n)) = Plus(front, n + 1) /\ Plus(front, n + 1) \in 0..(W - 1)
    BY <1>1, <1>5, LockAssumption DEF fetch_add, Plus
  <2> QED BY <1>1, <1>2, <2>1, <2>2
<1>8. \A d \in CPUs : pc'[d] # "out" => \E i \in 1..Len(queue') : queue'[i] = d
  <2> SUFFICES ASSUME NEW d \in CPUs, pc'[d] # "out"
               PROVE  \E i \in 1..(n + 1) : queue'[i] = d
    BY <1>2
  <2>1. CASE d = c
    BY <1>1, <1>2, <2>1
  <2>2. CASE d # c
    <3>1. PICK i \in 1..n : queue[i] = d
      BY <1>6, <2>2 DEF IInv, TicketsInOrder
    <3>2. i \in 1..(n + 1) /\ queue'[i] = d
      BY <1>1, <1>2, <3>1
    <3> QED BY <3>2
  <2> QED BY <2>1, <2>2
<1>9. ASSUME NEW i \in 1..Len(queue')
      PROVE  pc'[queue'[i]] # "out" /\ ticket'[queue'[i]] = Plus(front', i - 1)
  <2>1. CASE i = n + 1
    BY <1>1, <1>2, <1>6, <2>1 DEF IInv, TicketsInOrder
  <2>2. CASE i # n + 1
    <3>1. i \in 1..n
      BY <1>1, <1>2, <2>2
    <3>2. pc[queue[i]] # "out" /\ ticket[queue[i]] = Plus(front, i - 1)
      BY <3>1 DEF IInv, TicketsInOrder
    <3>3. queue'[i] = queue[i] /\ queue[i] \in CPUs /\ queue[i] # c
      BY <1>2, <1>3, <3>1
    <3> QED BY <1>1, <1>6, <3>2, <3>3
  <2> QED BY <2>1, <2>2
<1>10. \A d \in CPUs : pc'[d] = "in" => ticket'[d] = front'
  BY <1>1, <1>6 DEF IInv, TicketsInOrder
<1> QED BY <1>1, <1>2, <1>4, <1>6, <1>7, <1>8, <1>9, <1>10 DEF IInv, TypeOK, TicketsInOrder

(* Leaving the loop. *)
LEMMA EnterPreserves ==
  ASSUME IInv, NEW c \in CPUs, Enter(c)
  PROVE  IInv'
<1>1. /\ UNCHANGED <<front, back, ticket, queue>>
      /\ pc' \in [CPUs -> {"out", "spinning", "in"}]
      /\ pc'[c] = "in" /\ pc[c] = "spinning" /\ ticket[c] = front
      /\ \A d \in CPUs : d # c => pc'[d] = pc[d]
  BY DEF IInv, TypeOK, Enter
<1>2. \A d \in CPUs : pc'[d] = "out" <=> pc[d] = "out"
  BY <1>1
<1>3. \A i \in 1..Len(queue) : queue[i] \in CPUs
  BY DEF IInv, TypeOK
<1> QED BY <1>1, <1>2, <1>3 DEF IInv, TypeOK, TicketsInOrder

(* Unlocking. *)
LEMMA UnlockPreserves ==
  ASSUME IInv, NEW c \in CPUs, spin_unlock(c)
  PROVE  IInv'
<1> DEFINE n == Len(queue)
<1>1. queue \in Seq(CPUs) /\ n \in Nat /\ n <= W /\ front \in 0..(W - 1)
  BY QueueFits DEF IInv, TypeOK, TicketsInOrder
<1>2. queue # <<>> /\ queue[1] = c /\ n >= 1
  BY <1>1, FrontIsFirst DEF spin_unlock, IInv, TicketsInOrder
<1>3. /\ queue' \in Seq(CPUs) /\ Len(queue') = n - 1
      /\ \A i \in 1..(n - 1) : queue'[i] = queue[i + 1]
  BY <1>1, <1>2 DEF spin_unlock
<1>4. /\ pc' \in [CPUs -> {"out", "spinning", "in"}]
      /\ pc'[c] = "out" /\ \A d \in CPUs : d # c => pc'[d] = pc[d]
      /\ ticket' = ticket /\ back' = back /\ front' = fetch_add(front)
  BY DEF IInv, TypeOK, spin_unlock
<1>5. \A i, j \in 1..n : queue[i] = queue[j] => i = j
  BY DEF IInv, TicketsInOrder
<1>6. \A i \in 1..(n - 1) : i + 1 \in 1..n /\ queue[i + 1] \in CPUs /\ queue[i + 1] # c
  <2> SUFFICES ASSUME NEW i \in 1..(n - 1)
               PROVE  i + 1 \in 1..n /\ queue[i + 1] \in CPUs /\ queue[i + 1] # c
    OBVIOUS
  <2>1. i + 1 \in 1..n /\ 1 \in 1..n /\ i + 1 # 1
    BY <1>1
  <2> QED BY <1>1, <1>2, <1>5, <2>1
<1>7. front' \in 0..(W - 1)
  BY <1>1, <1>4, LockAssumption DEF fetch_add
<1>8. back' = Plus(front', Len(queue'))
  BY <1>1, <1>2, <1>3, <1>4, LockAssumption DEF IInv, TicketsInOrder, fetch_add, Plus
<1>9. ASSUME NEW i \in 1..(n - 1)
      PROVE  pc'[queue'[i]] # "out" /\ ticket'[queue'[i]] = Plus(front', i - 1)
  <2>1. Plus(front', i - 1) = Plus(front, (i + 1) - 1)
    BY <1>1, <1>4, LockAssumption DEF fetch_add, Plus
  <2> QED BY <1>3, <1>4, <1>6, <2>1 DEF IInv, TicketsInOrder
<1>10. ASSUME NEW d \in CPUs, pc'[d] # "out"
       PROVE  \E i \in 1..(n - 1) : queue'[i] = d
  <2>1. d # c /\ pc[d] # "out"
    BY <1>4, <1>10
  <2>2. PICK i \in 1..n : queue[i] = d
    BY <2>1 DEF IInv, TicketsInOrder
  <2>3. i # 1
    BY <1>2, <2>1, <2>2
  <2>4. i - 1 \in 1..(n - 1) /\ (i - 1) + 1 = i
    BY <1>1, <2>3
  <2> QED BY <1>3, <2>2, <2>4
<1>11. ASSUME NEW i \in 1..(n - 1), NEW j \in 1..(n - 1), queue'[i] = queue'[j]
       PROVE  i = j
  <2>1. i + 1 = j + 1
    BY <1>3, <1>5, <1>6, <1>11
  <2> QED BY <1>1, <2>1
<1>12. ASSUME NEW d \in CPUs, pc'[d] = "in"
       PROVE  ticket'[d] = front'
  <2>1. d # c /\ pc[d] = "in"
    BY <1>4, <1>12
  <2>2. queue[1] = d
    BY <2>1, FrontIsFirst DEF IInv, TicketsInOrder
  <2> QED BY <1>2, <2>1, <2>2
<1> QED BY <1>1, <1>3, <1>4, <1>7, <1>8, <1>9, <1>10, <1>11, <1>12
        DEF IInv, TypeOK, TicketsInOrder

(* TicketsInOrder is inductive, on top of the type invariant. *)
LEMMA TicketsInOrderInductive == Spec => []IInv
<1>1. Init => IInv
  BY LockAssumption DEF Init, IInv, TypeOK, TicketsInOrder, Plus
<1>2. IInv /\ [Next]_vars => IInv'
  <2> SUFFICES ASSUME IInv, [Next]_vars PROVE IInv'
    OBVIOUS
  <2>1. CASE UNCHANGED vars
    BY <2>1 DEF vars, IInv, TypeOK, TicketsInOrder
  <2> QED BY <2>1, TakeTicketPreserves, EnterPreserves, UnlockPreserves DEF Next
<1> QED BY <1>1, <1>2, PTL DEF Spec

(* The tickets of the waiting CPUs count up from front to back without a   *)
(* gap or a repetition, however often the counters wrapped (spin_lock).    *)
THEOREM TicketsCountUp == Spec => []TicketsInOrder
<1>1. IInv => TicketsInOrder
  BY DEF IInv
<1> QED BY <1>1, TicketsInOrderInductive, PTL

(* The CPU in the section took its ticket before everyone who waits        *)
(* (spin_lock, spin_unlock).                                               *)
THEOREM ServedInOrder == Spec => []FirstComeFirstServed
<1>1. IInv => FirstComeFirstServed
  BY FrontIsFirst DEF IInv, TicketsInOrder, FirstComeFirstServed
<1> QED BY <1>1, TicketsInOrderInductive, PTL

(* No two CPUs are in a section that the lock protects (spin_lock,         *)
(* spin_unlock), however often the counters wrapped.                       *)
THEOREM LockSafe == Spec => []MutualExclusion
<1>1. FirstComeFirstServed => MutualExclusion
  BY DEF FirstComeFirstServed, MutualExclusion
<1> QED BY <1>1, ServedInOrder, PTL

=============================================================================
