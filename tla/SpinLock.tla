------------------------------ MODULE SpinLock ------------------------------
(***************************************************************************)
(* The ticket lock of lib/spin_lock.c.  Each CPU takes a ticket from back  *)
(* and spins until front reaches it.  Both counters are atomic_int and     *)
(* wrap around, here at W instead of 2^32.                                 *)
(*                                                                         *)
(* The relaxed ticket and the acquire and release accesses of front give   *)
(* every access below the order of a single step: each step touches one    *)
(* atomic variable.                                                        *)
(***************************************************************************)
EXTENDS Naturals, Sequences, FiniteSets

CONSTANTS CPUs,  \* the CPUs that use the lock
          W      \* the number of values of an atomic_int

ASSUME LockAssumption ==
  /\ IsFiniteSet(CPUs)
  /\ W \in Nat \ {0}
  /\ Cardinality(CPUs) <= W

VARIABLES front, back, \* struct spin_lock
          pc,          \* "out", "spinning" in spin_lock, or "in" the section
          ticket,      \* the local variable back of spin_lock
          queue        \* history only: the CPUs with a ticket, in order

vars == <<front, back, pc, ticket, queue>>

fetch_add(x) == IF x + 1 = W THEN 0 ELSE x + 1

(* A lock is zeroed memory. *)
Init == /\ front = 0
        /\ back = 0
        /\ pc = [c \in CPUs |-> "out"]
        /\ ticket = [c \in CPUs |-> 0]
        /\ queue = <<>>

(* Mutant: reads the ticket without moving the counter. *)
TakeTicket_mutant(c) ==
  /\ pc[c] = "out"
  /\ ticket' = [ticket EXCEPT ![c] = back]
  /\ pc' = [pc EXCEPT ![c] = "spinning"]
  /\ queue' = Append(queue, c)
  /\ UNCHANGED <<front, back>>

(* spin_lock up to its loop. *)
TakeTicket(c) ==
  /\ pc[c] = "out"
  /\ ticket' = [ticket EXCEPT ![c] = back]
  /\ back' = fetch_add(back)
  /\ pc' = [pc EXCEPT ![c] = "spinning"]
  /\ queue' = Append(queue, c)
  /\ UNCHANGED front

(* Mutant: does not wait for its turn. *)
Enter_mutant(c) ==
  /\ pc[c] = "spinning"
  /\ pc' = [pc EXCEPT ![c] = "in"]
  /\ UNCHANGED <<front, back, ticket, queue>>

(* The loop of spin_lock ends; a failed test changes nothing. *)
Enter(c) ==
  /\ pc[c] = "spinning"
  /\ front = ticket[c]
  /\ pc' = [pc EXCEPT ![c] = "in"]
  /\ UNCHANGED <<front, back, ticket, queue>>

(* Mutant: leaves without calling the next number. *)
spin_unlock_mutant(c) ==
  /\ pc[c] = "in"
  /\ pc' = [pc EXCEPT ![c] = "out"]
  /\ queue' = Tail(queue)
  /\ UNCHANGED <<front, back, ticket>>

spin_unlock(c) ==
  /\ pc[c] = "in"
  /\ front' = fetch_add(front)
  /\ pc' = [pc EXCEPT ![c] = "out"]
  /\ queue' = Tail(queue)
  /\ UNCHANGED <<back, ticket>>

Next == \E c \in CPUs : TakeTicket(c) \/ Enter(c) \/ spin_unlock(c)

Spec == Init /\ [][Next]_vars

(* A spinning CPU tests again and again, and the section ends: do_syscall  *)
(* unlocks on its only way out.  Nobody has to take the lock.              *)
FairSpec == Spec /\ \A c \in CPUs : WF_vars(Enter(c)) /\ WF_vars(spin_unlock(c))

-----------------------------------------------------------------------------
(* The counters stay in their width. *)
TypeOK == /\ front \in 0..(W - 1)
          /\ back \in 0..(W - 1)
          /\ pc \in [CPUs -> {"out", "spinning", "in"}]
          /\ ticket \in [CPUs -> 0..(W - 1)]
          /\ queue \in Seq(CPUs)

(* At most one CPU is in the section, also after the counters wrapped      *)
(* (spin_lock, spin_unlock).                                               *)
MutualExclusion ==
  \A c, d \in CPUs : pc[c] = "in" /\ pc[d] = "in" => c = d

(* The CPUs that hold the lock or wait for it get it in the order of their *)
(* tickets: only the oldest ticket's CPU is let in (spin_lock).            *)
FirstComeFirstServed ==
  \A c \in CPUs : pc[c] = "in" => queue # <<>> /\ Head(queue) = c

(* Every CPU that asks for the lock gets it. *)
NoStarvation == \A c \in CPUs : pc[c] = "spinning" ~> pc[c] = "in"

-----------------------------------------------------------------------------
(* x + i, wrapped once. *)
Plus(x, i) == IF x + i >= W THEN (x + i) - W ELSE x + i

(* The inductive strengthening: the queue holds the CPUs with a ticket     *)
(* once each, and their tickets count up from front to back.               *)
TicketsInOrder ==
  /\ \A c \in CPUs : pc[c] # "out" => \E i \in 1..Len(queue) : queue[i] = c
  /\ \A i \in 1..Len(queue) : pc[queue[i]] # "out"
  /\ \A i, j \in 1..Len(queue) : queue[i] = queue[j] => i = j
  /\ \A i \in 1..Len(queue) : ticket[queue[i]] = Plus(front, i - 1)
  /\ back = Plus(front, Len(queue))
  /\ \A c \in CPUs : pc[c] = "in" => ticket[c] = front

=============================================================================
