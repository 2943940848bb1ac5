---------------------------- MODULE IntrusiveList ----------------------------
(***************************************************************************)
(* The doubly linked ring lists of include/list.h, on pointers.  A list    *)
(* head and the nodes linked to it form a ring; the nodes are members of   *)
(* the objects on the list (tcb.runnable_tcbs, tcb.send_receive_node).     *)
(*                                                                         *)
(* lists is a ghost: it follows the operations with the sequence operators *)
(* of module Lists, which the other modules use.  Represents relates both. *)
(***************************************************************************)
EXTENDS Lists

CONSTANTS Heads,  \* the list heads
          Nodes,  \* the list nodes inside objects
          Null    \* the null pointer

ASSUME ListAssumption ==
  /\ Heads \cap Nodes = {}
  /\ Null \notin Heads \cup Nodes

Ptrs == Heads \cup Nodes

VARIABLES next,  \* list_head.next
          prev,  \* list_head.prev
          lists  \* ghost: the nodes of each list in order

vars == <<next, prev, lists>>

(* Heads are initialised by init_list; an object's nodes are zeroed memory. *)
Init == /\ next = [x \in Ptrs |-> IF x \in Heads THEN x ELSE Null]
        /\ prev = next
        /\ lists = [h \in Heads |-> <<>>]

Linked(n) == next[n] \notin {Null, n}

(* Between x and the pointer after it. *)
insert_list_internal(new, x) ==
  /\ next' = [next EXCEPT ![new] = next[x], ![x] = new]
  /\ prev' = [prev EXCEPT ![new] = x, ![next[x]] = new]

(* Mutant: without the closing init_list. *)
unlink_mutant(n) ==
  /\ next' = [next EXCEPT ![prev[n]] = next[n]]
  /\ prev' = [prev EXCEPT ![next[n]] = prev[n]]

(* Ends with init_list, so that unlinking twice is harmless. *)
unlink(n) ==
  /\ next' = [next EXCEPT ![prev[n]] = next[n], ![n] = n]
  /\ prev' = [prev EXCEPT ![next[n]] = prev[n], ![n] = n]

is_list_empty(h) == next[h] = h

-----------------------------------------------------------------------------
(* Callers link a node that is on no list, and unlink an initialised one.   *)

Append_to_list(n, h) ==
  /\ ~Linked(n)
  /\ insert_list_internal(n, h)
  /\ lists' = [lists EXCEPT ![h] = append_to_list(@, n)]

Remove_from_list(n) ==
  /\ next[n] # Null
  /\ unlink(n)
  /\ lists' = [h \in Heads |-> remove_from_list(lists[h], n)]

Pop_from_list(h) ==
  /\ ~is_list_empty(h)
  /\ unlink(next[h])
  /\ lists' = [lists EXCEPT ![h] = Tail(@)]

Next == \/ \E n \in Nodes, h \in Heads : Append_to_list(n, h)
        \/ \E n \in Nodes : Remove_from_list(n)
        \/ \E h \in Heads : Pop_from_list(h)

Spec == Init /\ [][Next]_vars

-----------------------------------------------------------------------------
(* Nodes may hold null pointers, list heads never do, whatever was linked  *)
(* to them and unlinked again (init_list).                                 *)
TypeOK == /\ next \in [Ptrs -> Ptrs \cup {Null}]
          /\ prev \in [Ptrs -> Ptrs \cup {Null}]
          /\ \A h \in Heads : next[h] # Null /\ prev[h] # Null
          /\ lists \in [Heads -> Seq(Nodes)]

(* The i-th pointer of the ring of h, counted from the head. *)
Ring(h, i) == IF i \in 1..Len(lists[h]) THEN lists[h][i] ELSE h

(* Following next from a head visits the nodes of its list in order and    *)
(* comes back to the head, following prev goes the other way round, and a  *)
(* node on no list has no neighbours (insert_list_internal,                *)
(* remove_from_list, init_list).                                           *)
Represents ==
  /\ \A h \in Heads : \A i \in 0..Len(lists[h]) :
       /\ next[Ring(h, i)] = Ring(h, i + 1)
       /\ prev[Ring(h, i + 1)] = Ring(h, i)
  /\ \A n \in Nodes : (\A h \in Heads : ~OnList(lists[h], n)) =>
       next[n] \in {Null, n} /\ prev[n] = next[n]

(* A node is on one list at most, and there only once, whatever the order  *)
(* in which lists take it over (append_to_list, pop_from_list).  Follows   *)
(* from Represents, and is what the proof of Represents needs.             *)
OnOneList ==
  /\ \A h \in Heads : NoDuplicates(lists[h])
  /\ \A g, h \in Heads, n \in Nodes :
       OnList(lists[g], n) /\ OnList(lists[h], n) => g = h

=============================================================================
