------------------------------- MODULE Lists -------------------------------
(***************************************************************************)
(* The kernel's lists (list.h) as sequences: the element after the list    *)
(* head is the first one.  Module IntrusiveList has the pointers.          *)
(***************************************************************************)
EXTENDS Naturals, Sequences

OnList(q, t) == \E i \in 1..Len(q) : q[i] = t

NoDuplicates(q) == \A i, j \in 1..Len(q) : q[i] = q[j] => i = j

(* Inserts right after the head: the last one in is the first one out. *)
append_to_list(q, t) == <<t>> \o q

(* Unlinking a node that is on no list leaves the lists alone. *)
remove_from_list(q, t) ==
  IF OnList(q, t)
    THEN LET p == CHOOSE i \in 1..Len(q) : q[i] = t
         IN  [i \in 1..(Len(q) - 1) |-> IF i < p THEN q[i] ELSE q[i + 1]]
    ELSE q

=============================================================================
