-------------------------------- MODULE QSort --------------------------------
(***************************************************************************)
(* The C library's qsort (lib/sort.c): Hoare partition around the middle   *)
(* element, which is followed when it is swapped.  An array is a sequence  *)
(* and a pointer an index into it.                                         *)
(***************************************************************************)
EXTENDS Integers, Sequences

CONSTANT Compare(_, _)   \* the comparison passed to qsort

ScanUp(a, left, pivot) ==
  LET up[i \in Nat] == IF Compare(a[i], a[pivot]) < 0 THEN up[i + 1] ELSE i
  IN  up[left]

ScanDown(a, right, pivot) ==
  LET down[i \in Int] == IF Compare(a[i], a[pivot]) > 0 THEN down[i - 1] ELSE i
  IN  down[right]

(* Mutant: the pivot stays where it was although it was swapped away. *)
Follow_mutant(pivot, left, right) == pivot

Follow(pivot, left, right) ==
  IF left = pivot THEN right ELSE IF right = pivot THEN left ELSE pivot

(* The arrays that hold elements of a. *)
ArraysOf(a) == Seq({a[i] : i \in DOMAIN a})

Partition(a, pivot0, left0, right0) ==
  LET part[b \in ArraysOf(a), pivot \in Int, from \in Int, to \in Int] ==
        IF from > to THEN [a |-> b, left |-> from, right |-> to]
        ELSE LET left  == ScanUp(b, from, pivot)
                 right == ScanDown(b, to, pivot)
             IN  IF left <= right
                   THEN part[[b EXCEPT ![left] = b[right], ![right] = b[left]],
                             Follow(pivot, left, right), left + 1, right - 1]
                   ELSE part[b, pivot, left, right]
  IN  part[a, pivot0, left0, right0]

(* Sorts the num elements of a from base on; the array stays as long as it *)
(* was.                                                                    *)
qsort(a, base, num) ==
  LET sort[b \in ArraysOf(a), from \in Int, n \in Int] ==
        IF n < 2 THEN b
        ELSE LET p     == Partition(b, from + (n \div 2), from, from + n - 1)
                 lower == sort[p.a, from, p.right - from + 1]
             IN  sort[lower, p.left, from + n - p.left]
  IN  [i \in DOMAIN a |-> sort[a, base, num][i]]

=============================================================================
