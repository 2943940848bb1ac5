------------------------------ MODULE MCVspace ------------------------------
(* Tables of 4 entries and pages of 2 units: a page table spans 8 units, a *)
(* page directory 32, the lower entry of a PML4 128.                       *)
EXTENDS Vspace

Segment(vaddr, memsz) == [vaddr |-> vaddr, memsz |-> memsz]

(* Segments that start and end inside a page, and that cross a table. *)
MCPrograms == {<<Segment(4, 3)>>,
               <<Segment(5, 4), Segment(28, 5)>>}

(* The first program's code, then its stack and IPC buffer at the top of   *)
(* the user half.                                                          *)
MCBootPages == <<16, 18, 252, 254>>

=============================================================================
