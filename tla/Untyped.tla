------------------------------- MODULE Untyped -------------------------------
(***************************************************************************)
(* Making kernel objects out of untyped memory (kern/obj/untyped.c,        *)
(* include/kern/size.h).  An untyped capability's badge is the watermark   *)
(* of the memory handed out.  Sizes and addresses are unsigned machine     *)
(* words; a page has PageSize units.                                       *)
(***************************************************************************)
EXTENDS Naturals

CONSTANTS PageSize,     \* units in a page
          MachineWord   \* the number of values of a machine word

(* Sizes are powers of two.  A page has up to 256 times the smallest size. *)
ASSUME UntypedAssumption ==
  /\ PageSize \in Nat \ {0} /\ \E i \in 2..8 : PageSize = 2 ^ i
  /\ MachineWord \in Nat \ {0}

(* An endpoint is the smallest object; a notification and a CNode slot are *)
(* twice as large in the machine.                                          *)
object_size(type, size_bits) ==
  CASE type = "ENDPOINT"     -> 1
    [] type = "NOTIFICATION" -> 2
    [] type = "TCB"          -> PageSize \div 2
    [] type = "CNODE"        -> 2 ^ (size_bits + 1)
    [] type = "UNTYPED"      -> 2 ^ size_bits
    [] type = "HUGE_PAGE"    -> 2 * PageSize
    [] type \in {"PML4", "PDPT", "PD", "PT", "PAGE"} -> PageSize

ALIGN_UP(x, align) == ((x + align - 1) \div align) * align

(* Subtraction of unsigned words. *)
Minus(x, y) == (x + MachineWord - y) % MachineWord

untyped_offset(badge, obj_size) == ALIGN_UP(badge, obj_size)

available_memory(u, obj_size) == Minus(u.size, untyped_offset(u.badge, obj_size))

Enough(u, obj_size, num) == available_memory(u, obj_size) >= obj_size * num

(* The address of object i of a retype, counted from 0. *)
ObjectAddr(u, obj_size, i) == u.base + untyped_offset(u.badge, obj_size) + i * obj_size

(* Mutant: the space skipped by the alignment is not counted. *)
NewBadge_mutant(u, obj_size, num) == u.badge + obj_size * num

NewBadge(u, obj_size, num) == untyped_offset(u.badge, obj_size) + obj_size * num

=============================================================================
