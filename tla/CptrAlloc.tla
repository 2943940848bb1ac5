------------------------------ MODULE CptrAlloc ------------------------------
(***************************************************************************)
(* The capability slot allocator of user space (lib/cptr_alloc.c): a       *)
(* bitmap of words, modelled as the set of its bits that are set.          *)
(*                                                                         *)
(* cptr_alloc writes 1 << j, an int: in a word of twice its width the bit  *)
(* j = IntBits - 1 is sign-extended over the upper half, and a shift of    *)
(* IntBits or more wraps around (x86).                                     *)
(***************************************************************************)
EXTENDS Naturals, FiniteSets, FiniteSetsExt

CONSTANTS BitmapWords,  \* BITMAP_SIZE
          WordBits,     \* BITS_PER_WORD
          IntBits       \* the width of an int

ASSUME CptrAssumption ==
  /\ {BitmapWords, WordBits, IntBits} \subseteq Nat \ {0}
  /\ WordBits = 2 * IntBits

Bits == 0..(BitmapWords * WordBits - 1)
Word(i) == (i * WordBits)..(i * WordBits + WordBits - 1)
Words == 0..(BitmapWords - 1)

NoCptr == BitmapWords * WordBits   \* (cptr_t)-1

(* Everything in the CNode is taken but the slots the kernel left empty.   *)
cptr_alloc_init(slots, empty_range) == (0..(slots - 1)) \ empty_range

(* The bits of word i that 1 << j stands for. *)
IntShift(i, j) ==
  LET s == j % IntBits
  IN  {i * WordBits + b : b \in (IF s = IntBits - 1 THEN s..(WordBits - 1) ELSE {s})}

(* The first word that is not full and the first j of it whose bits are    *)
(* all clear; a word without one is passed over.                           *)
cptr_alloc(bitmap) ==
  LET fits == {p \in Words \X (0..(WordBits - 1)) : IntShift(p[1], p[2]) \cap bitmap = {}}
      at   == Min({p[1] * WordBits + p[2] : p \in fits})
  IN  IF fits = {} THEN [bitmap |-> bitmap, cptr |-> NoCptr]
      ELSE [bitmap |-> bitmap \cup IntShift(at \div WordBits, at % WordBits), cptr |-> at]

RunAt(at, n) == at..(at + n - 1)

(* Mutant: a run that crosses into the next word is marked in its first.   *)
cptr_alloc_range_mutant(bitmap, n) ==
  LET fits == {at \in Bits : RunAt(at, n) \subseteq Bits \ bitmap}
  IN  IF fits = {} THEN [bitmap |-> bitmap, cptr |-> NoCptr]
      ELSE [bitmap |-> bitmap \cup (RunAt(Min(fits), n) \cap Word(Min(fits) \div WordBits)),
            cptr |-> Min(fits)]

(* The first run of n clear bits. *)
cptr_alloc_range(bitmap, n) ==
  LET fits == {at \in Bits : RunAt(at, n) \subseteq Bits \ bitmap}
  IN  IF fits = {} THEN [bitmap |-> bitmap, cptr |-> NoCptr]
      ELSE [bitmap |-> bitmap \cup RunAt(Min(fits), n), cptr |-> Min(fits)]

=============================================================================
