----------------------------- MODULE PageTables -----------------------------
(***************************************************************************)
(* Four-level page tables (kern/arch/x86_64/mmu.c, obj/page.c).            *)
(*                                                                         *)
(* m maps the frame of each table to its entries; an entry is the frame it *)
(* names, 0 when it is not present.  The permission bits are left out: the *)
(* user library passes the same ones everywhere.  A table has Radix        *)
(* entries, and the upper half of a PML4 belongs to the kernel.  The       *)
(* address of an entry is the pair of its table and its index.             *)
(***************************************************************************)
EXTENDS Naturals

CONSTANTS Radix,     \* entries of a table
          PageBytes  \* units of an address in a page

ASSUME TablesAssumption ==
  Radix \in Nat \ {0} /\ Radix % 2 = 0 /\ PageBytes \in Nat \ {0}

KernelHalf == (Radix \div 2)..(Radix - 1)
EmptyTable == [i \in 0..(Radix - 1) |-> 0]

(* What an entry of a table spans, and the index of addr into the table;   *)
(* level 0 is a page table.                                                *)
PtSpan == PageBytes * Radix
PdSpan == PtSpan * Radix
PdptSpan == PdSpan * Radix
EntrySpan(level) == IF level = 0 THEN PageBytes ELSE IF level = 1 THEN PtSpan
                    ELSE IF level = 2 THEN PdSpan ELSE PdptSpan

Index(addr, level) == (addr \div EntrySpan(level)) % Radix

Load(m, pte) == m[pte[1]][pte[2]]
Store(m, pte, frame) == [m EXCEPT ![pte[1]][pte[2]] = frame]
Present(m, pte) == Load(m, pte) # 0

(* A fresh frame becomes a table. *)
WithTable(m, frame) ==
  [t \in DOMAIN m \cup {frame} |-> IF t = frame THEN EmptyTable ELSE m[t]]

get_pml4e(m, root, addr) == <<root, Index(addr, 3)>>
get_pdpte(m, root, addr) == <<Load(m, get_pml4e(m, root, addr)), Index(addr, 2)>>
get_pde(m, root, addr) == <<Load(m, get_pdpte(m, root, addr)), Index(addr, 1)>>
get_pte(m, root, addr) == <<Load(m, get_pde(m, root, addr)), Index(addr, 0)>>

(* The frame addr is mapped to, 0 when it is not mapped. *)
resolve_vm_mapping(m, root, addr) ==
  IF /\ Present(m, get_pml4e(m, root, addr))
     /\ Present(m, get_pdpte(m, root, addr))
     /\ Present(m, get_pde(m, root, addr))
    THEN Load(m, get_pte(m, root, addr))
    ELSE 0

-----------------------------------------------------------------------------
(* The kernel's own mappings.  x is the tables and the next free frame.    *)

alloc_table(x, pte) ==
  IF Present(x.mem, pte) THEN x
  ELSE [mem |-> WithTable(Store(x.mem, pte, x.next), x.next), next |-> x.next + 1]

(* Missing tables are made on the way; a mapping that is there is replaced. *)
add_vm_mapping(x, root, addr, frame) ==
  LET x3 == alloc_table(x, get_pml4e(x.mem, root, addr))
      x2 == alloc_table(x3, get_pdpte(x3.mem, root, addr))
      x1 == alloc_table(x2, get_pde(x2.mem, root, addr))
  IN  [x1 EXCEPT !.mem = Store(@, get_pte(@, root, addr), frame)]

-----------------------------------------------------------------------------
(* The methods of table and page capabilities: the tables afterwards, the  *)
(* error label, and the level of the missing table in message register 0.  *)

msg_ok(m) == [mem |-> m, err |-> "NO_ERROR", level |-> 0]
illegal_operation(m) == [mem |-> m, err |-> "ILLEGAL_OPERATION", level |-> 0]
already_mapped(m) == [mem |-> m, err |-> "DELETE_FIRST", level |-> 0]
table_missing(m, level) == [mem |-> m, err |-> "FAILED_LOOKUP", level |-> level]

MapUnlessPresent(m, pte, frame) ==
  IF Present(m, pte) THEN already_mapped(m) ELSE msg_ok(Store(m, pte, frame))

(* The kernel half of the current vspace, copied before anything is        *)
(* checked.  The copy is written relative to the entry of addr: only for   *)
(* addresses under entry 0 does it land in the kernel half.  For others    *)
(* the code also writes behind the table, which is left out.               *)
CopyKernelHalf(m, pml4e, current) ==
  [m EXCEPT ![pml4e[1]] = [i \in DOMAIN @ |->
     IF i >= pml4e[2] /\ i - pml4e[2] \in KernelHalf THEN m[current][i - pml4e[2]] ELSE @[i]]]

(* Mutant: a new vspace starts without the kernel. *)
x86_64_pdpt_map_mutant(m, frame, root, addr, current) ==
  MapUnlessPresent(m, get_pml4e(m, root, addr), frame)

x86_64_pdpt_map(m, frame, root, addr, current) ==
  LET pml4e == get_pml4e(m, root, addr)
  IN  MapUnlessPresent(CopyKernelHalf(m, pml4e, current), pml4e, frame)

(* Mutant: maps over what is there. *)
x86_64_pd_map_mutant(m, frame, root, addr) ==
  IF ~Present(m, get_pml4e(m, root, addr)) THEN table_missing(m, 3)
  ELSE msg_ok(Store(m, get_pdpte(m, root, addr), frame))

x86_64_pd_map(m, frame, root, addr) ==
  IF ~Present(m, get_pml4e(m, root, addr)) THEN table_missing(m, 3)
  ELSE MapUnlessPresent(m, get_pdpte(m, root, addr), frame)

x86_64_pt_map(m, frame, root, addr) ==
  IF ~Present(m, get_pml4e(m, root, addr)) THEN table_missing(m, 3)
  ELSE IF ~Present(m, get_pdpte(m, root, addr)) THEN table_missing(m, 2)
  ELSE MapUnlessPresent(m, get_pde(m, root, addr), frame)

(* Mutant: names the wrong table when the page directory is missing. *)
x86_64_page_map_mutant(m, frame, root, addr) ==
  IF ~Present(m, get_pml4e(m, root, addr)) THEN table_missing(m, 3)
  ELSE IF ~Present(m, get_pdpte(m, root, addr)) THEN table_missing(m, 1)
  ELSE IF ~Present(m, get_pde(m, root, addr)) THEN table_missing(m, 1)
  ELSE MapUnlessPresent(m, get_pte(m, root, addr), frame)

x86_64_page_map(m, frame, root, addr) ==
  IF ~Present(m, get_pml4e(m, root, addr)) THEN table_missing(m, 3)
  ELSE IF ~Present(m, get_pdpte(m, root, addr)) THEN table_missing(m, 2)
  ELSE IF ~Present(m, get_pde(m, root, addr)) THEN table_missing(m, 1)
  ELSE MapUnlessPresent(m, get_pte(m, root, addr), frame)

(* A huge page is entered where a page table would be. *)
x86_64_huge_page_map(m, frame, root, addr) == x86_64_pt_map(m, frame, root, addr)

=============================================================================
