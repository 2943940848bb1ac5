------------------------------- MODULE Regions -------------------------------
(***************************************************************************)
(* Physical memory at boot (kern/alloc.c, kern/arch/x86_64/phy_mem.c).     *)
(* The usable extents of the boot loader's map are cut into naturally      *)
(* aligned power-of-two regions.  The kernel takes whole regions for its   *)
(* own pages; every other region becomes an untyped capability.            *)
(*                                                                         *)
(* The unit is the page.  A state of the allocator is a sequence of        *)
(* regions, in the order in which the code looks at them.                  *)
(***************************************************************************)
EXTENDS Naturals, Sequences, FiniteSets, FiniteSetsExt

Powers == {2 ^ i : i \in 0..20}

(* start & -start: the largest block naturally aligned at start. *)
AlignedAt(start) == Max({b \in Powers : b <= start /\ start % b = 0})

(* Halved until it fits.  start is not 0: page 0 is never usable memory.   *)
largest_fitting_block(start, end) ==
  Max({b \in Powers : b <= AlignedAt(start) /\ start + b <= end})

Region(addr, size) == [addr |-> addr, size |-> size, in_kernel_use |-> FALSE,
                       in_user_use |-> FALSE, for_pages |-> FALSE, watermark |-> 0]

allocate_aligned_regions(extent) ==
  LET end == extent.start + extent.len
      from[start \in extent.start..end] ==
        IF start >= end THEN <<>>
        ELSE LET block == largest_fitting_block(start, end)
             IN  <<Region(start, block)>> \o from[start + block]
  IN  from[extent.start]

(* The numbers of a set in ascending order. *)
InOrder(S) == [k \in 1..Cardinality(S) |->
                 CHOOSE i \in S : Cardinality({j \in S : j <= i}) = k]

(* The usable entries of the map, at most max_extents of them. *)
get_physical_extents(map, max_extents) ==
  LET usable == InOrder({i \in DOMAIN map : map[i].usable})
      n == IF Len(usable) < max_extents THEN Len(usable) ELSE max_extents
  IN  [k \in 1..n |-> map[usable[k]]]

init_page_mmap(map, max_extents) ==
  LET extents == get_physical_extents(map, max_extents)
      upto[i \in 0..Len(extents)] ==
        IF i = 0 THEN <<>> ELSE upto[i - 1] \o allocate_aligned_regions(extents[i])
  IN  upto[Len(extents)]

-----------------------------------------------------------------------------
(* The first region already used for pages that has room, else the first   *)
(* free one.  The last page of a region is only used if it is the first.   *)
HasRoom(r) == r.in_kernel_use /\ r.for_pages /\ r.watermark + 1 < r.size

IsFree(r) == ~r.in_kernel_use /\ ~r.in_user_use

First(regions, Test(_)) == Min({i \in DOMAIN regions : Test(regions[i])})

CanAllocPage(regions) == \E i \in DOMAIN regions : HasRoom(regions[i]) \/ IsFree(regions[i])

(* The allocator afterwards and the page handed out. *)
alloc_page(regions) ==
  IF \E i \in DOMAIN regions : HasRoom(regions[i])
    THEN LET i == First(regions, HasRoom)
         IN  [regions |-> [regions EXCEPT ![i].watermark = @ + 1],
              page |-> regions[i].addr + regions[i].watermark]
    ELSE LET i == First(regions, IsFree)
         IN  [regions |-> [regions EXCEPT ![i].in_kernel_use = TRUE, ![i].for_pages = TRUE,
                                          ![i].watermark = 1],
              page |-> regions[i].addr]

-----------------------------------------------------------------------------
(* The untyped capabilities made of the regions: those the kernel does not *)
(* use, among the first regions, as many as there are free slots.  The     *)
(* loop only ends at the last region when that one is handed out; other-   *)
(* wise it goes on to the zeroed entry behind it.                          *)
UserRegions(regions, slots) ==
  InOrder({i \in DOMAIN regions : i <= slots /\ ~regions[i].in_kernel_use})

(* Mutant: the regions of the kernel are handed out as well. *)
create_init_untyped_caps_mutant(regions, slots) ==
  [regions |-> [i \in DOMAIN regions |-> [regions[i] EXCEPT !.in_user_use = TRUE]],
   caps |-> [i \in DOMAIN regions |-> [base |-> regions[i].addr, size |-> regions[i].size]]]

create_init_untyped_caps(regions, slots) ==
  LET given == UserRegions(regions, slots)
      ofs   == [k \in DOMAIN given |-> [base |-> regions[given[k]].addr,
                                        size |-> regions[given[k]].size]]
      runs_on == regions # <<>> /\ regions[Len(regions)].in_kernel_use /\ Len(regions) < slots
  IN  [regions |-> [i \in DOMAIN regions |->
                      [regions[i] EXCEPT !.in_user_use =
                         @ \/ \E k \in DOMAIN given : given[k] = i]],
       caps |-> IF runs_on THEN Append(ofs, [base |-> 0, size |-> 1]) ELSE ofs]

=============================================================================
