-------------------------------- MODULE Memory --------------------------------
(***************************************************************************)
(* Memory from the boot loader's map to kernel objects: the kernel cuts    *)
(* the map into regions and takes pages, hands the rest to the first       *)
(* program as untyped capabilities, and that program sorts them, allocates *)
(* capability slots and retypes the largest one into objects               *)
(* (kern/boot.c, user/userland.c, lib/lib.c).                              *)
(***************************************************************************)
EXTENDS Regions, CptrAlloc, Untyped, Integers

CONSTANTS Maps,          \* the boot loader's memory maps
          DeviceSizes,   \* the sizes of device memory, as sequences
          MaxExtents,    \* MAX_EXTENTS
          CNodeSlots,    \* slots of the first CNode
          FirstUntyped,  \* INIT_CAP_FIRST_UNTYPED
          MaxPages,      \* bound on the pages the kernel takes
          MaxCalls,      \* bound on the first program's allocations
          Kinds          \* the objects made: type, size_bits and number

(* Entries of a memory map, in pages.  Page 0 is not among them. *)
Entries == [start : Nat \ {0}, len : Nat, usable : BOOLEAN]

(* The types of kernel objects. *)
Types == {"ENDPOINT", "NOTIFICATION", "TCB", "CNODE", "UNTYPED", "HUGE_PAGE",
          "PML4", "PDPT", "PD", "PT", "PAGE"}

(* The boot loader's usable entries do not overlap, and the memory of a    *)
(* device fits between two of the places it is put at.                     *)
ASSUME MemoryAssumption ==
  /\ CNodeSlots \in Nat /\ FirstUntyped \in 0..CNodeSlots /\ MaxExtents \in Nat
  /\ \A m \in Maps :
       /\ m \in Seq(Entries)
       /\ \A i, j \in DOMAIN m : m[i].usable /\ m[j].usable /\ i # j =>
            m[i].start + m[i].len <= m[j].start \/ m[j].start + m[j].len <= m[i].start
  /\ \A d \in DeviceSizes : d \in Seq(1..(32 * PageSize))
  /\ \A kind \in Kinds : kind.type \in Types /\ kind.size_bits \in 0..29 /\ kind.num \in Nat \ {0}

VARIABLES map,      \* the boot loader's memory map
          devices,  \* the sizes of the devices' memory
          regions,  \* regions[] of the kernel
          pages,    \* the pages the kernel took
          slots,    \* the first CNode: slot -> what its capability names
          info,     \* untypeds[] of the first program
          bitmap,   \* the slot allocator's bitmap
          objects,  \* history only: the objects made
          calls,    \* the allocations made so far
          clobbered,\* history only: slots written while they held a capability
          halted,   \* an assertion of the kernel has failed
          phase

vars == <<map, devices, regions, pages, slots, info, bitmap, objects, calls, clobbered,
          halted, phase>>

Empty == [type |-> "NULL"]

UntypedCap(base, size, device) ==
  [type |-> "UNTYPED", base |-> base, size |-> size, badge |-> 0, device |-> device]

(* ub->size_bits - ua->size_bits: the largest first. *)
compare_untyped_info(a, b) == b.size - a.size

Sort == INSTANCE QSort WITH Compare <- compare_untyped_info

Init == /\ map \in Maps
        /\ devices \in DeviceSizes
        /\ regions = <<>>
        /\ pages = {}
        /\ slots = [s \in 0..(CNodeSlots - 1) |->
                      IF s < FirstUntyped THEN [type |-> "BOOT"] ELSE Empty]
        /\ info = <<>>
        /\ bitmap = {}
        /\ objects = {}
        /\ calls = 0
        /\ clobbered = {}
        /\ halted = FALSE
        /\ phase = "start"

InitPageMmap ==
  /\ phase = "start"
  /\ regions' = init_page_mmap(map, MaxExtents)
  /\ phase' = "boot"
  /\ UNCHANGED <<map, devices, pages, slots, info, bitmap, objects, calls, clobbered,
                 halted>>

(* The memory is large enough for the kernel: it never runs into the last  *)
(* region, nor out of pages.                                               *)
Spare == \E i \in DOMAIN regions : i < Len(regions) /\ (HasRoom(regions[i]) \/ IsFree(regions[i]))

(* The kernel takes a page, at boot and later. *)
AllocPage ==
  /\ phase \in {"boot", "user"} /\ ~halted
  /\ Cardinality(pages) < MaxPages
  /\ CanAllocPage(regions) /\ (phase = "boot" => Spare)
  /\ regions' = alloc_page(regions).regions
  /\ pages' = pages \cup {alloc_page(regions).page}
  /\ UNCHANGED <<map, devices, slots, info, bitmap, objects, calls, clobbered, halted, phase>>

(* A capability for each memory of a device, while there are slots; at     *)
(* least one slot is free.  Device memory lies above the map.              *)
create_init_untyped_device_caps(free) ==
  LET top == Max({0} \cup {e.start + e.len : e \in {map[i] : i \in DOMAIN map}})
  IN  [i \in 1..Min({Len(devices), free}) |->
         UntypedCap((top + 32 * i) * PageSize, devices[i], TRUE)]

(* create_boot_tcb: capabilities for the regions, then for the devices.    *)
(* The boot information names the slots in use and the empty ones.         *)
CreateBootTcb ==
  LET room    == CNodeSlots - FirstUntyped
      given   == create_init_untyped_caps(regions, room)
      untyped == [i \in DOMAIN given.caps |->
                    UntypedCap(given.caps[i].base * PageSize,
                               given.caps[i].size * PageSize, FALSE)]
      caps    == untyped \o create_init_untyped_device_caps(room - Len(untyped))
  IN  /\ phase = "boot"
      /\ regions # <<>>
      /\ regions' = given.regions
      /\ slots' = [s \in DOMAIN slots |->
                     IF s - FirstUntyped + 1 \in DOMAIN caps THEN caps[s - FirstUntyped + 1]
                     ELSE slots[s]]
      /\ phase' = "booted"
      /\ UNCHANGED <<map, devices, pages, info, bitmap, objects, calls, clobbered,
                 halted>>

UntypedSlots == {s \in DOMAIN slots : slots[s].type = "UNTYPED"}

EmptyRange == {s \in DOMAIN slots : s >= FirstUntyped /\ slots[s].type = "NULL"}

(* The first program starts: cptr_alloc_init and setup_memory_information. *)
StartUserland ==
  LET n   == Cardinality(UntypedSlots)
      all == [i \in 1..n |-> [size |-> slots[FirstUntyped + i - 1].size, index |-> i - 1]]
  IN  /\ phase = "booted"
      /\ bitmap' = cptr_alloc_init(CNodeSlots, EmptyRange)
      /\ info' = Sort!qsort(all, 1, n)
      /\ phase' = "user"
      /\ UNCHANGED <<map, devices, regions, pages, slots, objects, calls, clobbered,
                 halted>>

-----------------------------------------------------------------------------
(* untyped_retype of num objects into slots from offset on.  The           *)
(* destination slots are not looked at.  NoCptr is the largest word: with  *)
(* it the sum of the range check wraps, and what passes fails in cte_for.  *)
InRange(offset, num) ==
  (IF offset = NoCptr THEN num - 1 ELSE offset + num) <= CNodeSlots

Retype(u, kind, offset) ==
  LET cap   == slots[u]
      size  == object_size(kind.type, kind.size_bits)
      fits  == Enough(cap, size, kind.num) /\ InRange(offset, kind.num)
      New(i) == [type |-> kind.type, base |-> ObjectAddr(cap, size, i), size |-> size]
  IN  IF ~fits \/ offset = NoCptr
        THEN halted' = fits /\ UNCHANGED <<slots, objects, clobbered>>
        ELSE /\ slots' = [s \in DOMAIN slots |->
                            CASE s = u -> [cap EXCEPT !.badge = NewBadge(cap, size, kind.num)]
                              [] s \in RunAt(offset, kind.num) ->
                                   IF kind.type = "UNTYPED"
                                     THEN UntypedCap(New(s - offset).base, size, FALSE)
                                     ELSE New(s - offset)
                              [] OTHER -> slots[s]]
             /\ objects' = objects \cup {New(i) : i \in 0..(kind.num - 1)}
             /\ clobbered' = clobbered \cup {s \in RunAt(offset, kind.num) : slots[s] # Empty}
             /\ halted' = FALSE

(* The untyped the first program uses: the largest, or one it made itself. *)
Sources == {FirstUntyped + info[i].index : i \in DOMAIN info \cap {1}}
           \cup {s \in UntypedSlots : s >= FirstUntyped + Len(info)}

(* allocate and allocate_with_size: neither is the slot looked at that     *)
(* cptr_alloc_range returns, nor what the retype returns; the slots are    *)
(* taken whether or not it succeeds.                                       *)
Allocate(u, kind) ==
  LET got == cptr_alloc_range(bitmap, kind.num)
  IN  /\ phase = "user" /\ ~halted
      /\ calls < MaxCalls
      /\ calls' = calls + 1
      /\ bitmap' = got.bitmap
      /\ Retype(u, kind, got.cptr)
      /\ UNCHANGED <<map, devices, regions, pages, info, phase>>

(* A port capability issued into a slot from cptr_alloc, which the kernel  *)
(* writes without looking at it.                                           *)
IssuePort ==
  LET got == cptr_alloc(bitmap)
  IN  /\ phase = "user" /\ ~halted
      /\ calls < MaxCalls
      /\ calls' = calls + 1
      /\ bitmap' = got.bitmap
      /\ IF got.cptr # NoCptr /\ got.cptr < CNodeSlots
           THEN /\ slots' = [slots EXCEPT ![got.cptr] = [type |-> "IO_PORT"]]
                /\ clobbered' = IF slots[got.cptr] # Empty THEN clobbered \cup {got.cptr}
                                ELSE clobbered
           ELSE UNCHANGED <<slots, clobbered>>
      /\ UNCHANGED <<map, devices, regions, pages, info, objects, halted, phase>>

Other == InitPageMmap \/ AllocPage \/ CreateBootTcb \/ StartUserland \/ IssuePort

(* Any program. *)
Next == Other \/ \E u \in Sources, kind \in Kinds : Allocate(u, kind)

Spec == Init /\ [][Next]_vars

(* The contract: objects are made from memory that is not a device's and   *)
(* from an untyped no smaller than one of them.                            *)
MayAllocate(u, kind) ==
  ~slots[u].device /\ object_size(kind.type, kind.size_bits) <= slots[u].size

ClientNext ==
  Other \/ \E u \in Sources, kind \in Kinds : MayAllocate(u, kind) /\ Allocate(u, kind)

ClientSpec == Init /\ [][ClientNext]_vars

-----------------------------------------------------------------------------
Span(x) == x.base..(x.base + x.size - 1)
PageSpan(p) == (p * PageSize)..((p + 1) * PageSize - 1)
Usable == UNION {(e.start * PageSize)..((e.start + e.len) * PageSize - 1) :
                   e \in {map[i] : i \in {j \in DOMAIN map : map[j].usable}}}

(* The memory capabilities the kernel made at boot. *)
BootUntypeds == {slots[s] : s \in {t \in UntypedSlots : ~slots[t].device
                                     /\ t < FirstUntyped + Len(info)}}

(* Memory has one owner: the untyped capabilities of the first program lie *)
(* in usable memory, naturally aligned, apart from each other and from     *)
(* every page the kernel took, before or after they were made.             *)
MemoryPartitioned ==
  phase = "user" =>
    /\ \A s, t \in UntypedSlots :
         s < t /\ t < FirstUntyped + Len(info) => Span(slots[s]) \cap Span(slots[t]) = {}
    /\ \A u \in BootUntypeds : /\ Span(u) \subseteq Usable
                               /\ u.base % u.size = 0
                               /\ \A p \in pages : PageSpan(p) \cap Span(u) = {}
    /\ \A p \in pages : PageSpan(p) \subseteq Usable

(* No two objects share memory, except that what is made from an untyped   *)
(* lies inside it; every object is aligned to its size and inside the      *)
(* memory the first program was given.                                     *)
ObjectsDisjoint ==
  \A o \in objects :
    /\ o.base % o.size = 0
    /\ \E u \in BootUntypeds : Span(o) \subseteq Span(u)
    /\ \A p \in objects \ {o} :
         \/ Span(o) \cap Span(p) = {}
         \/ o.type = "UNTYPED" /\ Span(p) \subseteq Span(o)
         \/ p.type = "UNTYPED" /\ Span(o) \subseteq Span(p)

(* The kernel writes capabilities into the slots it is told to without     *)
(* looking at them; the slots the allocator chooses were always empty.     *)
SlotsWereEmpty == clobbered = {}

(* The first program's table is in order of size and lists each untyped    *)
(* capability once, so that the one it takes is the largest.               *)
SortedBySize ==
  phase = "user" =>
    /\ \A i \in 1..(Len(info) - 1) : info[i].size >= info[i + 1].size
    /\ {info[i].index : i \in DOMAIN info} = 0..(Len(info) - 1)
    /\ \A i \in DOMAIN info : slots[FirstUntyped + info[i].index].size = info[i].size

=============================================================================
