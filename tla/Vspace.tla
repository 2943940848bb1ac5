-------------------------------- MODULE Vspace --------------------------------
(***************************************************************************)
(* Address spaces: the one the kernel makes for the first program at boot  *)
(* (kern/boot.c, kern/elf.c) and those the first program makes for the     *)
(* programs it starts (lib/exec.c, map_page and map_buffer of lib/lib.c).  *)
(*                                                                         *)
(* The first program is one thread, and it alone changes page tables, but  *)
(* map_page is several system calls: its loop asks the kernel, learns      *)
(* which table is missing, makes that one and asks again.  todo is what    *)
(* the call of spawn_thread in progress still has to do.                   *)
(*                                                                         *)
(* allocate returns a slot whether or not the untyped had room for the     *)
(* object: a retype that finds too little memory leaves the slot empty,    *)
(* and an operation on an empty slot is an error.                          *)
(*                                                                         *)
(* Contract: user addresses lie under PML4 entry 0; every program has a    *)
(* segment with data, no two of its segments share a page; page 0 of the   *)
(* first program is not mapped; nothing is mapped below a huge page; the   *)
(* scratch area is left to map_buffer_to_mappable_space.                   *)
(***************************************************************************)
EXTENDS PageTables, Sequences, TLC

CONSTANTS BootPages,      \* the addresses mapped at boot, in order
          ScratchStart,   \* the first value of mappable_addr
          Programs,       \* sequences of segments: [vaddr, memsz]
          StackPages,     \* the stack sizes in use, in pages
          TableAddrs,     \* where the first program maps tables by hand
          PageAddrs,      \* where it maps single pages by hand
          HugeAddrs,      \* where it maps huge pages
          Budgets,        \* pages of the untyped that spawn_thread is given
          MaxSpawns, MaxRaw   \* bounds on the calls

VARIABLES mem,            \* the page tables
          next,           \* the next frame
          data,           \* frame -> the page of a program copied into it
          booting,        \* the addresses still to be mapped at boot
          mappable_addr,
          todo,           \* the steps left of spawn_thread
          level,          \* map_page: the table found missing, 0 for none
          tcbs,           \* the programs started
          raw,            \* the maps made by hand so far
          left,           \* the pages left in the untyped
          empty           \* the frames that were never made: their slots are empty

vars == <<mem, next, data, booting, mappable_addr, todo, level, tcbs, raw, left, empty>>

InitVspace == 1
KernelFrame(i) == i + 2   \* what the boot loader put into the kernel half

Init == /\ mem = [t \in {InitVspace} |-> [i \in 0..(Radix - 1) |->
                                   IF i \in KernelHalf THEN KernelFrame(i) ELSE 0]]
        /\ next = KernelFrame(Radix)
        /\ data = <<>>
        /\ booting = BootPages
        /\ mappable_addr = ScratchStart
        /\ todo = <<>>
        /\ level = 0
        /\ tcbs = <<>>
        /\ raw = 0
        /\ left \in Budgets
        /\ empty = {}

(* load_elf, alloc_and_map_page and map_virt_from_virt_phys: a fresh frame *)
(* for each page of the first program, its stack and its IPC buffer.       *)
BootMap ==
  /\ booting # <<>>
  /\ LET x == add_vm_mapping([mem |-> mem, next |-> next + 1], InitVspace, Head(booting), next)
     IN  mem' = x.mem /\ next' = x.next
  /\ booting' = Tail(booting)
  /\ UNCHANGED <<data, mappable_addr, todo, level, tcbs, raw, left, empty>>

-----------------------------------------------------------------------------
Offset(seg) == seg.vaddr % PageBytes

PagesOf(seg) == (seg.memsz + Offset(seg) + PageBytes - 1) \div PageBytes

(* The pages of the first n segments. *)
PagesBefore(prog, n) ==
  LET before[j \in 0..Len(prog)] ==
        IF j = 0 THEN 0 ELSE before[j - 1] + PagesOf(prog[j])
  IN  before[n]

(* Frames for each segment, handed out in order after the first ones. *)
BufferOf(prog, first, i) ==
  [j \in 1..PagesOf(prog[i]) |-> first + PagesBefore(prog, i - 1) + j - 1]

MapJob(op, root, frames, addr) ==
  [op |-> op, root |-> root, frames |-> frames, addr |-> addr]

(* map_elf_to_new_vspace: for each segment a buffer is made and mapped     *)
(* into the scratch area (create, then scratch), filled there, and mapped  *)
(* where it belongs.  It stays in the scratch area: there is no unmap.     *)
SegmentJobs(prog, root, first) ==
  LET job(n) ==
        LET i == (n + 2) \div 3
            frames == BufferOf(prog, first, i)
            scratch == mappable_addr + (frames[1] - first) * PageBytes
        IN  CASE n % 3 = 1 -> MapJob("create", InitVspace, frames, scratch)
              [] n % 3 = 2 -> [op |-> "copy", addr |-> scratch, prog |-> prog, seg |-> i]
              [] OTHER     -> MapJob("map", root, frames, prog[i].vaddr)
  IN  [n \in 1..(3 * Len(prog)) |-> job(n)]

HighestAddr(prog) ==
  CHOOSE a \in {s.vaddr + s.memsz : s \in {prog[i] : i \in DOMAIN prog}} :
    \A i \in DOMAIN prog : prog[i].vaddr + prog[i].memsz <= a

(* A page is left free, and another one before the stack. *)
IpcAddr(prog) ==
  ((HighestAddr(prog) + PageBytes + PageBytes - 1) \div PageBytes) * PageBytes

StackAddr(prog) == IpcAddr(prog) + 2 * PageBytes

(* The first address of the kernel's half, and pages that lie below it. *)
UserEnd == (Radix \div 2) * EntrySpan(3)
IsUser(addr, pages) == addr \in Nat /\ addr + pages * PageBytes <= UserEnd

(* The contract on addresses: the kernel maps every page of the first      *)
(* program once; programs with their IPC buffer and stack, and the scratch *)
(* area with all it will take, are below the kernel's half.                *)
ASSUME VspaceAssumption ==
  /\ BootPages \in Seq(Nat)
  /\ \A i, j \in DOMAIN BootPages :
       /\ BootPages[i] \in PageBytes..(UserEnd - 1)
       /\ i # j => BootPages[i] \div PageBytes # BootPages[j] \div PageBytes
  /\ TableAddrs \subseteq 0..(UserEnd - 1) /\ PageAddrs \subseteq PageBytes..(UserEnd - 1)
  /\ HugeAddrs \subseteq PtSpan..(UserEnd - 1) /\ Budgets \subseteq Nat
  /\ StackPages \subseteq Nat \ {0} /\ MaxSpawns \in Nat
  /\ \A prog \in Programs :
       /\ prog \in Seq([vaddr : Nat, memsz : Nat \ {0}]) /\ prog # <<>>
       /\ \A i \in DOMAIN prog : IsUser(prog[i].vaddr, PagesOf(prog[i]))
       /\ IsUser(IpcAddr(prog), 1)
       /\ \A n \in StackPages : IsUser(StackAddr(prog), n)
  /\ Programs # {} =>
       \E most \in {PagesBefore(prog, Len(prog)) : prog \in Programs} :
         /\ \A prog \in Programs : PagesBefore(prog, Len(prog)) <= most
         /\ IsUser(ScratchStart, MaxSpawns * most)

(* The program exits or the machine halts, in the middle of spawn_thread.  *)
Stopped == <<[op |-> "stopped"]>>

(* create_buffer out of have pages: all of its frames are made, or none.   *)
CreateFrames(frames, have) ==
  IF Len(frames) <= have
    THEN left' = have - Len(frames) /\ empty' = empty
    ELSE left' = have /\ empty' = empty \cup {frames[j] : j \in DOMAIN frames}

(* TCB, root table and IPC buffer.  The TCB takes half a page, but what is *)
(* made next is aligned to a page.                                         *)
ThreadPages == 3

(* spawn_thread: the new objects, then the steps left to do. *)
SpawnThread(prog, stack_pages) ==
  LET root  == next
      ipc   == next + 1
      stack == [j \in 1..stack_pages |-> next + 1 + j]
      first == next + 2 + stack_pages
      pages == PagesBefore(prog, Len(prog))
  IN  /\ booting = <<>> /\ todo = <<>>
      /\ Len(tcbs) < MaxSpawns
      /\ left >= ThreadPages
      /\ CreateFrames(stack, left - ThreadPages)
      /\ mem' = WithTable(mem, root)
      /\ next' = first + pages
      /\ mappable_addr' = mappable_addr + pages * PageBytes
      /\ todo' = SegmentJobs(prog, root, first)
                 \o <<MapJob("map", root, <<ipc>>, IpcAddr(prog)),
                      MapJob("map", root, stack, StackAddr(prog)),
                      [op |-> "configure", root |-> root, ipc |-> ipc, stack |-> stack,
                       prog |-> prog]>>
      /\ UNCHANGED <<data, booting, level, tcbs, raw>>

(* With less memory the IPC buffer, the stack and the first segment's      *)
(* buffer are not made, and that segment is copied to address 0.           *)
SpawnDoomed ==
  /\ booting = <<>> /\ todo = <<>>
  /\ Len(tcbs) < MaxSpawns /\ Programs # {}
  /\ left < ThreadPages
  /\ empty' = empty \cup {next}
  /\ todo' = Stopped
  /\ UNCHANGED <<mem, next, data, booting, mappable_addr, level, tcbs, raw, left>>

Job == Head(todo)
InMapPage == todo # <<>> /\ Job.op \in {"scratch", "map"}

(* create_buffer of map_phdr. *)
CreateBuffer ==
  /\ todo # <<>> /\ Job.op = "create"
  /\ CreateFrames(Job.frames, left)
  /\ todo' = <<MapJob("scratch", Job.root, Job.frames, Job.addr)>> \o Tail(todo)
  /\ UNCHANGED <<mem, next, data, booting, mappable_addr, level, tcbs, raw>>

(* The buffer's remaining pages; after the last one the next job. *)
PageDone == IF Len(Job.frames) = 1 THEN Tail(todo)
            ELSE <<MapJob(Job.op, Job.root, Tail(Job.frames), Job.addr + PageBytes)>>
                 \o Tail(todo)

(* map_buffer gives up and spawn_thread does not notice, except that the   *)
(* copy goes to address 0 when the scratch mapping failed.                 *)
BufferFailed == IF Job.op = "scratch"
                  THEN <<[todo[2] EXCEPT !.addr = 0]>> \o Tail(Tail(todo))
                  ELSE Tail(todo)

(* map_page asks for the page. *)
TryPage ==
  LET r == IF Head(Job.frames) \in empty THEN illegal_operation(mem)
           ELSE x86_64_page_map(mem, Head(Job.frames), Job.root, Job.addr)
  IN  /\ InMapPage /\ level = 0
      /\ mem' = r.mem
      /\ level' = r.level
      /\ todo' = CASE r.err = "NO_ERROR"      -> PageDone
                   [] r.err = "FAILED_LOOKUP" -> todo
                   [] OTHER                   -> BufferFailed
      /\ UNCHANGED <<next, data, booting, mappable_addr, tcbs, raw, left, empty>>

TableMap(lvl, frame, root, addr) ==
  CASE lvl = 3 -> x86_64_pdpt_map(mem, frame, root, addr, InitVspace)
    [] lvl = 2 -> x86_64_pd_map(mem, frame, root, addr)
    [] lvl = 1 -> x86_64_pt_map(mem, frame, root, addr)

(* map_page makes the table it was told is missing, and asserts that it    *)
(* could be mapped: otherwise the program exits in the middle of its work. *)
MakeTable ==
  LET r == TableMap(level, next, Job.root, Job.addr)
  IN  /\ InMapPage /\ level # 0 /\ left > 0
      /\ mem' = WithTable(r.mem, next)
      /\ next' = next + 1
      /\ level' = 0
      /\ left' = left - 1
      /\ todo' = IF r.err = "NO_ERROR" THEN todo ELSE Stopped
      /\ UNCHANGED <<data, booting, mappable_addr, tcbs, raw, empty>>

(* The table is not made, and the assertion fails on its empty slot. *)
NoTable ==
  /\ InMapPage /\ level # 0 /\ left = 0
  /\ empty' = empty \cup {next}
  /\ level' = 0
  /\ todo' = Stopped
  /\ UNCHANGED <<mem, next, data, booting, mappable_addr, tcbs, raw, left>>

(* memcpy of a segment through its scratch mapping; where that is missing, *)
(* a page fault halts the machine.                                         *)
CopySegment ==
  LET frame(j) == resolve_vm_mapping(mem, InitVspace, Job.addr + (j - 1) * PageBytes)
      n == PagesOf(Job.prog[Job.seg])
      mapped == \A j \in 1..n : frame(j) # 0
      page(f) == [prog |-> Job.prog, seg |-> Job.seg,
                  page |-> CHOOSE j \in 1..n : frame(j) = f]
  IN  /\ todo # <<>> /\ Job.op = "copy"
      /\ data' = IF mapped THEN [f \in {frame(j) : j \in 1..n} |-> page(f)] @@ data ELSE data
      /\ todo' = IF mapped THEN Tail(todo) ELSE Stopped
      /\ UNCHANGED <<mem, next, booting, mappable_addr, level, tcbs, raw, left, empty>>

(* tcb_configure and tcb_write_registers.  The three capabilities that are *)
(* copied exist, and the TCB is new: no copy finds its slot in use.        *)
Configure ==
  /\ todo # <<>> /\ Job.op = "configure"
  /\ tcbs' = Append(tcbs, [vspace_root |-> Job.root, ipc_buffer |-> Job.ipc,
                           stack |-> Job.stack, prog |-> Job.prog,
                           r15 |-> IpcAddr(Job.prog),
                           rsp |-> StackAddr(Job.prog) + Len(Job.stack) * PageBytes])
  /\ todo' = Tail(todo)
  /\ UNCHANGED <<mem, next, data, booting, mappable_addr, level, raw, left, empty>>

-----------------------------------------------------------------------------
(* The first program maps something by hand, between two spawns, into its  *)
(* own vspace or a program's, out of another untyped; the result, an error *)
(* or not, is ignored.                                                     *)
Roots == {InitVspace} \cup {tcbs[i].vspace_root : i \in DOMAIN tcbs}

MapByHand(m) ==
  /\ booting = <<>> /\ todo = <<>>
  /\ raw < MaxRaw
  /\ raw' = raw + 1
  /\ mem' = m
  /\ next' = next + 1
  /\ UNCHANGED <<data, booting, mappable_addr, todo, level, tcbs, left, empty>>

MapTable(lvl, root, addr) ==
  MapByHand(WithTable(TableMap(lvl, next, root, addr).mem, next))

MapPage(root, addr) == MapByHand(x86_64_page_map(mem, next, root, addr).mem)

MapHugePage(addr) == MapByHand(x86_64_huge_page_map(mem, next, InitVspace, addr).mem)

Spawning == CreateBuffer \/ TryPage \/ MakeTable \/ NoTable \/ CopySegment \/ Configure

Next == \/ BootMap
        \/ \E prog \in Programs, n \in StackPages : SpawnThread(prog, n)
        \/ SpawnDoomed
        \/ Spawning
        \/ \E lvl \in 1..3, root \in Roots, addr \in TableAddrs : MapTable(lvl, root, addr)
        \/ \E root \in Roots, addr \in PageAddrs : MapPage(root, addr)
        \/ \E addr \in HugeAddrs : MapHugePage(addr)

(* A thread that can run does run: nothing else uses the CPU. *)
Spec == Init /\ [][Next]_vars /\ WF_vars(Spawning)

-----------------------------------------------------------------------------
UserPages == {i * PageBytes : i \in 0..((Radix \div 2) * Radix * Radix * Radix - 1)}

(* The user addresses outside the huge pages. *)
UserAddrs == {a \in UserPages :
                \A h \in HugeAddrs : a \div (PageBytes * Radix) # h \div (PageBytes * Radix)}

At(root, addr) == resolve_vm_mapping(mem, root, addr)

(* What is mapped stays mapped to the same frame, whatever is mapped       *)
(* later, tables included (obj/page.c: the checks of each map method).     *)
MappingsStable ==
  [][\A root \in Roots, addr \in UserAddrs :
       At(root, addr) # 0 => At(root, addr)' = At(root, addr)]_vars

Frames(root) == {At(root, addr) : addr \in UserAddrs} \ {0}

(* Page j of the stack of t, counted from its lower end, is mapped. *)
StackPageMapped(t, j) ==
  At(t.vspace_root, t.rsp - (Len(t.stack) - j + 1) * PageBytes) = t.stack[j]

(* However little memory there was, a program that was started has what    *)
(* spawn_thread cannot do without: in its vspace every page of its         *)
(* segments holds what was copied for it, its IPC buffer is the frame its  *)
(* TCB names, its stack reaches down from rsp unless it was never made     *)
(* (exec.c:92: map_buffer's error is not looked at),                       *)
(* the kernel is mapped, and no other started program has a frame of its.  *)
SpawnedProgramsRun ==
  \A i \in DOMAIN tcbs :
    LET t == tcbs[i]
    IN  /\ \A s \in DOMAIN t.prog : \A j \in 1..PagesOf(t.prog[s]) :
             LET f == At(t.vspace_root, t.prog[s].vaddr + (j - 1) * PageBytes)
             IN  f \in DOMAIN data /\ data[f] = [prog |-> t.prog, seg |-> s, page |-> j]
        /\ \A s \in DOMAIN t.prog :
             At(t.vspace_root, t.prog[s].vaddr + t.prog[s].memsz - 1) # 0
        /\ At(t.vspace_root, t.r15) = t.ipc_buffer
        /\ \A j \in DOMAIN t.stack : StackPageMapped(t, j) \/ t.stack[j] \in empty
        /\ \A e \in KernelHalf : mem[t.vspace_root][e] = mem[InitVspace][e]
        /\ \A j \in DOMAIN tcbs \ {i} :
             Frames(t.vspace_root) \cap Frames(tcbs[j].vspace_root) = {}

(* Every spawn comes to its end, unless memory runs out: map_page asks for *)
(* one table after the other from the top down and none of its assertions  *)
(* fails (lib.c).                                                          *)
SpawnsEnd == todo # <<>> ~> todo = <<>> \/ empty # {}

=============================================================================
