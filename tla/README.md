# A verification project for untitled-bare-metal

The program is a small capability-based microkernel for x86-64 in the style of
seL4, with a library and a few user programs. This directory holds TLA+ modules
that model its kernel, TLC configurations that check them on small instances,
and TLAPS proofs for instances of any size.

Run a check with `tlc -config KernelIpc.cfg MCKernel`, a proof with
`tlapm KernelProofs.tla`. `PROJECT.json` lists every run with its properties, the
source lines behind each definition, the mutants and the theorems.

## Inventory

| Part | Source | State | Operations | What makes it correct |
|---|---|---|---|---|
| Scheduler | kern/obj/tcb.c | thread states, run list, current and chosen thread of the CPU | schedule, schedule_tcb, switch_tcb, suspend, resume, kill, return_from_kernel_code | no thread is lost or linked twice, the CPU idles only without work |
| Endpoints | kern/obj/endpoint.c | queue of blocked senders or receivers, reply_to, expects_reply | send, call, receive, reply, reply-receive and the non-blocking forms | queues match thread states, replies reach the caller and come from its server |
| Notifications | kern/obj/notification.c | word of pending badges, queue, bound thread | signal, wait, bind | no lost wakeup, no lost badge |
| Interrupts | kern/obj/irq.c, ioapic.c | handler table, mask bits | get, set_notification, ack, clear, handle_irq | a line in service is masked |
| Entry | kern/syscall.c, entry.c, ints.c | big kernel lock | one system call or interrupt at a time | every entry ends in return_from_kernel_code |
| Capabilities | kern/cdt.c, untyped.c, cnode.c | slots with type, badge, rights, links | copy, mint, retype, delete, revoke | revocation is complete, exact and ends; rights never grow |
| Lists | include/list.h | ring of pointers | append, remove, pop | the ring is the intended sequence |
| Spin lock | lib/spin_lock.c | two counters | lock, unlock | exclusion, order of service |
| Dispatch | syscall_dispatch.c, user_method_stubs.h (generated) | IPC buffers | type, length and capability checks in front of each method | the two files agree; no handler acts on a left-over word |
| Memory | kern/alloc.c, boot.c, obj/untyped.c, lib/cptr_alloc.c, lib/sort.c | regions, untyped watermarks, slots, the slot bitmap | cut, take pages, hand out, retype, allocate slots | every unit of memory and every slot has one owner |
| Address spaces | mmu.c, obj/page.c, lib/exec.c, lib/lib.c | page tables | map at boot, map tables and pages, spawn | a spawned program finds its memory and nobody else's, however much there is; mappings stay |
| Serial line | user/serial_driver.c, userland.c | driver buffer, UART and its line, two notifications | interrupt, read, write, wait | a byte stream; what is not fetched is accounted for; the CPU comes to rest |
| PCI manager | user/pci_manager.c, obj/io_port.c | configuration space, address latch | read, write, device info, enumerate, issue | answers what was asked |

Interactions: a thread enters the kernel by a system call that names a
capability; endpoint and notification operations change thread states and call
the scheduler; interrupts signal notifications; the choice of the next thread
takes effect in `return_from_kernel_code`, the common way out. Retype creates
the objects that the other parts work on. User programs reach all of this
through the stubs, and talk to each other through endpoints with the one IPC
buffer each of them has.

What is hard here: the steps of several threads and devices interleave at
system call granularity; a thread can be woken by a message, a reply, a signal
or an interrupt, and each path must leave every queue consistent; the reply
relation is kept in two flags that outlive the call; deleting and revoking
recurse over a list that they change; CPUs compete for locks whose counters
wrap; a server's own system calls overwrite the message it is serving;
`map_page` is a conversation with the kernel of several calls, and memory may run
out in any of them; an interrupt, its acknowledgement and the bytes behind it are
ordered only by the mask bit, on a line whose edges are dropped while it is set.

## Modules

| Module | Models |
|---|---|
| `Lists` | the list operations as operators on sequences |
| `IntrusiveList` | the same operations on pointers, with the sequences as ghost |
| `Tcb` | kernel memory as one record; the functions of tcb.c |
| `Notification`, `Endpoint`, `Irq` | the functions of their C files |
| `Kernel` | composes the four: one action per system call, TCB or IRQ method, and the interrupt |
| `Cdt` | capabilities, derivation list, retype |
| `SpinLock` | the ticket lock |
| `Dispatch` | every method: what the stub writes and what the kernel reads and checks |
| `PciManager` | a client that invokes methods and asks the PCI manager; the manager's handlers as sequences of its own method calls over `Dispatch` |
| `Regions`, `CptrAlloc`, `QSort`, `Untyped` | the algorithms of alloc.c, cptr_alloc.c, sort.c and untyped.c as operators |
| `Memory` | composes these four: boot loader map, kernel pages, untyped capabilities, the first program's allocations |
| `PageTables` | the four levels, the kernel's mapping function and the map methods |
| `Vspace` | boot mappings, `spawn_thread` with `map_page` call by call, maps made by hand |
| `ByteStream` | abstract: what the serial line promises |
| `Serial` | driver, client and UART as programs that run on `Kernel` |
| `MC*` | instances for TLC |
| `*Proofs` | theorems |

In `Tcb`, `Notification` and `Endpoint` an operator is a C function: it maps the
kernel memory before the call to the memory after it. An action of `Kernel` is a
whole kernel entry, `return_from_kernel_code` included, because a system call
holds the big kernel lock and runs with interrupts masked. A failed assertion, a
fault, a debug trap, or linking a node that is linked already stops the CPU:
`k.panic` tells why. `server` (which thread took a call) and `Cdt`'s `ancestors`
are history variables; the code has no counterpart.

Abstractions: messages are reduced to the badge; a badge is a set of bits; every
thread can name every object; failed capability lookups, which change nothing,
are left out; objects made by retype have size one. In `Cdt` the root untyped
names physical memory and objects the direct map, as in the code, so an untyped
is never the parent of what was retyped from it.

`delete_cap` and `revoke_cap` call each other; their C stack is the variable
`stack` and each loop round is a step, which makes the intermediate states of
the recursion visible to the invariants.

In `Dispatch` a method is one row of each of two tables: the parameters in the
order in which the stub stores them, and in the order in which the kernel loads
them, with the counts each side uses. What a handler then does is in the module
of its object. Every lookup starts at the root of the thread's cspace, which
`tcb_configure` takes as it is: a root that is no CNode refuses them all.
`PciManager` runs the manager's port accesses through the same tables, so that
each one overwrites the buffer which holds the request. Configuration space is
bytes; `lanes` says whether the host bridge uses the two low bits of an address,
which are reserved (QEMU's does).

A step of `Serial` is one system call of the running thread with the code that
follows the call before it, or an interrupt, or a byte typed, or the UART's timer.
The UART requests an interrupt when its FIFO holds as many bytes as the trigger
level says (14, by FIFO_CONTROL), or fewer for a while; the I/O APIC takes a
request when it rises and the line is open (ioapic.c:84 programs it so), and
drops it when the line is masked. `RaiseAgain` is QEMU's UART, which sets its line
again on a later byte or access. `missed` is history: the request rose between the
driver's last look at the line status and its acknowledgement.

`Vspace` keeps the rest of the running `spawn_thread` as a list of jobs; between two
calls of `map_page` it remembers which table was reported missing. The untyped
given to `spawn_thread` has some number of pages. A retype that finds too little
leaves its slots empty, `allocate` returns them all the same, and what happens
then depends on where: a buffer that `map_buffer` cannot map is skipped, a table
ends in an assertion, a segment is copied to address 0 and halts the machine.

### The contract

The kernel does not check some things its clients must not do. `Next` in
`Kernel` is the kernel under arbitrary threads; `ClientNext` adds the clauses
under which the kernel works, and the safety runs check that they suffice:

* a server answers a call before it receives or calls again, and only replies
  when it owes a reply;
* only the bound thread waits on a bound notification, and it waits on no other;
* a thread is bound once, while the notification has no waiters, and not while
  it is blocked in a receive and the notification has a pending word;
* a thread is resumed only when it is inactive, and suspended only while it is
  on the run list;
* a handler is attached while its line is not in service;
* non-blocking sends, which always panic, are not used.

For `Cdt`: nobody copies empty slots or untypeds, retype gets empty slots and
makes no untypeds, and the root untyped is neither deleted nor revoked. Copying
an empty slot is excluded because it links two empty slots, after which deleting
an empty slot is not the no-op that user/cdt_test.c:246 expects.

`Serial` shows that the repository's own driver and client keep the contract of
the kernel: `KeepsContract` is `Kernel`'s `ClientSpec` as a property of the
composed system. Run nested_call drops the first clause and fails.

The other modules have contracts of their own:

* `PciManager`: no more than 64 functions; the low byte of a badge is 0.
* `Memory`: memory is cleared at the start, usable entries of the map are apart
  and do not hold page 0, device memories are apart, the kernel does
  not need the last region while it boots, devices leave a free slot, and the
  sizes requested are sensible (`size_bits` at most 29). `1 << j` in `cptr_alloc`
  wraps at the width of an int, as x86 does. `Spec` is any program under these;
  `ClientSpec` adds `MayAllocate`: an object is no larger than the untyped it is
  made from, and that untyped is not a device's. Without it `ObjectsDisjoint` is
  false: `available_memory` is unsigned and wraps (see below). Neither memory nor
  slots need suffice.
* `Vspace`: user addresses of spawned programs lie under PML4 entry 0, every
  program has a segment with data, no two segments share a page, page 0 of the
  first program is not mapped, nothing is mapped below a huge page, and the
  scratch area is left to `map_buffer_to_mappable_space`. A thread is configured
  once, when it is new. Memory need not suffice. The assumption
  `VspaceAssumption` states the part that `MappingsAreStable` needs: the kernel
  maps each page of the first program once; segments, IPC buffers, stacks and the
  scratch area of all `MaxSpawns` programs end below the kernel's half.
* `Serial`: nothing is typed before the driver has attached its handler, a sender
  waits while the FIFO is full, and a byte written has left the UART before the
  next (the driver does not look). A message longer than `write_uart`'s copy ends
  the behaviours, because what follows is undefined; a full buffer does not.

## Runs

| Run | Instance | States | Shows |
|---|---|---|---|
| kernel_ipc | 4 threads, 1 endpoint | 174 198 | run list, queues, CPU, reply relation stay exact; nothing panics |
| kernel_signals | 2 threads, endpoint, 2 notifications, line | 916 564 | signals, messages and interrupts racing for one blocked thread, waiting, idling |
| lists | 2 lists, 4 nodes | 536 | pointers implement sequences |
| ticket_lock | 3 CPUs, width 5 | 1 416 | exclusion, order, no starvation |
| cdt | 5 slots, 2 types, 2 objects, 1 badge, 1 right | 1 109 091 | links, derived runs, completeness, rights, recursion, termination |
| dispatch | all 32 methods, 51 requests, 2 turns | 119 675 | stubs and dispatch agree, no stale argument, the manager answers what was asked |
| memory | 3 maps, 4 device sets, 3 kernel pages, 3 allocations | 17 896 | memory and slots have one owner, the table is sorted |
| vspace | radix 4, 2 programs, 2 spawns, 2 maps by hand, 5 amounts of memory | 82 634 | programs that are started can run, mappings stay, spawning ends |
| serial | 2 threads, 4 bytes typed, greeting of 2, buffer of 3, copy of 2, trigger 2 | 39 923 | byte stream, bytes fetched or accounted for, contract kept, the CPU rests |

Why these bounds: the reply relation needs a caller, a server, a second caller
and a bystander; a bound notification needs a thread that is bound and one that
signals; two badge values are the empty set and one bit. A derivation run needs
an original, a minted original below it, its copy and a neighbour. Lock counters
of width five wrap several times and leave free numbers between the CPUs. Two
turns of the dispatch are a call that leaves words behind and one that must not
see them; every method meets every other one. The maps have odd and even starts
and lengths, a hole, and an entry more than the kernel takes; words of four bits
make slot runs cross words. With tables of four entries the programs, the
scratch area and the stack cross table boundaries at every level below the PML4.
The amounts of memory let every step of `spawn_thread` that allocates be the one
that fails, and one suffices. The requests to the PCI manager include offsets that
are not aligned and accesses that cross a register, on host bridges of both
kinds. The fourth byte overfills the driver's buffer and the third overruns
`write_uart`'s copy; bytes arrive at every point of the driver's loops, below and
at the trigger level.
`kernel_ipc` and `kernel_signals` use symmetry in the threads where the runs have
no liveness property; runs with one use none.

Deadlock is not checked in most runs: threads may all have exited or be blocked,
a halted CPU does nothing, and the bounds on calls and bytes are ends as well.

Fairness: `SpinLock` assumes that a spinning CPU keeps testing and that a
section ends, which `do_syscall` guarantees on its only way out; nobody is
assumed to ask for the lock. `Cdt` assumes that a running `delete_cap` or
`revoke_cap` goes on, as uninterrupted kernel code does. `Vspace` assumes that
the first program, the only thread at that time, goes on with the spawn it is
in. `Serial` assumes that the thread the CPU runs goes on, that an interrupt
which stays pending at the CPU is taken, and that the UART's timer runs out
while bytes wait in the FIFO; nobody has to type, and nothing is assumed of
`RaiseAgain`. No fairness is assumed between threads: the run list is last in,
first out, and the code promises none.

## Disagreements between the code and what it says

Each is a run in which TLC finds the property violated.

* **nested_call** - a thread's `expects_reply` stays set after its call, so when
  it later replies, `transfer_message` overwrites `reply_to` of the thread it
  answers. If that one is itself a server in a nested call, it can no longer
  answer and the CPU halts ("Failed to deliver reply!", endpoint.c:278).
* **over_revoke** - `is_child_cap` does not compare objects, so revoking one
  endpoint takes a neighbouring endpoint with it, against the comment above it.
* **pci_issue** - `handle_issue` ("in: [addr]", "out: cap") mints with register 1
  after `cnode_delete` has overwritten it: each capability is badged 64.

Further observations made while modelling, which no run states:

* `untyped_retype` subtracts unsigned numbers: an object larger than its untyped,
  once that is in use, passes the check that is to print "not enough memory to
  make ..." (obj/untyped.c:67-77) and lies behind the untyped.
  `ObjectsDisjoint` is therefore false under `Spec` and checked under `ClientSpec`;
* `spawn_thread` does not look at what `map_buffer` returns and reports success
  for a program that has no stack (exec.c:92). `SpawnedProgramsRun` exempts
  exactly that: everything else is there in every program that is started. It
  takes a stack of at least five pages; with the default of four, what is made
  after the stack needs as much and fails as well, in an assertion of `map_page`
  or in the copy of a segment to address 0, where the page fault halts the
  machine;
* `handle_device_info` ("in: [pci_address]") is the one handler of the PCI manager
  that does not check its length (pci_manager.c:58): without words it answers for
  an address that an earlier message left in register 0. `PciAnswersRequest` says
  of such a request only that it changes nothing;
* a wait on a notification bound to another thread kills the waiter and then
  queues it all the same (notification.c:84-97); the contract excludes it;
* `tcb_suspend` of oneself returns (tcb.c:64), while `halt_forever` in
  user/userland.c:61 is `[[noreturn]]` because of it;
* a wait that finds a pending word clears it without storing it
  (notification.c:95); lib.c's `wait` then hands out the badge of an older
  message. The one caller in the repository ignores it;
* the driver signals its reader without a badge, so a signal that comes before
  the wait is lost and its bytes stay in the driver's buffer until the next byte
  is typed. `NothingStuck` says exactly this much;
* a byte that arrives between the driver's last look at the line status and its
  acknowledgement (serial_driver.c:93-104) finds the line masked, and the edge is
  dropped. The request stays up, so a UART that raises its line once is silent
  until the FIFO is read; QEMU's raises it again with the next byte or access.
  `NothingStuck` and `BytesAreFetched` say that this is the only way (`missed`);
* `handle_irq` of the driver does not end when its buffer is full and the UART
  holds a byte (`BufferFull`); a message of more than 128 words overruns
  `write_uart`'s copy (`Overrun`); the transmitter is written without looking
  whether it is empty;
* when slots run out `cptr_alloc_range` returns the largest word, `allocate` does
  not look, the range check of `untyped_retype` wraps and an assertion halts the
  kernel (obj/untyped.c:85; `halted` in `Memory`);
* the PCI manager puts unaligned offsets into reserved bits of the configuration
  address, which QEMU's host bridge uses and others need not;
* `x86_64_pdpt_map` copies the kernel half relative to the entry it maps, right
  only for entry 0 (obj/page.c:50);
* the port methods check one byte whatever their width (obj/io_port.c:41);
* the calls of `msg_truncated_message` have expected and provided exchanged;
* deleting the PCI manager's previous capability revokes the client's copy of it;
* `spawn_cdt_test` copies an untyped (userland.c:214): the two have separate
  watermarks over the same memory;
* `regions` has 64 entries and `allocate_aligned_regions` does not count them.

## Refinement

* `Serial!IsByteStream`: the composition of kernel, driver, client and UART
  implements `ByteStream` (`INSTANCE ByteStream`; the histories of bytes in and
  out are its variables, every other step stutters).
* `Serial!KeepsContract`: the same composition implements `Kernel`'s
  `ClientSpec`, so what is checked and proved under the contract holds for it.
* `IntrusiveList!Represents`: the pointer rings implement the sequences that
  `Tcb`, `Endpoint` and `Notification` use.

## Proofs

All proofs are checked by `tlapm` down to the last leaf, for every value of the
constants that satisfies the named assumptions.

### Kernel

* `KernelProofs!TypeCorrect`: `Spec => []TypeOK`, for arbitrary threads, and
  `ClientTypeCorrect`, the same under the contract. One lemma per C function
  says that it maps well-typed memory to well-typed memory; one step per action
  puts them together. Assumes the object sets are disjoint from Null.
* `KernelProofs!ServiceIsMasked`: `ClientSpec => []InServiceMasked`, inductive
  on top of the types.
* `KernelProofs`, its second part: every other safety property of the two kernel
  runs, under the contract and for any number of threads, endpoints, notifications
  and lines: `RunListExact`, `CpuConsistent`, `QueuesExact`,
  `QueuesHomogeneous`, `NoLostWakeup`, `CallersAnswerable`, `NeverPanics` and the
  action properties `DeadStaysDead` and `ReplyFromServer`.

  None of these is inductive alone: that a queue has no duplicates needs that
  states match queues, which needs that a caller which is served is in no queue,
  which needs that its server cannot be sent to. The invariant `Resting` is the
  conjunction of such parts. It does not hold inside a kernel entry, where the
  next thread is chosen but not yet running, so the proof has a second one,
  `Leaving`: each C function called on `Resting` memory gives `Leaving` memory
  (or `Choosing`, before anybody is chosen), and `return_from_kernel_code` gives
  `Resting` memory again. `KernelNeverPanics` is the sum of it: no assertion,
  fault or double link in any of the functions is reachable.

### Lists and lock

* `IntrusiveListProofs!ListsImplementSequences`: the rings of pointers are the
  sequences. The invariant is `TypeOK /\ Represents /\ OnOneList`: that a
  relinked neighbour is the right one (`Represents`) needs that no pointer
  occurs twice in any ring (`OnOneList`, theorem `NodesStayOnOneList`), and that
  a node can be linked safely needs that pointers tell whether it is on a list.
* `SpinLockProofs!LockSafe`, `TicketsCountUp`, `ServedInOrder`: exclusion and
  order of service. The invariant `TicketsInOrder` says that the tickets of the
  waiting CPUs count up from `front` to `back`; they are different because there
  are no more CPUs than ticket numbers, a pigeonhole argument over the queue.

### Capabilities

* `CdtProofs!LinksStayConsistent`: `next` and `prev` stay inverse and empty
  slots unlinked, also in the middle of a recursion. Inductive with the types.
* `DerivedCapsFollow`, `NoRightIsGained`: what was derived from a capability is
  the run behind it that `revoke_cap` walks, and no chain of derivations gains a
  right. The invariant `DInv` adds that there are numbers for the slots which
  increase along `next` (`Ordered`: the list has no cycle) and that empty slots
  and untypeds are neither originals nor derived (`Underived`).
* `RecursionIsBounded`, `RevocationIsComplete`: the slots on the C stack have
  increasing numbers as well, so no slot is entered twice; when the call
  returns, a derived slot that was left would be in the run, and the one with
  the least number would be the slot behind the capability, which is not.

### Method dispatch

* `PciManagerProofs!StubsReachHandlers`, `ArgumentsAreFresh`: the two generated
  tables agree row by row (one lemma per table), each row reads distinct
  registers within the length it checks; for whatever the buffer held before,
  the stub's stores and the kernel's loads then fit together. The invariant says
  what shape the IPC buffer has after any sequence of calls and replies.

### Memory

* `MemoryProofs!MemoryHasOneOwner`: `Spec => []MemoryPartitioned`, for every
  memory map, CNode and set of devices that satisfies `MemoryAssumption`: usable
  entries are apart and do not hold page 0, device memories fit where they are
  put. Cutting an extent is a recursion over its pages; that the recursive
  function exists, and that it returns aligned regions in ascending order, is
  proved by the least counterexample. `alloc_page` then takes pages from regions
  that are not handed out, and capabilities are made of regions that are not the
  kernel's. The contract enters where the kernel does not need the last region
  while it boots: otherwise `create_init_untyped_caps` runs on to the entry
  behind it.
* `MemoryProofs!SlotsAreEmpty`: `Spec => []SlotsWereEmpty`. Every slot that is
  not empty is marked in the bitmap, and what `cptr_alloc` and
  `cptr_alloc_range` return is clear. For `cptr_alloc`, whose `1 << j` wraps at
  the width of an int, that holds because the first `j` that fits is smaller
  than that width: a larger one names the same bits as `j - IntBits`.
  Both theorems share the invariant `MInv` and need nothing of `qsort` but that
  it returns as many entries as it gets.
* `MemoryProofs!ObjectsAreDisjoint`: `ClientSpec /\ []SortedBySize =>
  []ObjectsDisjoint`. No two objects the first program makes share memory,
  unless one is an untyped and the other lies in it; each is aligned to its size
  and lies in an untyped the program was given. The two theorems before are
  about any program; this one needs the clause on the untyped's size, without
  which it is false. The hypothesis is the property of `qsort` that run memory
  checks and that is an induction over data. The proof needs the part of it that
  the sorted table still names the untypeds the program was given.

  The invariant `Divided` speaks of what is left of each untyped, the part
  behind its watermark: it lies outside every object and outside what is left of
  every other untyped, save that an untyped object contains what is left of the
  capability to it. Each retype takes its objects from what is left and moves the
  watermark past them. The arithmetic is in the lemmas `SizesDivide`,
  `AlignUp`, `RetypeFits` and `PieceOf`: sizes are powers of two, so the smaller
  divides the larger, so aligning the watermark up never passes the end of an
  untyped that is at least as large as the object, so the unsigned difference in
  `available_memory` never wraps. Assumes that a page is a power of two times the
  smallest object, from 4 to 256 (256 in the machine), and that no request has
  `size_bits` above 29. `Regions` knows blocks of up to 2^20 pages, so that an
  untyped has at most 2^28 units and a larger request is refused.

### Serial

* `SerialProofs!SerialKeepsContract`: `SerialSpec => KeepsContract`. The
  repository's own driver and client never leave the contract of the kernel,
  whatever is typed and whenever the interrupts come.
* `SerialIsByteStream`: `SerialSpec => IsByteStream`, the refinement of the
  abstract stream: every byte that leaves is the next one due.
* `SerialNeverStuck`: `SerialSpec => []NothingStuck`, and `SerialIsSafe`, which
  composes `SerialKeepsContract` with the theorems about `Kernel`: the composed
  system never panics, loses no wakeup and masks every line in service.

  All follow from the invariant `SerialInv` (theorem `SerialIsInvariant`).
  `ModeInv` names the nine situations driver and client can be in as the kernel
  sees them (who runs, who is queued where, who waits for whose answer) and ties
  them to the program counters and the contents of the IPC buffers. `LineInv`
  says that the line is in service, and masked, exactly while the badge is
  pending in the notification or the driver is serving it, and that a request of
  the UART which is up is pending at the CPU, or will be seen by a look at the
  line status that is still to come, or was missed; `NothingStuck` is its
  consequence. `FlowInv` gives every buffer between the keyboard and the output
  its window of the bytes that were typed: what has left, what is in a message or
  in `write_uart`'s copy, what the client holds, what the driver holds, what the
  UART holds, in this order and without gaps.

  The proof has three layers: what each kernel entry does in each situation
  (from `SendToDriver` to `IrqWakes`), how each move of bytes shifts the windows
  (`FlowEmits` to `FlowStays`), and one lemma per action that combines the two.
  It holds for any greeting, any bytes and any function to capitals on them, for
  any number of bytes typed, trigger level and size of the FIFO, the driver's
  buffer and `write_uart`'s copy. With the sizes of the code (256 and 128) the
  copy can be too small; the theorems speak of the behaviours up to that message.

### Vspace

* `VspaceProofs!MappingsAreStable`: `Spec => MappingsStable`. For tables and
  pages of every size and every set of programs and addresses that keeps to
  `VspaceAssumption`, and for any amount of memory, a user address that is
  mapped stays mapped to the same frame in every vspace. Addresses in a huge
  page are left out, as in the property: the model enters a huge page where a
  page table would be.

  A walk reads four entries, so the property is about four writes at once and is
  not inductive. The invariant (`VspaceInvariant`, theorem `TablesAreTrees`) gives
  every table a place: its level and the indices that lead to it. `Tree` says
  that a present entry names the table of the place below, or lies in the
  kernel's half, or is a huge page; so a walk to an address ends in the page
  table of that address (`WalkDown`), two addresses whose walks agree are in the
  same page (`SameWay`), and a map method writes one entry of its level on the
  way, which was zero (`PdMap`, `PtMap`, `PageMap`, `TableMapped`). Frames handed
  out are fresh, so a new table is in no tree. `Keeps` is what follows for the
  entries, `MappingKept` for the walks. At boot `add_vm_mapping` replaces what is
  there; the invariant adds that the pages still to be mapped are not mapped
  (`BootMapped`). `Jobs` is the part about `spawn_thread`: the jobs left are well
  formed, their addresses are the user's, and the scratch area has room for the
  programs still to be started.

### What is only model-checked

* Liveness (`NoStarvation`, `RevocationTerminates`, `SpawnsEnd`, `BytesAreFetched`,
  `ComesToRest`): out of the prover's reach.
* `SortedBySize`: what `qsort` returns for every input is an induction over
  data.
* `PciAnswersRequest`: the answer is folded over the functions enumerated, again
  an induction over data.
* `SpawnedProgramsRun`: it relates what each finished job mapped to what the
  program needs, which `VspaceInvariant` does not record; `MappingsAreStable` is
  the half of it that says that later steps do not undo it.

## Plan

1. `SpawnedProgramsRun` as a theorem: an invariant that says, job by job, which
   pages are mapped and filled, on top of `MappingsAreStable`.
2. Several CPUs over `Tcb` and `SpinLock`, and capability transfer in messages,
   which composes `Cdt` and `Endpoint`.

## Not modelled

Formatting and printing, the stream cipher and random numbers, ELF and tar
parsing, descriptor tables, assembly stubs and device registers have no state
shared between actors or are hardware configuration. The code generator and
build files produce the program and are not part of it.

Application processors enter `schedule` without the big kernel lock; a model of
that needs per-CPU state in every function of `Tcb` and is left for later. The
reader-writer lock and `cptr_free` have no caller, `map_framebuffer` and the
drawing functions are only called from commented-out lines, and the calculator
server is one arithmetic operation between a receive and a reply. The capability
that may travel with a message is left out of `Endpoint`: the only sender of one
is the PCI manager, and no client receives it.
