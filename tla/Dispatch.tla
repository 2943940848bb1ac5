------------------------------ MODULE Dispatch ------------------------------
(***************************************************************************)
(* Invoking a method of a kernel object.  The caller's stub                *)
(* (include/sys/user_method_stubs.h) puts the arguments into the message   *)
(* registers and capability slots of its IPC buffer and calls the object;  *)
(* the kernel (include/kern/syscall_dispatch.c) reads them back out of the *)
(* same buffer, checks the message and runs the handler.                   *)
(*                                                                         *)
(* The two sides are generated into two files; each method is one line of  *)
(* each table here.  An IPC buffer outlives every call, so a register a    *)
(* message does not cover holds a word of some earlier message.            *)
(***************************************************************************)
EXTENDS Naturals, Sequences, FiniteSets, TLC

CONSTANT NMr   \* message registers of an IPC buffer that are modelled

ASSUME DispatchAssumption == NMr \in Nat /\ NMr >= 6

Registers == 0..(NMr - 1)
MaxExtraCaps == 3

(* struct ipc_buffer: the message registers, the capability slots, and the *)
(* badge of the last sender.                                               *)
EmptyBuffer == [mr |-> [i \in Registers |-> 0],
                cap |-> [i \in 0..(MaxExtraCaps - 1) |-> 0],
                badge |-> 0]

new_message_tag(label, extra_caps, length) ==
  [label |-> label, extra_caps |-> extra_caps, length |-> length]

(* Writing the words of a sequence from register 0 on, as a row of set_mr. *)
SetMrs(buf, words) ==
  [buf EXCEPT !.mr = [i \in Registers |-> IF i < Len(words) THEN words[i + 1] ELSE @[i]]]

SetCaps(buf, cptrs) ==
  [buf EXCEPT !.cap = [i \in DOMAIN @ |-> IF i < Len(cptrs) THEN cptrs[i + 1] ELSE @[i]]]

-----------------------------------------------------------------------------
(* The kernel's table: the type of object a method belongs to, the         *)
(* parameter read from each register in get_mr order, the shortest         *)
(* message, the parameter read from each capability slot, and the fewest   *)
(* extra capabilities.                                                     *)
K(type, mrs, length, caps, extra_caps) ==
  [type |-> type, mrs |-> mrs, length |-> length, caps |-> caps, extra_caps |-> extra_caps]

(* One table out of several. *)
Rows(tables) == [m \in UNION {DOMAIN t : t \in tables} |->
                   (CHOOSE t \in tables : m \in DOMAIN t)[m]]

DispatchCNodeCopy ==
  [cnode_copy   |-> K("CNODE", <<"dest_index", "dest_depth", "src_index", "src_depth",
                                 "rights">>, 5, <<"src_root">>, 1),
   cnode_delete |-> K("CNODE", <<"index", "depth">>, 2, <<>>, 0),
   cnode_mint   |-> K("CNODE", <<"dest_index", "dest_depth", "src_index", "src_depth",
                                 "rights", "badge">>, 6, <<"src_root">>, 1)]

DispatchCNodeRest ==
  [cnode_revoke      |-> K("CNODE", <<"index", "depth">>, 2, <<>>, 0),
   cnode_debug_print |-> K("CNODE", <<>>, 0, <<>>, 0),
   cnode_debug_get   |-> K("CNODE", <<"index", "depth">>, 2, <<>>, 0)]

DispatchTcbConfigure ==
  [tcb_configure         |-> K("TCB", <<"fault_ep", "buffer">>, 2,
                               <<"cspace_root", "vspace_root", "buffer_frame">>, 3),
   tcb_read_registers    |-> K("TCB", <<"suspend_source", "arch_flags", "count", "regs">>, 4,
                               <<>>, 0),
   tcb_resume            |-> K("TCB", <<>>, 0, <<>>, 0),
   tcb_bind_notification |-> K("TCB", <<>>, 0, <<"notification">>, 1)]

DispatchTcbRest ==
  [tcb_set_tls_base    |-> K("TCB", <<"tls_base">>, 1, <<>>, 0),
   tcb_suspend         |-> K("TCB", <<>>, 0, <<>>, 0),
   tcb_write_registers |-> K("TCB", <<"resume_target", "arch_flags", "count", "regs">>, 4,
                             <<>>, 0),
   tcb_set_debug       |-> K("TCB", <<"flags">>, 1, <<>>, 0),
   tcb_set_name        |-> K("TCB", <<"name", "len">>, 2, <<>>, 0)]

DispatchUntyped ==
  [untyped_retype |-> K("UNTYPED", <<"type", "size_bits", "node_index", "node_depth",
                                     "node_offset", "num_objects">>, 6, <<"root">>, 1)]

DispatchIoPortIn ==
  [x86_64_io_port_in8  |-> K("IO_PORT", <<"port">>, 1, <<>>, 0),
   x86_64_io_port_in16 |-> K("IO_PORT", <<"port">>, 1, <<>>, 0),
   x86_64_io_port_in32 |-> K("IO_PORT", <<"port">>, 1, <<>>, 0)]

DispatchIoPortOut ==
  [x86_64_io_port_out8  |-> K("IO_PORT", <<"port", "value">>, 2, <<>>, 0),
   x86_64_io_port_out16 |-> K("IO_PORT", <<"port", "value">>, 2, <<>>, 0),
   x86_64_io_port_out32 |-> K("IO_PORT", <<"port", "value">>, 2, <<>>, 0)]

DispatchIoPortControl ==
  [x86_64_io_port_control_issue |->
     K("IO_PORT_CONTROL", <<"first_port", "last_port", "index", "depth">>, 4, <<"root">>, 1)]

DispatchTableMaps ==
  [x86_64_pdpt_map |-> K("PDPT", <<"vaddr", "attr">>, 2, <<"vspace">>, 1),
   x86_64_pd_map   |-> K("PD", <<"vaddr", "attr">>, 2, <<"vspace">>, 1),
   x86_64_pt_map   |-> K("PT", <<"vaddr", "attr">>, 2, <<"vspace">>, 1)]

DispatchPageMaps ==
  [x86_64_page_map      |-> K("PAGE", <<"vaddr", "attr">>, 2, <<"vspace">>, 1),
   x86_64_huge_page_map |-> K("HUGE_PAGE", <<"vaddr", "attr">>, 2, <<"vspace">>, 1)]

DispatchIrq ==
  [irq_control_get              |-> K("IRQ_CONTROL", <<"irq", "index", "depth">>, 3,
                                      <<"root">>, 1),
   irq_handler_ack              |-> K("IRQ_HANDLER", <<>>, 0, <<>>, 0),
   irq_handler_clear            |-> K("IRQ_HANDLER", <<>>, 0, <<>>, 0),
   irq_handler_set_notification |-> K("IRQ_HANDLER", <<>>, 0, <<"notification">>, 1)]

Dispatch == Rows({DispatchCNodeCopy, DispatchCNodeRest, DispatchTcbConfigure, DispatchTcbRest,
                  DispatchUntyped, DispatchIoPortIn, DispatchIoPortOut, DispatchIoPortControl,
                  DispatchTableMaps, DispatchPageMaps, DispatchIrq})

Methods == DOMAIN Dispatch

-----------------------------------------------------------------------------
(* The callers' table: the parameter put into each register and each       *)
(* capability slot, and the counts in the message tag.                     *)
S(mrs, caps, extra_caps, length) ==
  [mrs |-> mrs, caps |-> caps, extra_caps |-> extra_caps, length |-> length]

StubsCNode ==
  [cnode_copy        |-> S(<<"dest_index", "dest_depth", "src_index", "src_depth", "rights">>,
                           <<"src_root">>, 1, 5),
   cnode_delete      |-> S(<<"index", "depth">>, <<>>, 0, 2),
   cnode_mint        |-> S(<<"dest_index", "dest_depth", "src_index", "src_depth", "rights",
                             "badge">>, <<"src_root">>, 1, 6),
   cnode_revoke      |-> S(<<"index", "depth">>, <<>>, 0, 2),
   cnode_debug_print |-> S(<<>>, <<>>, 0, 0),
   cnode_debug_get   |-> S(<<"index", "depth">>, <<>>, 0, 2)]

StubsTcb ==
  [tcb_configure         |-> S(<<"fault_ep", "buffer">>,
                               <<"cspace_root", "vspace_root", "buffer_frame">>, 3, 2),
   tcb_read_registers    |-> S(<<"suspend_source", "arch_flags", "count", "regs">>, <<>>, 0, 4),
   tcb_resume            |-> S(<<>>, <<>>, 0, 0),
   tcb_bind_notification |-> S(<<>>, <<"notification">>, 1, 0),
   tcb_set_tls_base      |-> S(<<"tls_base">>, <<>>, 0, 1),
   tcb_suspend           |-> S(<<>>, <<>>, 0, 0),
   tcb_write_registers   |-> S(<<"resume_target", "arch_flags", "count", "regs">>, <<>>, 0, 4),
   tcb_set_debug         |-> S(<<"flags">>, <<>>, 0, 1),
   tcb_set_name          |-> S(<<"name", "len">>, <<>>, 0, 2)]

(* Mutant: node_offset and node_index change places. *)
StubsUntyped_mutant ==
  [untyped_retype |-> S(<<"type", "size_bits", "node_offset", "node_depth", "node_index",
                          "num_objects">>, <<"root">>, 1, 6)]

StubsUntyped ==
  [untyped_retype |-> S(<<"type", "size_bits", "node_index", "node_depth", "node_offset",
                          "num_objects">>, <<"root">>, 1, 6)]

StubsIoPort ==
  [x86_64_io_port_in8   |-> S(<<"port">>, <<>>, 0, 1),
   x86_64_io_port_in16  |-> S(<<"port">>, <<>>, 0, 1),
   x86_64_io_port_in32  |-> S(<<"port">>, <<>>, 0, 1),
   x86_64_io_port_out8  |-> S(<<"port", "value">>, <<>>, 0, 2),
   x86_64_io_port_out16 |-> S(<<"port", "value">>, <<>>, 0, 2),
   x86_64_io_port_out32 |-> S(<<"port", "value">>, <<>>, 0, 2),
   x86_64_io_port_control_issue |->
     S(<<"first_port", "last_port", "index", "depth">>, <<"root">>, 1, 4)]

StubsMap ==
  [x86_64_pdpt_map      |-> S(<<"vaddr", "attr">>, <<"vspace">>, 1, 2),
   x86_64_pd_map        |-> S(<<"vaddr", "attr">>, <<"vspace">>, 1, 2),
   x86_64_pt_map        |-> S(<<"vaddr", "attr">>, <<"vspace">>, 1, 2),
   x86_64_page_map      |-> S(<<"vaddr", "attr">>, <<"vspace">>, 1, 2),
   x86_64_huge_page_map |-> S(<<"vaddr", "attr">>, <<"vspace">>, 1, 2)]

StubsIrq ==
  [irq_control_get              |-> S(<<"irq", "index", "depth">>, <<"root">>, 1, 3),
   irq_handler_ack              |-> S(<<>>, <<>>, 0, 0),
   irq_handler_clear            |-> S(<<>>, <<>>, 0, 0),
   irq_handler_set_notification |-> S(<<>>, <<"notification">>, 1, 0)]

Stubs == Rows({StubsCNode, StubsTcb, StubsUntyped, StubsIoPort, StubsMap, StubsIrq})

-----------------------------------------------------------------------------
(* The parameters narrower than a register, on both sides. *)
Bytes == {"dest_depth", "src_depth", "node_depth", "depth"}
Bools == {"suspend_source", "resume_target"}

Narrow(p, w) == CASE p \in Bytes -> w % 256
                  [] p \in Bools -> IF w = 0 THEN 0 ELSE 1
                  [] OTHER -> w

(* The stub of method m: the caller's buffer and the tag it calls with.    *)
(* args and cptrs give each parameter its value.                           *)
StubBuffer(buf, m, args, cptrs) ==
  LET s == Stubs[m]
  IN  SetCaps(SetMrs(buf, [i \in 1..Len(s.mrs) |-> Narrow(s.mrs[i], args[s.mrs[i]])]),
              [i \in 1..Len(s.caps) |-> cptrs[s.caps[i]]])

StubTag(m) == new_message_tag(m, Stubs[m].extra_caps, Stubs[m].length)

-----------------------------------------------------------------------------
(* A thread's cspace is the capability it was given as its root: the type, *)
(* and for a CNode the capability types of its slots.  tcb_configure takes *)
(* a root of any type.                                                     *)
CSpace(root, slots) == [root |-> root, slots |-> slots]

lookup_cap_slot_raw(cspace, cptr) ==
  IF cspace.root # "CNODE" THEN "INVALID_ROOT"
  ELSE IF cptr \notin DOMAIN cspace.slots THEN "RANGE_ERROR"
  ELSE "NO_ERROR"

CSpaceSize(cspace) == Cardinality(DOMAIN cspace.slots)

(* What the kernel makes of a message: an error and the words it leaves in *)
(* the caller's registers, or the handler to run and its arguments.        *)
Refuse(label, buf, words) ==
  [label |-> label, buf |-> SetMrs(buf, words), run |-> "none",
   args |-> <<>>, caps |-> <<>>]

msg_range_error(buf, low, high) == Refuse("RANGE_ERROR", buf, <<low, high>>)

(* The code passes what it got as "expected" and what it needs as          *)
(* "provided"; register 0 is what the message had.                         *)
msg_truncated_message(buf, had, needed) == Refuse("TRUNCATED_MESSAGE", buf, <<had, needed>>)

msg_illegal_operation(buf) == Refuse("ILLEGAL_OPERATION", buf, <<>>)

msg_invalid_root(buf) == Refuse("INVALID_ROOT", buf, <<>>)

(* The message of a lookup that did not succeed. *)
lookup_cap_slot(cspace, cptr, buf) ==
  IF lookup_cap_slot_raw(cspace, cptr) = "INVALID_ROOT" THEN msg_invalid_root(buf)
  ELSE msg_range_error(buf, 0, CSpaceSize(cspace))

Run(m, buf) ==
  LET e == Dispatch[m]
  IN  [label |-> "NO_ERROR", buf |-> buf, run |-> m,
       args |-> [p \in {e.mrs[i] : i \in 1..Len(e.mrs)} |->
                   Narrow(p, buf.mr[(CHOOSE i \in 1..Len(e.mrs) : e.mrs[i] = p) - 1])],
       caps |-> [p \in {e.caps[i] : i \in 1..Len(e.caps)} |->
                   buf.cap[(CHOOSE i \in 1..Len(e.caps) : e.caps[i] = p) - 1]]]

(* Mutant: the length of the message is not looked at. *)
dispatch_method_mutant(cspace, slot, tag, buf) ==
  IF \/ tag.label \notin Methods
     \/ cspace.slots[slot] # Dispatch[tag.label].type
    THEN msg_illegal_operation(buf)
  ELSE LET e == Dispatch[tag.label] IN
  IF tag.extra_caps < e.extra_caps
    THEN msg_truncated_message(buf, tag.extra_caps, e.extra_caps)
  ELSE IF \E i \in 1..Len(e.caps) : lookup_cap_slot_raw(cspace, buf.cap[i - 1]) # "NO_ERROR"
    THEN msg_range_error(buf, 0, CSpaceSize(cspace))
  ELSE Run(tag.label, buf)

(* The checks in the order of the code.  Every lookup is in the caller's   *)
(* own cspace, whose root is a CNode once the object was found in it, so   *)
(* whichever parameter fails first leaves the same words.                  *)
dispatch_method(cspace, slot, tag, buf) ==
  IF \/ tag.label \notin Methods
     \/ cspace.slots[slot] # Dispatch[tag.label].type
    THEN msg_illegal_operation(buf)
  ELSE LET e == Dispatch[tag.label] IN
  IF tag.length < e.length THEN msg_truncated_message(buf, tag.length, e.length)
  ELSE IF tag.extra_caps < e.extra_caps
    THEN msg_truncated_message(buf, tag.extra_caps, e.extra_caps)
  ELSE IF \E i \in 1..Len(e.caps) : lookup_cap_slot_raw(cspace, buf.cap[i - 1]) # "NO_ERROR"
    THEN msg_range_error(buf, 0, CSpaceSize(cspace))
  ELSE Run(tag.label, buf)

(* SYS_CALL on a capability that is not an endpoint. *)
sys_call(cspace, cptr, tag, buf) ==
  IF lookup_cap_slot_raw(cspace, cptr) # "NO_ERROR"
    THEN lookup_cap_slot(cspace, cptr, buf)
    ELSE dispatch_method(cspace, cptr, tag, buf)

=============================================================================
