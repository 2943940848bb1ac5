--------------------------- MODULE PciManagerProofs ---------------------------
(***************************************************************************)
(* The stubs and the kernel's dispatch agree on every method, whatever the *)
(* caller's IPC buffer still holds of earlier messages.                    *)
(***************************************************************************)
EXTENDS PciManager, TLAPS

KernelTables == {DispatchCNodeCopy, DispatchCNodeRest, DispatchTcbConfigure, DispatchTcbRest,
                 DispatchUntyped, DispatchIoPortIn, DispatchIoPortOut, DispatchIoPortControl,
                 DispatchTableMaps, DispatchPageMaps, DispatchIrq}

StubTables == {StubsCNode, StubsTcb, StubsUntyped, StubsIoPort, StubsMap, StubsIrq}

(* A row of the kernel's table reads each parameter once, from a register  *)
(* or a slot that the counts it checks cover.                              *)
WellFormed(e) ==
  /\ Len(e.mrs) \in Nat /\ Len(e.caps) \in Nat
  /\ e.length = Len(e.mrs) /\ Len(e.mrs) <= 6
  /\ e.extra_caps = Len(e.caps) /\ Len(e.caps) <= MaxExtraCaps
  /\ \A i, j \in 1..Len(e.mrs) : e.mrs[i] = e.mrs[j] => i = j
  /\ \A i, j \in 1..Len(e.caps) : e.caps[i] = e.caps[j] => i = j

(* The caller's row stores what the kernel's row loads. *)
Agree(s, e) == /\ s.mrs = e.mrs /\ s.caps = e.caps
               /\ s.length = e.length /\ s.extra_caps = e.extra_caps

(* Every row of the kernel's table t is sound by itself and is stored by   *)
(* the caller's table s as it is loaded.                                   *)
Matches(t, s) == \A m \in DOMAIN t : WellFormed(t[m]) /\ m \in DOMAIN s /\ Agree(s[m], t[m])

(* The shapes of the rows: up to six parameters in registers, up to three  *)
(* capabilities.                                                           *)
LEMMA Loads00 ==
  ASSUME NEW type
  PROVE  WellFormed(K(type, <<>>, 0, <<>>, 0))
BY DEF K, WellFormed, MaxExtraCaps

(* A row with no parameters in registers and one capability is sound. *)
LEMMA Loads01 ==
  ASSUME NEW type, NEW p
  PROVE  WellFormed(K(type, <<>>, 0, <<p>>, 1))
BY DEF K, WellFormed, MaxExtraCaps

(* A row with one parameter in registers and no capabilities is sound. *)
LEMMA Loads10 ==
  ASSUME NEW type, NEW a
  PROVE  WellFormed(K(type, <<a>>, 1, <<>>, 0))
BY DEF K, WellFormed, MaxExtraCaps

(* A row with two parameters in registers and no capabilities is sound. *)
LEMMA Loads20 ==
  ASSUME NEW type, NEW a, NEW b,
         a # b
  PROVE  WellFormed(K(type, <<a, b>>, 2, <<>>, 0))
BY DEF K, WellFormed, MaxExtraCaps

(* A row with two parameters in registers and one capability is sound. *)
LEMMA Loads21 ==
  ASSUME NEW type, NEW a, NEW b, NEW p,
         a # b
  PROVE  WellFormed(K(type, <<a, b>>, 2, <<p>>, 1))
BY DEF K, WellFormed, MaxExtraCaps

(* A row with two parameters in registers and three capabilities is sound. *)
LEMMA Loads23 ==
  ASSUME NEW type, NEW a, NEW b, NEW p, NEW q, NEW r,
         a # b,
         p # q /\ p # r,
         q # r
  PROVE  WellFormed(K(type, <<a, b>>, 2, <<p, q, r>>, 3))
BY DEF K, WellFormed, MaxExtraCaps

(* A row with three parameters in registers and one capability is sound. *)
LEMMA Loads31 ==
  ASSUME NEW type, NEW a, NEW b, NEW c, NEW p,
         a # b /\ a # c,
         b # c
  PROVE  WellFormed(K(type, <<a, b, c>>, 3, <<p>>, 1))
BY DEF K, WellFormed, MaxExtraCaps

(* A row with four parameters in registers and no capabilities is sound. *)
LEMMA Loads40 ==
  ASSUME NEW type, NEW a, NEW b, NEW c, NEW d,
         a # b /\ a # c /\ a # d,
         b # c /\ b # d,
         c # d
  PROVE  WellFormed(K(type, <<a, b, c, d>>, 4, <<>>, 0))
BY DEF K, WellFormed, MaxExtraCaps

(* A row with four parameters in registers and one capability is sound. *)
LEMMA Loads41 ==
  ASSUME NEW type, NEW a, NEW b, NEW c, NEW d, NEW p,
         a # b /\ a # c /\ a # d,
         b # c /\ b # d,
         c # d
  PROVE  WellFormed(K(type, <<a, b, c, d>>, 4, <<p>>, 1))
BY DEF K, WellFormed, MaxExtraCaps

(* A row with five parameters in registers and one capability is sound. *)
LEMMA Loads51 ==
  ASSUME NEW type, NEW a, NEW b, NEW c, NEW d, NEW e, NEW p,
         a # b /\ a # c /\ a # d /\ a # e,
         b # c /\ b # d /\ b # e,
         c # d /\ c # e,
         d # e
  PROVE  WellFormed(K(type, <<a, b, c, d, e>>, 5, <<p>>, 1))
BY DEF K, WellFormed, MaxExtraCaps

(* A row with six parameters in registers and one capability is sound. *)
LEMMA Loads61 ==
  ASSUME NEW type, NEW a, NEW b, NEW c, NEW d, NEW e, NEW f, NEW p,
         a # b /\ a # c /\ a # d /\ a # e /\ a # f,
         b # c /\ b # d /\ b # e /\ b # f,
         c # d /\ c # e /\ c # f,
         d # e /\ d # f,
         e # f
  PROVE  WellFormed(K(type, <<a, b, c, d, e, f>>, 6, <<p>>, 1))
BY DEF K, WellFormed, MaxExtraCaps

(* syscall_dispatch.c and user_method_stubs.h, table DispatchCNodeCopy. *)
LEMMA DispatchCNodeCopyMatches == Matches(DispatchCNodeCopy, StubsCNode)
<1>1. DOMAIN DispatchCNodeCopy = {"cnode_copy", "cnode_delete", "cnode_mint"}
  BY DEF DispatchCNodeCopy
<1>2. WellFormed(DispatchCNodeCopy.cnode_copy)
  BY Loads51 DEF DispatchCNodeCopy
<1>3. "cnode_copy" \in DOMAIN StubsCNode /\ Agree(StubsCNode.cnode_copy, DispatchCNodeCopy.cnode_copy)
  BY DEF DispatchCNodeCopy, StubsCNode, K, S, Agree
<1>4. WellFormed(DispatchCNodeCopy.cnode_delete)
  BY Loads20 DEF DispatchCNodeCopy
<1>5. "cnode_delete" \in DOMAIN StubsCNode /\ Agree(StubsCNode.cnode_delete, DispatchCNodeCopy.cnode_delete)
  BY DEF DispatchCNodeCopy, StubsCNode, K, S, Agree
<1>6. WellFormed(DispatchCNodeCopy.cnode_mint)
  BY Loads61 DEF DispatchCNodeCopy
<1>7. "cnode_mint" \in DOMAIN StubsCNode /\ Agree(StubsCNode.cnode_mint, DispatchCNodeCopy.cnode_mint)
  BY DEF DispatchCNodeCopy, StubsCNode, K, S, Agree
<1> QED BY <1>1, <1>2, <1>3, <1>4, <1>5, <1>6, <1>7 DEF Matches

(* syscall_dispatch.c and user_method_stubs.h, table DispatchCNodeRest. *)
LEMMA DispatchCNodeRestMatches == Matches(DispatchCNodeRest, StubsCNode)
<1>1. DOMAIN DispatchCNodeRest = {"cnode_revoke", "cnode_debug_print", "cnode_debug_get"}
  BY DEF DispatchCNodeRest
<1>2. WellFormed(DispatchCNodeRest.cnode_revoke)
  BY Loads20 DEF DispatchCNodeRest
<1>3. "cnode_revoke" \in DOMAIN StubsCNode /\ Agree(StubsCNode.cnode_revoke, DispatchCNodeRest.cnode_revoke)
  BY DEF DispatchCNodeRest, StubsCNode, K, S, Agree
<1>4. WellFormed(DispatchCNodeRest.cnode_debug_print)
  BY Loads00 DEF DispatchCNodeRest
<1>5. "cnode_debug_print" \in DOMAIN StubsCNode /\ Agree(StubsCNode.cnode_debug_print, DispatchCNodeRest.cnode_debug_print)
  BY DEF DispatchCNodeRest, StubsCNode, K, S, Agree
<1>6. WellFormed(DispatchCNodeRest.cnode_debug_get)
  BY Loads20 DEF DispatchCNodeRest
<1>7. "cnode_debug_get" \in DOMAIN StubsCNode /\ Agree(StubsCNode.cnode_debug_get, DispatchCNodeRest.cnode_debug_get)
  BY DEF DispatchCNodeRest, StubsCNode, K, S, Agree
<1> QED BY <1>1, <1>2, <1>3, <1>4, <1>5, <1>6, <1>7 DEF Matches

(* syscall_dispatch.c and user_method_stubs.h, table DispatchTcbConfigure. *)
LEMMA DispatchTcbConfigureMatches == Matches(DispatchTcbConfigure, StubsTcb)
<1>1. DOMAIN DispatchTcbConfigure = {"tcb_configure", "tcb_read_registers", "tcb_resume", "tcb_bind_notification"}
  BY DEF DispatchTcbConfigure
<1>2. WellFormed(DispatchTcbConfigure.tcb_configure)
  BY Loads23 DEF DispatchTcbConfigure
<1>3. "tcb_configure" \in DOMAIN StubsTcb /\ Agree(StubsTcb.tcb_configure, DispatchTcbConfigure.tcb_configure)
  BY DEF DispatchTcbConfigure, StubsTcb, K, S, Agree
<1>4. WellFormed(DispatchTcbConfigure.tcb_read_registers)
  BY Loads40 DEF DispatchTcbConfigure
<1>5. "tcb_read_registers" \in DOMAIN StubsTcb /\ Agree(StubsTcb.tcb_read_registers, DispatchTcbConfigure.tcb_read_registers)
  BY DEF DispatchTcbConfigure, StubsTcb, K, S, Agree
<1>6. WellFormed(DispatchTcbConfigure.tcb_resume)
  BY Loads00 DEF DispatchTcbConfigure
<1>7. "tcb_resume" \in DOMAIN StubsTcb /\ Agree(StubsTcb.tcb_resume, DispatchTcbConfigure.tcb_resume)
  BY DEF DispatchTcbConfigure, StubsTcb, K, S, Agree
<1>8. WellFormed(DispatchTcbConfigure.tcb_bind_notification)
  BY Loads01 DEF DispatchTcbConfigure
<1>9. "tcb_bind_notification" \in DOMAIN StubsTcb /\ Agree(StubsTcb.tcb_bind_notification, DispatchTcbConfigure.tcb_bind_notification)
  BY DEF DispatchTcbConfigure, StubsTcb, K, S, Agree
<1> QED BY <1>1, <1>2, <1>3, <1>4, <1>5, <1>6, <1>7, <1>8, <1>9 DEF Matches

(* syscall_dispatch.c and user_method_stubs.h, table DispatchTcbRest. *)
LEMMA DispatchTcbRestMatches == Matches(DispatchTcbRest, StubsTcb)
<1>1. DOMAIN DispatchTcbRest = {"tcb_set_tls_base", "tcb_suspend", "tcb_write_registers", "tcb_set_debug",
         "tcb_set_name"}
  BY DEF DispatchTcbRest
<1>2. WellFormed(DispatchTcbRest.tcb_set_tls_base)
  BY Loads10 DEF DispatchTcbRest
<1>3. "tcb_set_tls_base" \in DOMAIN StubsTcb /\ Agree(StubsTcb.tcb_set_tls_base, DispatchTcbRest.tcb_set_tls_base)
  BY DEF DispatchTcbRest, StubsTcb, K, S, Agree
<1>4. WellFormed(DispatchTcbRest.tcb_suspend)
  BY Loads00 DEF DispatchTcbRest
<1>5. "tcb_suspend" \in DOMAIN StubsTcb /\ Agree(StubsTcb.tcb_suspend, DispatchTcbRest.tcb_suspend)
  BY DEF DispatchTcbRest, StubsTcb, K, S, Agree
<1>6. WellFormed(DispatchTcbRest.tcb_write_registers)
  BY Loads40 DEF DispatchTcbRest
<1>7. "tcb_write_registers" \in DOMAIN StubsTcb /\ Agree(StubsTcb.tcb_write_registers, DispatchTcbRest.tcb_write_registers)
  BY DEF DispatchTcbRest, StubsTcb, K, S, Agree
<1>8. WellFormed(DispatchTcbRest.tcb_set_debug)
  BY Loads10 DEF DispatchTcbRest
<1>9. "tcb_set_debug" \in DOMAIN StubsTcb /\ Agree(StubsTcb.tcb_set_debug, DispatchTcbRest.tcb_set_debug)
  BY DEF DispatchTcbRest, StubsTcb, K, S, Agree
<1>10. WellFormed(DispatchTcbRest.tcb_set_name)
  BY Loads20 DEF DispatchTcbRest
<1>11. "tcb_set_name" \in DOMAIN StubsTcb /\ Agree(StubsTcb.tcb_set_name, DispatchTcbRest.tcb_set_name)
  BY DEF DispatchTcbRest, StubsTcb, K, S, Agree
<1> QED BY <1>1, <1>2, <1>3, <1>4, <1>5, <1>6, <1>7, <1>8, <1>9, <1>10, <1>11 DEF Matches

(* syscall_dispatch.c and user_method_stubs.h, table DispatchUntyped. *)
LEMMA DispatchUntypedMatches == Matches(DispatchUntyped, StubsUntyped)
<1>1. DOMAIN DispatchUntyped = {"untyped_retype"}
  BY DEF DispatchUntyped
<1>2. WellFormed(DispatchUntyped.untyped_retype)
  BY Loads61 DEF DispatchUntyped
<1>3. "untyped_retype" \in DOMAIN StubsUntyped /\ Agree(StubsUntyped.untyped_retype, DispatchUntyped.untyped_retype)
  BY DEF DispatchUntyped, StubsUntyped, K, S, Agree
<1> QED BY <1>1, <1>2, <1>3 DEF Matches

(* syscall_dispatch.c and user_method_stubs.h, table DispatchIoPortIn. *)
LEMMA DispatchIoPortInMatches == Matches(DispatchIoPortIn, StubsIoPort)
<1>1. DOMAIN DispatchIoPortIn = {"x86_64_io_port_in8", "x86_64_io_port_in16", "x86_64_io_port_in32"}
  BY DEF DispatchIoPortIn
<1>2. WellFormed(DispatchIoPortIn.x86_64_io_port_in8)
  BY Loads10 DEF DispatchIoPortIn
<1>3. "x86_64_io_port_in8" \in DOMAIN StubsIoPort /\ Agree(StubsIoPort.x86_64_io_port_in8, DispatchIoPortIn.x86_64_io_port_in8)
  BY DEF DispatchIoPortIn, StubsIoPort, K, S, Agree
<1>4. WellFormed(DispatchIoPortIn.x86_64_io_port_in16)
  BY Loads10 DEF DispatchIoPortIn
<1>5. "x86_64_io_port_in16" \in DOMAIN StubsIoPort /\ Agree(StubsIoPort.x86_64_io_port_in16, DispatchIoPortIn.x86_64_io_port_in16)
  BY DEF DispatchIoPortIn, StubsIoPort, K, S, Agree
<1>6. WellFormed(DispatchIoPortIn.x86_64_io_port_in32)
  BY Loads10 DEF DispatchIoPortIn
<1>7. "x86_64_io_port_in32" \in DOMAIN StubsIoPort /\ Agree(StubsIoPort.x86_64_io_port_in32, DispatchIoPortIn.x86_64_io_port_in32)
  BY DEF DispatchIoPortIn, StubsIoPort, K, S, Agree
<1> QED BY <1>1, <1>2, <1>3, <1>4, <1>5, <1>6, <1>7 DEF Matches

(* syscall_dispatch.c and user_method_stubs.h, table DispatchIoPortOut. *)
LEMMA DispatchIoPortOutMatches == Matches(DispatchIoPortOut, StubsIoPort)
<1>1. DOMAIN DispatchIoPortOut = {"x86_64_io_port_out8", "x86_64_io_port_out16", "x86_64_io_port_out32"}
  BY DEF DispatchIoPortOut
<1>2. WellFormed(DispatchIoPortOut.x86_64_io_port_out8)
  BY Loads20 DEF DispatchIoPortOut
<1>3. "x86_64_io_port_out8" \in DOMAIN StubsIoPort /\ Agree(StubsIoPort.x86_64_io_port_out8, DispatchIoPortOut.x86_64_io_port_out8)
  BY DEF DispatchIoPortOut, StubsIoPort, K, S, Agree
<1>4. WellFormed(DispatchIoPortOut.x86_64_io_port_out16)
  BY Loads20 DEF DispatchIoPortOut
<1>5. "x86_64_io_port_out16" \in DOMAIN StubsIoPort /\ Agree(StubsIoPort.x86_64_io_port_out16, DispatchIoPortOut.x86_64_io_port_out16)
  BY DEF DispatchIoPortOut, StubsIoPort, K, S, Agree
<1>6. WellFormed(DispatchIoPortOut.x86_64_io_port_out32)
  BY Loads20 DEF DispatchIoPortOut
<1>7. "x86_64_io_port_out32" \in DOMAIN StubsIoPort /\ Agree(StubsIoPort.x86_64_io_port_out32, DispatchIoPortOut.x86_64_io_port_out32)
  BY DEF DispatchIoPortOut, StubsIoPort, K, S, Agree
<1> QED BY <1>1, <1>2, <1>3, <1>4, <1>5, <1>6, <1>7 DEF Matches

(* syscall_dispatch.c and user_method_stubs.h, table DispatchIoPortControl. *)
LEMMA DispatchIoPortControlMatches == Matches(DispatchIoPortControl, StubsIoPort)
<1>1. DOMAIN DispatchIoPortControl = {"x86_64_io_port_control_issue"}
  BY DEF DispatchIoPortControl
<1>2. WellFormed(DispatchIoPortControl.x86_64_io_port_control_issue)
  BY Loads41 DEF DispatchIoPortControl
<1>3. "x86_64_io_port_control_issue" \in DOMAIN StubsIoPort /\ Agree(StubsIoPort.x86_64_io_port_control_issue, DispatchIoPortControl.x86_64_io_port_control_issue)
  BY DEF DispatchIoPortControl, StubsIoPort, K, S, Agree
<1> QED BY <1>1, <1>2, <1>3 DEF Matches

(* syscall_dispatch.c and user_method_stubs.h, table DispatchTableMaps. *)
LEMMA DispatchTableMapsMatches == Matches(DispatchTableMaps, StubsMap)
<1>1. DOMAIN DispatchTableMaps = {"x86_64_pdpt_map", "x86_64_pd_map", "x86_64_pt_map"}
  BY DEF DispatchTableMaps
<1>2. WellFormed(DispatchTableMaps.x86_64_pdpt_map)
  BY Loads21 DEF DispatchTableMaps
<1>3. "x86_64_pdpt_map" \in DOMAIN StubsMap /\ Agree(StubsMap.x86_64_pdpt_map, DispatchTableMaps.x86_64_pdpt_map)
  BY DEF DispatchTableMaps, StubsMap, K, S, Agree
<1>4. WellFormed(DispatchTableMaps.x86_64_pd_map)
  BY Loads21 DEF DispatchTableMaps
<1>5. "x86_64_pd_map" \in DOMAIN StubsMap /\ Agree(StubsMap.x86_64_pd_map, DispatchTableMaps.x86_64_pd_map)
  BY DEF DispatchTableMaps, StubsMap, K, S, Agree
<1>6. WellFormed(DispatchTableMaps.x86_64_pt_map)
  BY Loads21 DEF DispatchTableMaps
<1>7. "x86_64_pt_map" \in DOMAIN StubsMap /\ Agree(StubsMap.x86_64_pt_map, DispatchTableMaps.x86_64_pt_map)
  BY DEF DispatchTableMaps, StubsMap, K, S, Agree
<1> QED BY <1>1, <1>2, <1>3, <1>4, <1>5, <1>6, <1>7 DEF Matches

(* syscall_dispatch.c and user_method_stubs.h, table DispatchPageMaps. *)
LEMMA DispatchPageMapsMatches == Matches(DispatchPageMaps, StubsMap)
<1>1. DOMAIN DispatchPageMaps = {"x86_64_page_map", "x86_64_huge_page_map"}
  BY DEF DispatchPageMaps
<1>2. WellFormed(DispatchPageMaps.x86_64_page_map)
  BY Loads21 DEF DispatchPageMaps
<1>3. "x86_64_page_map" \in DOMAIN StubsMap /\ Agree(StubsMap.x86_64_page_map, DispatchPageMaps.x86_64_page_map)
  BY DEF DispatchPageMaps, StubsMap, K, S, Agree
<1>4. WellFormed(DispatchPageMaps.x86_64_huge_page_map)
  BY Loads21 DEF DispatchPageMaps
<1>5. "x86_64_huge_page_map" \in DOMAIN StubsMap /\ Agree(StubsMap.x86_64_huge_page_map, DispatchPageMaps.x86_64_huge_page_map)
  BY DEF DispatchPageMaps, StubsMap, K, S, Agree
<1> QED BY <1>1, <1>2, <1>3, <1>4, <1>5 DEF Matches

(* syscall_dispatch.c and user_method_stubs.h, table DispatchIrq. *)
LEMMA DispatchIrqMatches == Matches(DispatchIrq, StubsIrq)
<1>1. DOMAIN DispatchIrq = {"irq_control_get", "irq_handler_ack", "irq_handler_clear",
         "irq_handler_set_notification"}
  BY DEF DispatchIrq
<1>2. WellFormed(DispatchIrq.irq_control_get)
  BY Loads31 DEF DispatchIrq
<1>3. "irq_control_get" \in DOMAIN StubsIrq /\ Agree(StubsIrq.irq_control_get, DispatchIrq.irq_control_get)
  BY DEF DispatchIrq, StubsIrq, K, S, Agree
<1>4. WellFormed(DispatchIrq.irq_handler_ack)
  BY Loads00 DEF DispatchIrq
<1>5. "irq_handler_ack" \in DOMAIN StubsIrq /\ Agree(StubsIrq.irq_handler_ack, DispatchIrq.irq_handler_ack)
  BY DEF DispatchIrq, StubsIrq, K, S, Agree
<1>6. WellFormed(DispatchIrq.irq_handler_clear)
  BY Loads00 DEF DispatchIrq
<1>7. "irq_handler_clear" \in DOMAIN StubsIrq /\ Agree(StubsIrq.irq_handler_clear, DispatchIrq.irq_handler_clear)
  BY DEF DispatchIrq, StubsIrq, K, S, Agree
<1>8. WellFormed(DispatchIrq.irq_handler_set_notification)
  BY Loads01 DEF DispatchIrq
<1>9. "irq_handler_set_notification" \in DOMAIN StubsIrq /\ Agree(StubsIrq.irq_handler_set_notification, DispatchIrq.irq_handler_set_notification)
  BY DEF DispatchIrq, StubsIrq, K, S, Agree
<1> QED BY <1>1, <1>2, <1>3, <1>4, <1>5, <1>6, <1>7, <1>8, <1>9 DEF Matches

(* No method has two rows on the callers' side. *)
LEMMA OneStub ==
  ASSUME NEW s \in StubTables, NEW r \in StubTables, NEW m \in DOMAIN s \cap DOMAIN r
  PROVE  s = r
<1>1. DOMAIN StubsCNode =
             {"cnode_copy", "cnode_delete", "cnode_mint", "cnode_revoke",
              "cnode_debug_print", "cnode_debug_get"}
  BY DEF StubsCNode
<1>2. DOMAIN StubsTcb =
             {"tcb_configure", "tcb_read_registers", "tcb_resume",
              "tcb_bind_notification", "tcb_set_tls_base", "tcb_suspend",
              "tcb_write_registers", "tcb_set_debug", "tcb_set_name"}
  BY DEF StubsTcb
<1>3. DOMAIN StubsUntyped =
             {"untyped_retype"}
  BY DEF StubsUntyped
<1>4. DOMAIN StubsIoPort =
             {"x86_64_io_port_in8", "x86_64_io_port_in16", "x86_64_io_port_in32",
              "x86_64_io_port_out8", "x86_64_io_port_out16",
              "x86_64_io_port_out32", "x86_64_io_port_control_issue"}
  BY DEF StubsIoPort
<1>5. DOMAIN StubsMap =
             {"x86_64_pdpt_map", "x86_64_pd_map", "x86_64_pt_map",
              "x86_64_page_map", "x86_64_huge_page_map"}
  BY DEF StubsMap
<1>6. DOMAIN StubsIrq =
             {"irq_control_get", "irq_handler_ack", "irq_handler_clear",
              "irq_handler_set_notification"}
  BY DEF StubsIrq
<1> QED BY <1>1, <1>2, <1>3, <1>4, <1>5, <1>6 DEF StubTables

(* Every method has a row on both sides, and the two rows agree. *)
LEMMA TablesAgree ==
  ASSUME NEW m \in Methods
  PROVE  /\ m \in DOMAIN Stubs
         /\ WellFormed(Dispatch[m])
         /\ Agree(Stubs[m], Dispatch[m])
<1> DEFINE t == CHOOSE x \in KernelTables : m \in DOMAIN x
           r == CHOOSE x \in StubTables : m \in DOMAIN x
<1>1. Dispatch = Rows(KernelTables) /\ Stubs = Rows(StubTables)
  BY DEF Dispatch, Stubs, KernelTables, StubTables
<1>2. m \in UNION {DOMAIN x : x \in KernelTables} /\ Dispatch[m] = t[m]
  BY <1>1 DEF Methods, Rows
<1>3. t \in KernelTables /\ m \in DOMAIN t
  BY <1>2
<1>4. PICK s \in StubTables : Matches(t, s)
  <2> HIDE DEF t
  <2> QED BY <1>3, DispatchCNodeCopyMatches, DispatchCNodeRestMatches,
             DispatchTcbConfigureMatches, DispatchTcbRestMatches, DispatchUntypedMatches,
             DispatchIoPortInMatches, DispatchIoPortOutMatches, DispatchIoPortControlMatches,
             DispatchTableMapsMatches, DispatchPageMapsMatches, DispatchIrqMatches
          DEF KernelTables, StubTables
<1>5. WellFormed(t[m]) /\ m \in DOMAIN s /\ Agree(s[m], t[m])
  BY <1>3, <1>4 DEF Matches
<1>6. m \in DOMAIN Stubs /\ Stubs[m] = r[m]
  BY <1>1, <1>5 DEF Rows
<1>7. r \in StubTables /\ m \in DOMAIN r
  BY <1>5
<1>8. r = s
  BY <1>5, <1>7, OneStub
<1> QED BY <1>2, <1>5, <1>6, <1>8

-----------------------------------------------------------------------------
(* A buffer has its registers and its capability slots. *)
Shaped(b) == {"mr", "cap"} \subseteq DOMAIN b /\ DOMAIN b.cap = 0..(MaxExtraCaps - 1)

(* Writing registers and slots leaves a buffer shaped, and only touches    *)
(* what it writes.                                                         *)
LEMMA SetMrsShaped ==
  ASSUME NEW b, Shaped(b), NEW words
  PROVE  /\ Shaped(SetMrs(b, words)) /\ SetMrs(b, words).cap = b.cap
         /\ \A i \in Registers : i < Len(words) => SetMrs(b, words).mr[i] = words[i + 1]
BY DEF Shaped, SetMrs

(* The same for capability slots. *)
LEMMA SetCapsShaped ==
  ASSUME NEW b, Shaped(b), NEW cptrs
  PROVE  /\ Shaped(SetCaps(b, cptrs)) /\ SetCaps(b, cptrs).mr = b.mr
         /\ \A i \in 0..(MaxExtraCaps - 1) :
              i < Len(cptrs) => SetCaps(b, cptrs).cap[i] = cptrs[i + 1]
BY DEF Shaped, SetCaps

(* Whatever the kernel makes of a message, the caller's buffer stays one.  *)
LEMMA SysCallShaped ==
  ASSUME NEW cspace, NEW cptr, NEW tag, NEW b, Shaped(b)
  PROVE  Shaped(sys_call(cspace, cptr, tag, b).buf)
<1>1. \A label, words : Shaped(Refuse(label, b, words).buf)
  BY SetMrsShaped DEF Refuse
<1>2. \A m : Shaped(Run(m, b).buf)
  BY DEF Run
<1> QED BY <1>1, <1>2 DEF sys_call, dispatch_method, msg_range_error, msg_truncated_message,
                          msg_illegal_operation, msg_invalid_root, lookup_cap_slot

(* A method runs only when the message covers all it reads. *)
LEMMA RunsCovered ==
  ASSUME NEW cspace, NEW cptr, NEW tag, NEW b, sys_call(cspace, cptr, tag, b).run # "none"
  PROVE  /\ tag.label \in Methods
         /\ ~(tag.length < Dispatch[tag.label].length)
         /\ ~(tag.extra_caps < Dispatch[tag.label].extra_caps)
         /\ sys_call(cspace, cptr, tag, b) = Run(tag.label, b)
<1>1. \A label, words : Refuse(label, b, words).run = "none"
  BY DEF Refuse
<1> QED BY <1>1 DEF sys_call, dispatch_method, msg_range_error, msg_truncated_message,
                    msg_illegal_operation, msg_invalid_root, lookup_cap_slot

(* Narrowing a parameter twice is narrowing it once. *)
LEMMA NarrowTwice ==
  ASSUME NEW p, NEW w \in Nat
  PROVE  Narrow(p, w) \in Nat /\ Narrow(p, Narrow(p, w)) = Narrow(p, w)
BY DEF Narrow, Bytes, Bools


(* What the stub leaves in the buffer. *)
LEMMA StubStores ==
  ASSUME NEW m \in Methods, NEW b, Shaped(b), NEW args, NEW cptrs
  PROVE  LET c == StubBuffer(b, m, args, cptrs)
             e == Dispatch[m]
         IN  (\A i \in 1..Len(e.mrs) : c.mr[i - 1] = Narrow(e.mrs[i], args[e.mrs[i]]))
             /\ (\A i \in 1..Len(e.caps) : c.cap[i - 1] = cptrs[e.caps[i]])
<1> DEFINE e == Dispatch[m]
           words == [i \in 1..Len(e.mrs) |-> Narrow(e.mrs[i], args[e.mrs[i]])]
           pointers == [i \in 1..Len(e.caps) |-> cptrs[e.caps[i]]]
           c == StubBuffer(b, m, args, cptrs)
<1>1. WellFormed(e) /\ Stubs[m].mrs = e.mrs /\ Stubs[m].caps = e.caps
  BY TablesAgree DEF Agree
<1>2. c = SetCaps(SetMrs(b, words), pointers)
  BY <1>1 DEF StubBuffer
<1>3. Len(words) = Len(e.mrs) /\ Len(pointers) = Len(e.caps)
  <2>1. Len(e.mrs) \in Nat /\ Len(e.caps) \in Nat
    BY <1>1 DEF WellFormed
  <2> QED BY <2>1
<1> HIDE DEF words, pointers, c
<1>4. \A i \in 1..Len(e.mrs) : c.mr[i - 1] = words[i]
  <2> SUFFICES ASSUME NEW i \in 1..Len(e.mrs) PROVE c.mr[i - 1] = words[i]
    OBVIOUS
  <2>1. i - 1 \in Registers /\ i - 1 < Len(words) /\ (i - 1) + 1 = i
    BY <1>1, <1>3, DispatchAssumption DEF WellFormed, Registers
  <2>2. Shaped(SetMrs(b, words)) /\ SetMrs(b, words).mr[i - 1] = words[(i - 1) + 1]
    BY <2>1, SetMrsShaped
  <2>3. c.mr = SetMrs(b, words).mr
    BY <1>2, <2>2, SetCapsShaped
  <2> QED BY <2>1, <2>2, <2>3
<1>5. \A i \in 1..Len(e.caps) : c.cap[i - 1] = pointers[i]
  <2> SUFFICES ASSUME NEW i \in 1..Len(e.caps) PROVE c.cap[i - 1] = pointers[i]
    OBVIOUS
  <2>1. i - 1 \in 0..(MaxExtraCaps - 1) /\ i - 1 < Len(pointers) /\ (i - 1) + 1 = i
    BY <1>1, <1>3 DEF WellFormed, MaxExtraCaps
  <2>2. Shaped(SetMrs(b, words))
    BY SetMrsShaped
  <2>3. c.cap[i - 1] = pointers[(i - 1) + 1]
    BY <1>2, <2>1, <2>2, SetCapsShaped
  <2> QED BY <2>1, <2>3
<1> QED BY <1>4, <1>5 DEF words, pointers, c

IsFcn(f) == f = [x \in DOMAIN f |-> f[x]]

(* The parameters of a row, and arguments that survive the narrowing. *)
MrParams(e) == {e.mrs[i] : i \in 1..Len(e.mrs)}
CapParams(e) == {e.caps[i] : i \in 1..Len(e.caps)}
Narrowed(args) == \A p \in DOMAIN args : args[p] = Narrow(p, args[p])

(* A method called through its stub: the message passes the checks, and    *)
(* the handler gets back what the stub put into the buffer.                *)
LEMMA StubRuns ==
  ASSUME NEW m \in Methods, NEW cspace, cspace.root = "CNODE", NEW cptr \in DOMAIN cspace.slots,
         cspace.slots[cptr] = Dispatch[m].type, NEW b, Shaped(b), NEW args, NEW cptrs,
         IsFcn(args), DOMAIN args = MrParams(Stubs[m]), Narrowed(args),
         IsFcn(cptrs), DOMAIN cptrs = CapParams(Stubs[m]),
         \A p \in DOMAIN cptrs : cptrs[p] \in DOMAIN cspace.slots,
         NEW out, out = sys_call(cspace, cptr, StubTag(m), StubBuffer(b, m, args, cptrs))
  PROVE  out.run = m /\ out.args = args /\ out.caps = cptrs
<1> DEFINE e == Dispatch[m]
           c == StubBuffer(b, m, args, cptrs)
           tag == StubTag(m)
<1>1. /\ WellFormed(e) /\ Stubs[m].mrs = e.mrs /\ Stubs[m].caps = e.caps
      /\ Stubs[m].length = e.length /\ Stubs[m].extra_caps = e.extra_caps
  BY TablesAgree DEF Agree
<1>3. /\ tag.label = m /\ tag.length = e.length /\ tag.extra_caps = e.extra_caps
  BY <1>1 DEF StubTag, new_message_tag
<1>4. (\A i \in 1..Len(e.mrs) : c.mr[i - 1] = Narrow(e.mrs[i], args[e.mrs[i]]))
      /\ (\A i \in 1..Len(e.caps) : c.cap[i - 1] = cptrs[e.caps[i]])
  BY ONLY StubStores, m \in Methods, Shaped(b)
<1>5. \A i \in 1..Len(e.mrs) : c.mr[i - 1] = Narrow(e.mrs[i], args[e.mrs[i]])
  BY <1>4, Zenon
<1>6. \A i \in 1..Len(e.caps) : c.cap[i - 1] = cptrs[e.caps[i]]
  BY <1>4, Zenon
<1> HIDE DEF c, e, tag
<1>7. \A i \in 1..Len(e.caps) : lookup_cap_slot_raw(cspace, c.cap[i - 1]) = "NO_ERROR"
  BY <1>1, <1>6 DEF lookup_cap_slot_raw, CapParams
<1>8. sys_call(cspace, cptr, tag, c) = Run(m, c)
  <2>1. ~(tag.length < e.length) /\ ~(tag.extra_caps < e.extra_caps)
    BY <1>1, <1>3 DEF WellFormed
  <2>2. lookup_cap_slot_raw(cspace, cptr) = "NO_ERROR"
    BY DEF lookup_cap_slot_raw
  <2>3. tag.label = m /\ cspace.slots[cptr] = Dispatch[m].type
    BY <1>3
  <2> QED BY <1>7, <2>1, <2>2, <2>3 DEF sys_call, dispatch_method, e
<1>9. Run(m, c).args = args
  <2> DEFINE P == {e.mrs[i] : i \in 1..Len(e.mrs)}
             Loaded(p) == Narrow(p, c.mr[(CHOOSE i \in 1..Len(e.mrs) : e.mrs[i] = p) - 1])
  <2>1. Run(m, c).args = [p \in P |-> Loaded(p)]
    BY DEF Run, e
  <2>2. ASSUME NEW p \in P PROVE Loaded(p) = args[p]
    <3> DEFINE n == CHOOSE i \in 1..Len(e.mrs) : e.mrs[i] = p
    <3>1. n \in 1..Len(e.mrs) /\ e.mrs[n] = p
      OBVIOUS
    <3>2. c.mr[n - 1] = Narrow(p, args[p])
      BY <1>5, <3>1
    <3>3. p \in DOMAIN args
      BY <1>1 DEF MrParams
    <3>4. args[p] = Narrow(p, args[p])
      BY <3>3 DEF Narrowed
    <3> QED BY <3>2, <3>4
  <2>3. args = [p \in P |-> args[p]]
    BY <1>1 DEF IsFcn, MrParams
  <2> HIDE DEF P, Loaded
  <2>4. [p \in P |-> Loaded(p)] = [p \in P |-> args[p]]
    BY <2>2, Zenon
  <2> QED BY <2>1, <2>3, <2>4, Zenon
<1>10. Run(m, c).caps = cptrs
  <2> DEFINE P == {e.caps[i] : i \in 1..Len(e.caps)}
             Loaded(p) == c.cap[(CHOOSE i \in 1..Len(e.caps) : e.caps[i] = p) - 1]
  <2>1. Run(m, c).caps = [p \in P |-> Loaded(p)]
    BY DEF Run, e
  <2>2. ASSUME NEW p \in P PROVE Loaded(p) = cptrs[p]
    <3> DEFINE n == CHOOSE i \in 1..Len(e.caps) : e.caps[i] = p
    <3>1. n \in 1..Len(e.caps) /\ e.caps[n] = p
      OBVIOUS
    <3> QED BY <1>6, <3>1
  <2>3. cptrs = [p \in P |-> cptrs[p]]
    BY <1>1 DEF IsFcn, CapParams
  <2> HIDE DEF P, Loaded
  <2>4. [p \in P |-> Loaded(p)] = [p \in P |-> cptrs[p]]
    BY <2>2, Zenon
  <2> QED BY <2>1, <2>3, <2>4, Zenon
<1>11. Run(m, c).run = m
  BY DEF Run
<1> QED BY <1>8, <1>9, <1>10, <1>11 DEF c, tag

(* The buffer with the words and pointers of a message made by hand. *)
RawBuffer(b, length, extra) ==
  SetCaps(SetMrs(b, [i \in 1..length |-> RawWord(i)]), [i \in 1..extra |-> 3 + i])

(* Every argument handed to the handler is one of this message. *)
Fresh(out, length, extra) ==
  /\ \A p \in DOMAIN out.args : \E i \in 1..length : out.args[p] = Narrow(p, RawWord(i))
  /\ \A p \in DOMAIN out.caps : \E i \in 1..extra : out.caps[p] = 3 + i

(* A message the client made itself: what runs has read words and pointers *)
(* of this message only.                                                   *)
LEMMA RawIsFresh ==
  ASSUME NEW m, NEW cspace, NEW cptr, NEW b, Shaped(b),
         NEW length \in Nat, NEW extra \in Nat,
         NEW out, out = sys_call(cspace, cptr, new_message_tag(m, extra, length),
                                 RawBuffer(b, length, extra)),
         out.run # "none"
  PROVE  Fresh(out, length, extra)
<1> DEFINE e == Dispatch[m]
           words == [i \in 1..length |-> RawWord(i)]
           pointers == [i \in 1..extra |-> 3 + i]
           s == SetMrs(b, words)
           c == SetCaps(s, pointers)
           tag == new_message_tag(m, extra, length)
<1>1. tag.label = m /\ tag.length = length /\ tag.extra_caps = extra
  BY DEF new_message_tag
<1>2. Len(words) = length /\ Len(pointers) = extra
  OBVIOUS
<1>3. Shaped(s) /\ Shaped(c) /\ c.mr = s.mr
  BY SetMrsShaped, SetCapsShaped
<1> HIDE DEF words, pointers, tag
<1>4. /\ m \in Methods /\ ~(length < e.length) /\ ~(extra < e.extra_caps) /\ out = Run(m, c)
  BY <1>1, RunsCovered DEF tag, words, pointers, RawBuffer
<1>5. WellFormed(e)
  BY <1>4, TablesAgree
<1>6. \A i \in 1..Len(e.mrs) : i \in 1..length /\ c.mr[i - 1] = RawWord(i)
  <2> SUFFICES ASSUME NEW i \in 1..Len(e.mrs)
               PROVE  i \in 1..length /\ c.mr[i - 1] = RawWord(i)
    OBVIOUS
  <2>1. i - 1 \in Registers /\ i - 1 < Len(words) /\ (i - 1) + 1 = i /\ i \in 1..length
    BY <1>2, <1>4, <1>5, DispatchAssumption DEF WellFormed, Registers
  <2>2. s.mr[i - 1] = words[(i - 1) + 1]
    BY <2>1, SetMrsShaped
  <2> QED BY <1>3, <2>1, <2>2 DEF words
<1>7. \A i \in 1..Len(e.caps) : i \in 1..extra /\ c.cap[i - 1] = 3 + i
  <2> SUFFICES ASSUME NEW i \in 1..Len(e.caps)
               PROVE  i \in 1..extra /\ c.cap[i - 1] = 3 + i
    OBVIOUS
  <2>1. /\ i - 1 \in 0..(MaxExtraCaps - 1) /\ i - 1 < Len(pointers) /\ (i - 1) + 1 = i
        /\ i \in 1..extra
    BY <1>2, <1>4, <1>5 DEF WellFormed, MaxExtraCaps
  <2>2. c.cap[i - 1] = pointers[i]
    BY <1>3, <2>1, SetCapsShaped
  <2> QED BY <2>1, <2>2 DEF pointers
<1> HIDE DEF c, e
<1>8. ASSUME NEW p \in DOMAIN out.args
      PROVE  \E i \in 1..length : out.args[p] = Narrow(p, RawWord(i))
  <2> DEFINE n == CHOOSE i \in 1..Len(e.mrs) : e.mrs[i] = p
  <2>1. Run(m, c).args = [q \in {e.mrs[i] : i \in 1..Len(e.mrs)} |->
                   Narrow(q, c.mr[(CHOOSE i \in 1..Len(e.mrs) : e.mrs[i] = q) - 1])]
    BY DEF Run, e
  <2>2. out.args = [q \in {e.mrs[i] : i \in 1..Len(e.mrs)} |->
                   Narrow(q, c.mr[(CHOOSE i \in 1..Len(e.mrs) : e.mrs[i] = q) - 1])]
    BY <1>4, <2>1, Zenon
  <2>3. p \in {e.mrs[i] : i \in 1..Len(e.mrs)} /\ out.args[p] = Narrow(p, c.mr[n - 1])
    BY <2>2
  <2>4. n \in 1..Len(e.mrs)
    BY <2>3
  <2> HIDE DEF n
  <2> QED BY <1>6, <2>3, <2>4
<1>9. ASSUME NEW p \in DOMAIN out.caps
      PROVE  \E i \in 1..extra : out.caps[p] = 3 + i
  <2> DEFINE n == CHOOSE i \in 1..Len(e.caps) : e.caps[i] = p
  <2>1. Run(m, c).caps = [q \in {e.caps[i] : i \in 1..Len(e.caps)} |->
                   c.cap[(CHOOSE i \in 1..Len(e.caps) : e.caps[i] = q) - 1]]
    BY DEF Run, e
  <2>2. out.caps = [q \in {e.caps[i] : i \in 1..Len(e.caps)} |->
                   c.cap[(CHOOSE i \in 1..Len(e.caps) : e.caps[i] = q) - 1]]
    BY <1>4, <2>1, Zenon
  <2>3. p \in {e.caps[i] : i \in 1..Len(e.caps)} /\ out.caps[p] = c.cap[n - 1]
    BY <2>2
  <2>4. n \in 1..Len(e.caps)
    BY <2>3
  <2> HIDE DEF n
  <2> QED BY <1>7, <2>3, <2>4
<1> QED BY <1>8, <1>9 DEF Fresh


(* An answer of the kernel has all its fields. *)
LEMMA SysCallRecord ==
  ASSUME NEW cspace, NEW cptr, NEW tag, NEW b
  PROVE  {"run", "args", "caps"} \subseteq DOMAIN sys_call(cspace, cptr, tag, b)
<1>1. \A label, words : {"run", "args", "caps"} \subseteq DOMAIN Refuse(label, b, words)
  BY DEF Refuse
<1>2. \A m : {"run", "args", "caps"} \subseteq DOMAIN Run(m, b)
  BY DEF Run
<1> QED BY <1>1, <1>2 DEF sys_call, dispatch_method, msg_range_error, msg_truncated_message,
                          msg_illegal_operation, msg_invalid_root, lookup_cap_slot

-----------------------------------------------------------------------------
(* The client's buffer is one, whatever it holds. *)
BufferInv == "client" \in DOMAIN buf /\ Shaped(buf["client"])

IInv == BufferInv /\ StubReachesHandler /\ NoStaleArgument

(* What the client finds in its buffer after a call. *)
LEMMA InvokedShaped ==
  ASSUME NEW cspace, NEW cptr, NEW tag, NEW b, Shaped(b), NEW n
  PROVE  Shaped(Invoked(sys_call(cspace, cptr, tag, b), n))
BY SysCallShaped, SetMrsShaped DEF Invoked

(* A method called through its stub, or not reached. *)
LEMMA ClientStubKeeps ==
  ASSUME BufferInv, NEW m \in Methods, NEW cptr, NEW bad, NEW n, ClientStub(m, cptr, bad, n)
  PROVE  IInv'
<1> DEFINE s     == Stubs[m]
           args  == [p \in {s.mrs[i] : i \in 1..Len(s.mrs)} |->
                       Narrow(p, StubWord(CHOOSE i \in 1..Len(s.mrs) : s.mrs[i] = p))]
           cptrs == [p \in {s.caps[i] : i \in 1..Len(s.caps)} |->
                       IF p = bad THEN Len(ClientTypes)
                       ELSE CHOOSE i \in 1..Len(s.caps) : s.caps[i] = p]
           b     == StubBuffer(buf["client"], m, args, cptrs)
           out   == sys_call(ClientCSpace, cptr, StubTag(m), b)
<1>1. /\ buf' = [buf EXCEPT !["client"] = Invoked(out, n)]
      /\ call' = [how |-> "stub", method |-> m, cptr |-> cptr, args |-> args, cptrs |-> cptrs,
                  out |-> [out EXCEPT !.buf = <<>>]]
  BY DEF ClientStub
<1>2. Shaped(b)
  BY SetMrsShaped, SetCapsShaped DEF StubBuffer, BufferInv
<1>3. BufferInv'
  <2>1. Shaped(Invoked(out, n))
    BY <1>2, InvokedShaped
  <2> HIDE DEF out
  <2> QED BY <1>1, <2>1 DEF BufferInv
<1>4. IsFcn(args) /\ DOMAIN args = MrParams(s)
  BY DEF IsFcn, MrParams
<1>5. Narrowed(args)
  <2> SUFFICES ASSUME NEW p \in {s.mrs[i] : i \in 1..Len(s.mrs)}
               PROVE  args[p] = Narrow(p, args[p])
    BY DEF Narrowed
  <2> DEFINE w == StubWord(CHOOSE i \in 1..Len(s.mrs) : s.mrs[i] = p)
  <2>1. Len(s.mrs) \in Nat
    BY TablesAgree DEF Agree, WellFormed
  <2>2. w \in Nat
    BY <2>1 DEF StubWord
  <2>3. args[p] = Narrow(p, w)
    OBVIOUS
  <2> HIDE DEF args, w
  <2> QED BY <2>2, <2>3, NarrowTwice
<1>6. IsFcn(cptrs) /\ DOMAIN cptrs = CapParams(s)
  BY DEF IsFcn, CapParams
<1>7. {"run", "args", "caps"} \subseteq DOMAIN out
  BY SysCallRecord
<1>8. ASSUME cptr \in DOMAIN ClientSlots, ClientSlots[cptr] = Dispatch[m].type,
             \A p \in DOMAIN cptrs : cptrs[p] \in DOMAIN ClientSlots
      PROVE  out.run = m /\ out.args = args /\ out.caps = cptrs
  <2>1. Shaped(buf["client"])
    BY DEF BufferInv
  <2>2. ClientCSpace.root = "CNODE" /\ ClientCSpace.slots = ClientSlots
    BY DEF ClientCSpace, CSpace
  <2> HIDE DEF args, cptrs
  <2> QED BY ONLY <1>4, <1>5, <1>6, <1>8, <2>1, <2>2, m \in Methods, StubRuns
<1>9. StubReachesHandler'
  <2> HIDE DEF args, cptrs, out
  <2>1. /\ call'.how = "stub" /\ call'.method = m /\ call'.cptr = cptr /\ call'.args = args
        /\ call'.cptrs = cptrs /\ call'.out.run = out.run /\ call'.out.args = out.args
        /\ call'.out.caps = out.caps
    BY <1>1, <1>7
  <2> QED BY <1>8, <2>1 DEF StubReachesHandler
<1>10. NoStaleArgument'
  <2>1. call'.how = "stub"
    BY <1>1
  <2> QED BY <2>1 DEF NoStaleArgument
<1> QED BY <1>3, <1>9, <1>10 DEF IInv

(* A message of the client's own making. *)
LEMMA ClientRawKeeps ==
  ASSUME BufferInv, NEW root, NEW m, NEW cptr, NEW length \in Nat, NEW extra \in Nat, NEW n,
         ClientRaw(root, m, cptr, length, extra, n)
  PROVE  IInv'
<1> DEFINE c == RawBuffer(buf["client"], length, extra)
           out == sys_call(CSpace(root, ClientSlots), cptr, new_message_tag(m, extra, length), c)
<1>1. /\ buf' = [buf EXCEPT !["client"] = Invoked(out, n)]
      /\ call' = [how |-> "raw", method |-> m, length |-> length, extra |-> extra,
                  out |-> [out EXCEPT !.buf = <<>>]]
  BY DEF ClientRaw, RawBuffer
<1>2. Shaped(buf["client"]) /\ Shaped(c)
  BY SetMrsShaped, SetCapsShaped DEF BufferInv, RawBuffer
<1>3. BufferInv'
  <2>1. Shaped(Invoked(out, n))
    BY <1>2, InvokedShaped
  <2> HIDE DEF out
  <2> QED BY <1>1, <2>1 DEF BufferInv
<1>4. {"run", "args", "caps"} \subseteq DOMAIN out
  BY SysCallRecord
<1>5. ASSUME out.run # "none"
      PROVE  Fresh(out, length, extra)
  BY ONLY <1>2, <1>5, length \in Nat, extra \in Nat, RawIsFresh
<1> HIDE DEF out
<1>6. /\ call'.how = "raw" /\ call'.length = length /\ call'.extra = extra
      /\ call'.out.run = out.run /\ call'.out.args = out.args /\ call'.out.caps = out.caps
  BY <1>1, <1>4
<1>7. StubReachesHandler' /\ NoStaleArgument'
  BY <1>5, <1>6 DEF StubReachesHandler, NoStaleArgument, Fresh
<1> QED BY <1>3, <1>7 DEF IInv

(* The other steps end the client's call or leave it alone. *)
LEMMA RequestKeeps ==
  ASSUME IInv, (\E r \in Requests : ClientAsk(r)) \/ ManagerServe
  PROVE  IInv'
<1>1. ASSUME NEW r \in Requests, ClientAsk(r) PROVE IInv'
  <2>1. call'.how = "none" /\ buf'["client"] = SetMrs(buf["client"], r.words)
        /\ "client" \in DOMAIN buf'
    BY <1>1 DEF ClientAsk, NoCall
  <2> QED BY <2>1, SetMrsShaped DEF IInv, BufferInv, StubReachesHandler, NoStaleArgument
<1>2. ASSUME ManagerServe PROVE IInv'
  <2>1. PICK a : buf' = [client |-> Transfer(a.m.buf, buf["client"], a.tag.length),
                         manager |-> a.m.buf]
    BY <1>2 DEF ManagerServe
  <2>2. "client" \in DOMAIN buf'
        /\ buf'["client"] = Transfer(a.m.buf, buf["client"], a.tag.length)
    BY <2>1
  <2>3. BufferInv'
    BY <2>2 DEF IInv, BufferInv, Transfer, Shaped
  <2>4. call' = call
    BY <1>2 DEF ManagerServe
  <2> QED BY <2>3, <2>4 DEF IInv, StubReachesHandler, NoStaleArgument
<1> QED BY <1>1, <1>2

(* Every step of the client and of the manager. *)
LEMMA DispatchInductive == Spec => []IInv
<1>1. Init => IInv
  BY DEF Init, IInv, BufferInv, Shaped, EmptyBuffer, StubReachesHandler, NoStaleArgument, NoCall
<1>2. IInv /\ [Next]_vars => IInv'
  <2> SUFFICES ASSUME IInv, [Next]_vars PROVE IInv'
    OBVIOUS
  <2>1. CASE UNCHANGED vars
    BY <2>1 DEF vars, IInv, BufferInv, StubReachesHandler, NoStaleArgument
  <2>2. ASSUME NEW m \in CallMethods, NEW n, NEW cptr, NEW bad, ClientStub(m, cptr, bad, n)
        PROVE  IInv'
    BY <2>2, ClientStubKeeps, PciAssumption DEF IInv
  <2>3. ASSUME NEW m \in CallMethods, NEW n, NEW cptr,
               NEW length \in Around(Dispatch[m].length),
               NEW extra \in Around(Dispatch[m].extra_caps), NEW root,
               ClientRaw(root, m, cptr, length, extra, n)
        PROVE  IInv'
    <3>1. Dispatch[m].length \in Nat /\ Dispatch[m].extra_caps \in Nat
      BY TablesAgree, PciAssumption DEF WellFormed
    <3>2. length \in Nat /\ extra \in Nat
      BY <3>1 DEF Around
    <3> QED BY <2>3, <3>2, ClientRawKeeps DEF IInv
  <2> QED BY <2>1, <2>2, <2>3, RequestKeeps DEF Next
<1> QED BY <1>1, <1>2, PTL DEF Spec

(* The generated stubs and the generated dispatch agree: a method called   *)
(* through its stub reaches its handler with the caller's arguments under  *)
(* their names (user_method_stubs.h, syscall_dispatch.c).                  *)
THEOREM StubsReachHandlers == Spec => []StubReachesHandler
<1>1. IInv => StubReachesHandler
  BY DEF IInv
<1> QED BY <1>1, DispatchInductive, PTL

(* However long a buffer has been in use, no handler acts on what an       *)
(* earlier message left in it (syscall_dispatch.c: the checks of length    *)
(* and extra capabilities).                                                *)
THEOREM ArgumentsAreFresh == Spec => []NoStaleArgument
<1>1. IInv => NoStaleArgument
  BY DEF IInv
<1> QED BY <1>1, DispatchInductive, PTL


=============================================================================
