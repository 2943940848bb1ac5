-------------------------------- MODULE Irq --------------------------------
(***************************************************************************)
(* Interrupt handlers (kern/obj/irq.c, ioapic.c).  h is the table          *)
(* irq_handlers with, for each line, the mask bit of its I/O APIC entry    *)
(* and its bit of irq_handlers_issued.                                     *)
(***************************************************************************)
EXTENDS Notification

CONSTANTS Irqs,         \* the interrupt lines in use, out of the 16 of the table
          MaskedAtBoot  \* the lines of PCI links and the timer's entry

ASSUME IrqAssumption == MaskedAtBoot \subseteq Irqs

HandlerRecords ==
  [n: Notifications \cup {Null}, badge: Badges, in_service: BOOLEAN,
   masked: BOOLEAN, issued: BOOLEAN]

(* The entries of the other lines start unmasked; the table is zeroed memory. *)
init_ioapic ==
  [i \in Irqs |-> [n |-> Null, badge |-> {}, in_service |-> FALSE,
                   masked |-> i \in MaskedAtBoot, issued |-> FALSE]]

mask_irq(h, i) == [h EXCEPT ![i].masked = TRUE]

unmask_irq(h, i) == [h EXCEPT ![i].masked = FALSE]

(* Each line's handler capability is handed out once. *)
irq_control_get(h, i) ==
  IF h[i].issued THEN h ELSE [h EXCEPT ![i].issued = TRUE]

irq_handler_clear(h, i) == [h EXCEPT ![i].n = Null]

irq_handler_ack(h, i) == [unmask_irq(h, i) EXCEPT ![i].in_service = FALSE]

irq_handler_set_notification(h, i, n, badge) ==
  unmask_irq([h EXCEPT ![i].n = n, ![i].badge = badge], i)

(* handle_irq drops the interrupt when nobody listens or when the line is  *)
(* still in service; otherwise it masks the line and signals.              *)
Accepts(h, i) == h[i].n # Null /\ ~h[i].in_service

(* Mutant: leaves the line unmasked. *)
handle_irq_mutant(h, i) ==
  IF Accepts(h, i) THEN [h EXCEPT ![i].in_service = TRUE] ELSE h

handle_irq(h, i) ==
  IF Accepts(h, i) THEN [mask_irq(h, i) EXCEPT ![i].in_service = TRUE] ELSE h

(* Mutant: signals the number of the line instead of the handler's badge. *)
handle_irq_signal_mutant(s, h, i) ==
  IF Accepts(h, i) THEN notification_signal(s, h[i].n, {i}) ELSE s

handle_irq_signal(s, h, i) ==
  IF Accepts(h, i) THEN notification_signal(s, h[i].n, h[i].badge) ELSE s

=============================================================================
