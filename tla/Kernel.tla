------------------------------- MODULE Kernel -------------------------------
(***************************************************************************)
(* The kernel on one CPU: user threads enter it by a system call           *)
(* (kern/syscall.c), devices by an interrupt (ints.c), and every entry     *)
(* ends in return_from_kernel_code (entry.c).  System calls hold the big   *)
(* kernel lock and run with interrupts masked, so each entry is one step.  *)
(*                                                                         *)
(* Every thread holds a capability to every object; TCBs have an IPC       *)
(* buffer before they first run.                                           *)
(***************************************************************************)
EXTENDS Endpoint, Irq

VARIABLES k,     \* the kernel's memory (module Tcb)
          irqs   \* the interrupt handler table (module Irq)

vars == <<k, irqs>>

this_tcb == k.current_tcb

Init == /\ \E boot \in Threads : k = BootMemory(boot)
        /\ irqs = init_ioapic

(* A thread runs in user mode; a halted CPU never does anything again. *)
InUserMode == k.panic = NoPanic /\ this_tcb # Null

(* The way out of the kernel.  A CPU that stops keeps the memory it had. *)
Leave(s) ==
  LET r == IF s.panic = NoPanic THEN return_from_kernel_code(s) ELSE s
  IN  k' = IF r.panic = NoPanic THEN r ELSE [k EXCEPT !.panic = r.panic]

Syscall(s) == InUserMode /\ Leave(s) /\ UNCHANGED irqs

-----------------------------------------------------------------------------
(* System calls without a capability. *)

SysExit == Syscall(schedule(kill_tcb(k, this_tcb)))

SysYield == Syscall(schedule(k))

SysReply == Syscall(invoke_reply(k))

(* System calls on an endpoint or a notification. *)

SysCall(e, b) == Syscall(invoke_endpoint_call(k, e, b))

SysSend(e, b) == Syscall(invoke_endpoint_send(k, e, b))

SysNbsend(e, b) == Syscall(invoke_endpoint_nbsend(k, e, b))

SysRecv(e) == Syscall(invoke_endpoint_recv(k, e))

SysNbrecv(e) == Syscall(invoke_endpoint_nbrecv(k, e))

SysReplyRecv(e) == Syscall(invoke_reply_recv(k, e))

SysSignal(n, b) == Syscall(notification_signal(k, n, b))

SysWait(n) == Syscall(invoke_notification_recv(k, n))

(* System calls on a TCB. *)

TcbResume(t) == Syscall(tcb_resume(k, t))

TcbSuspend(t) == Syscall(tcb_suspend(k, t))

TcbBindNotification(t, n) == Syscall(tcb_bind_notification(k, t, n))

(* System calls on the IRQ control and on a line's IRQ handler. *)

IrqCall(h) == InUserMode /\ irqs' = h /\ UNCHANGED k

IrqControlGet(i) == IrqCall(irq_control_get(irqs, i))

IrqHandlerClear(i) == irqs[i].issued /\ IrqCall(irq_handler_clear(irqs, i))

IrqHandlerAck(i) == irqs[i].issued /\ IrqCall(irq_handler_ack(irqs, i))

IrqHandlerSetNotification(i, n, b) ==
  irqs[i].issued /\ IrqCall(irq_handler_set_notification(irqs, i, n, b))

(* An interrupt on an unmasked line, in user mode or while the CPU idles. *)
Interrupt(i) ==
  /\ k.panic = NoPanic
  /\ ~irqs[i].masked
  /\ Leave(handle_irq_signal(k, irqs, i))
  /\ irqs' = handle_irq(irqs, i)

Next ==
  \/ SysExit \/ SysYield \/ SysReply
  \/ \E e \in Endpoints, b \in Badges :
       SysCall(e, b) \/ SysSend(e, b) \/ SysNbsend(e, b)
  \/ \E e \in Endpoints : SysRecv(e) \/ SysNbrecv(e) \/ SysReplyRecv(e)
  \/ \E n \in Notifications, b \in Badges : SysSignal(n, b)
  \/ \E n \in Notifications : SysWait(n)
  \/ \E t \in Threads : TcbResume(t) \/ TcbSuspend(t)
  \/ \E t \in Threads, n \in Notifications : TcbBindNotification(t, n)
  \/ \E i \in Irqs : IrqControlGet(i) \/ IrqHandlerClear(i) \/ IrqHandlerAck(i)
  \/ \E i \in Irqs, n \in Notifications, b \in Badges :
       IrqHandlerSetNotification(i, n, b)
  \/ \E i \in Irqs : Interrupt(i)

Spec == Init /\ [][Next]_vars

-----------------------------------------------------------------------------
(***************************************************************************)
(* The contract.  The kernel does not check everything its clients must    *)
(* not do.  ClientNext is the system whose threads keep to the clauses     *)
(* below; the invariants hold for it, and the specifications at its end    *)
(* drop one clause each.                                                   *)
(***************************************************************************)

(* t was never started, or was suspended while it waited for the CPU. *)
Inactive(t) ==
  /\ t # this_tcb
  /\ ~OnList(k.runnable_tcbs, t)
  /\ ~Queued(k, t)
  /\ k.state[t] \in {"RUNNABLE", "SUSPENDED"}

(* The call of c was taken by t and is not answered yet. *)
Owes(t, c) == k.state[c] = "CALLING" /\ k.server[c] = t

(* A server answers each call it takes before it receives or calls. *)
OwesNothing == \A c \in Threads : ~Owes(this_tcb, c)

OwesReply == InUserMode /\ ~OwesNothing

(* Only the thread a notification is bound to waits for it, and such a     *)
(* thread waits for no other.                                              *)
MayWaitOn(n) == /\ k.bound_tcb[n] \in {Null, this_tcb}
                /\ k.bound_notification[this_tcb] \in {Null, n}

(* A thread is bound once, and not while it is blocked behind a signal. *)
MayBind(t, n) ==
  /\ k.bound_notification[t] = Null
  /\ k.list[n] = <<>>
  /\ k.word[n] # {} => k.state[t] # "RECEIVING"

(* A handler is (re)attached while its line is not being served. *)
MayAttach(i) == ~irqs[i].in_service

ClientNext ==
  \/ SysExit \/ SysYield
  \/ OwesReply /\ SysReply
  \/ OwesNothing /\ \E e \in Endpoints, b \in Badges : SysCall(e, b)
  \/ \E e \in Endpoints, b \in Badges : SysSend(e, b)
  \/ OwesNothing /\ \E e \in Endpoints : SysRecv(e) \/ SysNbrecv(e)
  \/ OwesReply /\ \E e \in Endpoints : SysReplyRecv(e)
  \/ \E n \in Notifications, b \in Badges : SysSignal(n, b)
  \/ InUserMode /\ OwesNothing
       /\ \E n \in Notifications : MayWaitOn(n) /\ SysWait(n)
  \/ \E t \in Threads : Inactive(t) /\ TcbResume(t)
  \/ \E t \in Threads : OnList(k.runnable_tcbs, t) /\ TcbSuspend(t)
  \/ \E t \in Threads, n \in Notifications :
       MayBind(t, n) /\ TcbBindNotification(t, n)
  \/ \E i \in Irqs : IrqControlGet(i) \/ IrqHandlerClear(i) \/ IrqHandlerAck(i)
  \/ \E i \in Irqs, n \in Notifications, b \in Badges :
       MayAttach(i) /\ IrqHandlerSetNotification(i, n, b)
  \/ \E i \in Irqs : Interrupt(i)

ClientSpec == Init /\ [][ClientNext]_vars

(* Servers may call another server before they answer. *)
NestedCallSpec ==
  Init /\ [][ClientNext \/ \E e \in Endpoints, b \in Badges : SysCall(e, b)]_vars

-----------------------------------------------------------------------------
(* The kernel's memory and the handler table hold values of their types. *)
TypeOK == k \in KernelMemory /\ irqs \in [Irqs -> HandlerRecords]

(* The run list holds each thread that waits for the CPU exactly once, and *)
(* nobody else: no entry to the kernel pops a thread and forgets it, none  *)
(* links one twice (tcb.c schedule, schedule_tcb, switch_tcb).             *)
RunListExact ==
  /\ NoDuplicates(k.runnable_tcbs)
  /\ \A t \in Threads : OnList(k.runnable_tcbs, t)
                          <=> k.state[t] = "RUNNABLE" /\ k.run_node[t]

(* Outside the kernel the chosen thread is the one that runs, it alone is  *)
(* RUNNING, and the CPU idles only when nobody waits for it (schedule,     *)
(* return_from_kernel_code).                                               *)
CpuConsistent ==
  /\ k.return_to_tcb = k.current_tcb
  /\ \A t \in Threads : k.state[t] = "RUNNING" <=> t = k.current_tcb
  /\ k.current_tcb = Null => k.runnable_tcbs = <<>>

AwaitsReply(t) == k.state[t] = "CALLING" /\ k.server[t] # Null

(* A thread is in a queue, once and in one queue only, exactly while it is *)
(* blocked on it: not when a bound notification, a reply or a rendezvous   *)
(* woke it (endpoint.c, notification.c).                                   *)
QueuesExact ==
  /\ \A o \in Queues : NoDuplicates(k.list[o])
  /\ \A o, p \in Queues, t \in Threads :
       OnList(k.list[o], t) /\ OnList(k.list[p], t) => o = p
  /\ \A t \in Threads :
       Queued(k, t) <=> /\ k.state[t] \in {"SENDING", "RECEIVING", "CALLING"}
                        /\ ~AwaitsReply(t)

(* An endpoint's queue never mixes senders and receivers, though send and  *)
(* receive look at the first thread only; a notification's queue holds     *)
(* receivers only (recv_will_block, send_will_block).                      *)
QueuesHomogeneous ==
  /\ \A e \in Endpoints : \A i, j \in 1..Len(k.list[e]) :
       k.state[k.list[e][i]] = "RECEIVING" <=> k.state[k.list[e][j]] = "RECEIVING"
  /\ \A n \in Notifications : \A i \in 1..Len(k.list[n]) :
       k.state[k.list[n][i]] = "RECEIVING"

(* No lost wakeup: while a notification's word is pending nobody waits in  *)
(* its queue and the thread bound to it is not blocked in a receive        *)
(* (notification_signal, handle_recv_with_pending_notification).           *)
NoLostWakeup ==
  \A n \in Notifications : k.word[n] # {} =>
    /\ k.list[n] = <<>>
    /\ k.bound_tcb[n] # Null => k.state[k.bound_tcb[n]] # "RECEIVING"

(* Every caller whose call was taken can still be answered: its server's   *)
(* reply_to is the caller until the reply (transfer_message, invoke_reply).*)
CallersAnswerable ==
  \A c \in Threads : AwaitsReply(c) => k.reply_to[k.server[c]] = c

(* No assertion of the kernel fails, no list is corrupted, no null pointer *)
(* is followed and no debug trap is hit (tcb.c, list.h, invoke_reply).     *)
NeverPanics == k.panic = NoPanic

(* A line in service stays masked until the driver acknowledges it, so no  *)
(* interrupt arrives only to be dropped (handle_irq, irq_handler_ack).     *)
InServiceMasked == \A i \in Irqs : irqs[i].in_service => irqs[i].masked

(* An exited thread never runs or waits again (kill_tcb). *)
DeadStaysDead ==
  [][\A t \in Threads : k.state[t] = "DEAD" => k'.state[t] = "DEAD"]_vars

(* A caller goes on only because the thread that took its call answers it: *)
(* not on a stale reply_to of somebody else, and not before its call was   *)
(* taken (invoke_reply, transfer_message).                                 *)
ReplyFromServer ==
  [][\A c \in Threads :
       k.state[c] = "CALLING" /\ k'.state[c] # "CALLING" =>
         k.server[c] # Null /\ k.server[c] = k.current_tcb]_vars

=============================================================================
