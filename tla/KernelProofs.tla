---------------------------- MODULE KernelProofs ----------------------------
(***************************************************************************)
(* Theorems about the kernel, for every set of objects.  The lemmas follow *)
(* the C functions: each says that a function called on a well-typed       *)
(* kernel memory returns a well-typed one.                                 *)
(***************************************************************************)
EXTENDS Kernel, TLAPS

(* Stopping the CPU only sets the reason. *)
LEMMA PanicType ==
  ASSUME NEW s \in KernelMemory, NEW why \in PanicReasons
  PROVE  Panic(s, why) \in KernelMemory
BY DEF Panic, KernelMemory

(* list.h: linking a thread gives a list of threads. *)
LEMMA AppendType ==
  ASSUME NEW q \in Seq(Threads), NEW t \in Threads
  PROVE  append_to_list(q, t) \in Seq(Threads)
BY DEF append_to_list

(* list.h: so does unlinking one. *)
LEMMA RemoveType ==
  ASSUME NEW q \in Seq(Threads), NEW t \in Threads
  PROVE  remove_from_list(q, t) \in Seq(Threads)
<1>1. CASE OnList(q, t)
  <2> DEFINE p == CHOOSE i \in 1..Len(q) : q[i] = t
  <2>1. Len(q) \in Nat /\ Len(q) >= 1
    BY <1>1 DEF OnList
  <2>2. [i \in 1..(Len(q) - 1) |-> IF i < p THEN q[i] ELSE q[i + 1]] \in Seq(Threads)
    <3>1. \A i \in 1..(Len(q) - 1) : q[i] \in Threads /\ q[i + 1] \in Threads
      BY <2>1
    <3> HIDE DEF p
    <3>2. [i \in 1..(Len(q) - 1) |-> IF i < p THEN q[i] ELSE q[i + 1]]
             \in [1..(Len(q) - 1) -> Threads]
      BY <3>1
    <3>3. Len(q) - 1 \in Nat
      BY <2>1
    <3> QED BY <3>2, <3>3
  <2> QED BY <1>1, <2>2 DEF remove_from_list
<1>2. CASE ~OnList(q, t)
  BY <1>2 DEF remove_from_list
<1> QED BY <1>1, <1>2

(* tcb.c schedule_tcb. *)
LEMMA ScheduleTcbType ==
  ASSUME NEW s \in KernelMemory, NEW t \in Threads
  PROVE  schedule_tcb(s, t) \in KernelMemory
BY PanicType, AppendType, ZenonT(40) DEF schedule_tcb, KernelMemory, TaskStates, PanicReasons

(* tcb.c switch_tcb. *)
LEMMA SwitchTcbType ==
  ASSUME NEW s \in KernelMemory, NEW t \in Threads
  PROVE  switch_tcb(s, t) \in KernelMemory
BY DEF switch_tcb, KernelMemory, TaskStates, ThreadOrNull

(* tcb.c suspend_tcb. *)
LEMMA SuspendTcbType ==
  ASSUME NEW s \in KernelMemory, NEW t \in Threads
  PROVE  suspend_tcb(s, t) \in KernelMemory
BY PanicType, RemoveType, ZenonT(40) DEF suspend_tcb, KernelMemory, TaskStates, PanicReasons

(* tcb.c kill_tcb. *)
LEMMA KillTcbType ==
  ASSUME NEW s \in KernelMemory, NEW t \in Threads
  PROVE  kill_tcb(s, t) \in KernelMemory
BY PanicType, ZenonT(40) DEF kill_tcb, KernelMemory, TaskStates, PanicReasons

(* tcb.c schedule. *)
LEMMA ScheduleType ==
  ASSUME NEW s \in KernelMemory
  PROVE  schedule(s) \in KernelMemory
<1>1. CASE s.runnable_tcbs # <<>>
  <2>1. s.runnable_tcbs \in Seq(Threads)
    BY DEF KernelMemory
  <2>2. Head(s.runnable_tcbs) \in Threads /\ Tail(s.runnable_tcbs) \in Seq(Threads)
    BY <1>1, <2>1
  <2>3. [s EXCEPT !.runnable_tcbs = Tail(s.runnable_tcbs)] \in KernelMemory
    BY <2>2 DEF KernelMemory
  <2> QED BY <1>1, <2>2, <2>3, SwitchTcbType DEF schedule
<1>2. CASE s.runnable_tcbs = <<>>
  BY <1>2 DEF schedule, KernelMemory, ThreadOrNull
<1> QED BY <1>1, <1>2

(* tcb.c switch_tcb_actual. *)
LEMMA SwitchTcbActualType ==
  ASSUME NEW s \in KernelMemory, NEW t \in Threads
  PROVE  switch_tcb_actual(s, t) \in KernelMemory
<1> DEFINE r == IF WantsToContinue(s) THEN schedule_tcb(s, s.current_tcb) ELSE s
<1>1. r \in KernelMemory
  <2>1. WantsToContinue(s) => s.current_tcb \in Threads
    BY DEF WantsToContinue, KernelMemory, ThreadOrNull
  <2> QED BY <2>1, ScheduleTcbType
<1> HIDE DEF r
<1>2. Panic(r, "assert") \in KernelMemory
  BY <1>1, PanicType DEF PanicReasons
<1>3. [r EXCEPT !.current_tcb = t, !.state[t] = "RUNNING"] \in KernelMemory
  BY <1>1 DEF KernelMemory, TaskStates, ThreadOrNull
<1> QED BY <1>2, <1>3 DEF switch_tcb_actual, r

(* tcb.c return_from_kernel_code. *)
LEMMA ReturnType ==
  ASSUME NEW s \in KernelMemory
  PROVE  return_from_kernel_code(s) \in KernelMemory
<1>1. s.return_to_tcb # Null => s.return_to_tcb \in Threads
  BY DEF KernelMemory, ThreadOrNull
<1>2. [s EXCEPT !.current_tcb = Null] \in KernelMemory
  BY DEF KernelMemory, ThreadOrNull
<1> QED BY <1>1, <1>2, SwitchTcbActualType DEF return_from_kernel_code

(* tcb.c tcb_bind_notification. *)
LEMMA BindType ==
  ASSUME NEW s \in KernelMemory, NEW t \in Threads, NEW n \in Notifications
  PROVE  tcb_bind_notification(s, t, n) \in KernelMemory
BY DEF tcb_bind_notification, KernelMemory, ThreadOrNull

(* notification.c: storing a badge and switching to the waiter. *)
LEMMA SignalWaitingType ==
  ASSUME NEW s \in KernelMemory, NEW t \in Threads, NEW badge \in Badges
  PROVE  signal_waiting_receiver(s, t, badge) \in KernelMemory
<1>1. [s EXCEPT !.sender_badge[t] = badge] \in KernelMemory
  BY DEF KernelMemory
<1> QED BY <1>1, SwitchTcbType DEF signal_waiting_receiver

(* notification.c notification_signal. *)
LEMMA SignalType ==
  ASSUME NEW s \in KernelMemory, NEW n \in Notifications, NEW badge \in Badges
  PROVE  notification_signal(s, n, badge) \in KernelMemory
<1> DEFINE pending == s.word[n] \cup badge
           cleared == [s EXCEPT !.word[n] = {}]
           first == Head(s.list[n])
           bound == s.bound_tcb[n]
<1>1. pending \in Badges
  BY DEF KernelMemory, Badges
<1>2. cleared \in KernelMemory /\ cleared.list = s.list
  BY DEF KernelMemory, Badges
<1>3. n \in Queues /\ s.list \in [Queues -> Seq(Threads)]
  BY DEF KernelMemory, Queues
<1>4. CASE s.list[n] # <<>>
  <2>1. first \in Threads
    BY <1>3, <1>4
  <2>2. remove_from_list(s.list[n], first) \in Seq(Threads)
    BY <1>3, <2>1, RemoveType
  <2> HIDE DEF cleared, first, pending
  <2>3. [cleared EXCEPT !.list[n] = remove_from_list(s.list[n], first)] \in KernelMemory
    BY <1>2, <1>3, <2>2 DEF KernelMemory
  <2>4. signal_waiting_receiver([cleared EXCEPT !.list[n] = remove_from_list(s.list[n], first)],
                                first, pending) \in KernelMemory
    BY <1>1, <2>1, <2>3, SignalWaitingType
  <2> QED BY <1>4, <2>4 DEF notification_signal, cleared, first, pending
<1>5. CASE s.list[n] = <<>> /\ bound # Null /\ s.state[bound] = "RECEIVING"
  <2>1. bound \in Threads
    BY <1>5 DEF KernelMemory, ThreadOrNull
  <2> HIDE DEF cleared, bound, pending
  <2>2. [o \in Queues |-> remove_from_list(cleared.list[o], bound)]
          \in [Queues -> Seq(Threads)]
    BY <1>2, <1>3, <2>1, RemoveType
  <2>3. [cleared EXCEPT !.list = [o \in Queues |-> remove_from_list(cleared.list[o], bound)]]
          \in KernelMemory
    BY <1>2, <2>2 DEF KernelMemory
  <2>4. signal_bound_receiver_waiting_on_something_else(cleared, bound, pending)
          \in KernelMemory
    BY <1>1, <2>1, <2>3, SignalWaitingType
       DEF signal_bound_receiver_waiting_on_something_else
  <2> QED BY <1>5, <2>4 DEF notification_signal, cleared, bound, pending
<1>6. CASE s.list[n] = <<>> /\ ~(bound # Null /\ s.state[bound] = "RECEIVING")
  <2>1. [s EXCEPT !.word[n] = pending] \in KernelMemory
    BY <1>1 DEF KernelMemory
  <2> QED BY <1>6, <2>1 DEF notification_signal
<1> QED BY <1>4, <1>5, <1>6

(* Blocking the current thread in a queue, whatever its new state is. *)
LEMMA EnqueueType ==
  ASSUME NEW s \in KernelMemory, NEW o \in Queues, s.current_tcb \in Threads,
         NEW st \in TaskStates
  PROVE  [s EXCEPT !.list[o] = append_to_list(s.list[o], s.current_tcb),
                   !.state[s.current_tcb] = st] \in KernelMemory
<1>1. s.list[o] \in Seq(Threads)
  BY DEF KernelMemory
<1>2. append_to_list(s.list[o], s.current_tcb) \in Seq(Threads)
  BY <1>1, AppendType
<1> QED BY <1>2 DEF KernelMemory

(* notification.c queue_receiver_on_notification. *)
LEMMA QueueOnNotificationType ==
  ASSUME NEW s \in KernelMemory, NEW n \in Notifications, s.current_tcb \in Threads
  PROVE  queue_receiver_on_notification(s, n) \in KernelMemory
<1>1. n \in Queues /\ "RECEIVING" \in TaskStates /\ "list" \in PanicReasons
  BY DEF Queues, TaskStates, PanicReasons
<1> QED BY <1>1, EnqueueType, ScheduleType, PanicType DEF queue_receiver_on_notification

(* tcb.c: neither killing a thread nor choosing the next one changes who   *)
(* the current thread is.                                                  *)
LEMMA CurrentKept ==
  ASSUME NEW s \in KernelMemory
  PROVE  /\ schedule(s).current_tcb = s.current_tcb
         /\ \A t \in Threads : kill_tcb(s, t).current_tcb = s.current_tcb
BY DEF schedule, switch_tcb, kill_tcb, Panic, KernelMemory

(* notification.c invoke_notification_recv. *)
LEMMA WaitType ==
  ASSUME NEW s \in KernelMemory, NEW n \in Notifications, s.current_tcb \in Threads
  PROVE  invoke_notification_recv(s, n) \in KernelMemory
<1> DEFINE bound == s.bound_tcb[n]
           r == IF bound # Null /\ bound # s.current_tcb
                  THEN schedule(kill_tcb(s, s.current_tcb)) ELSE s
<1>1. r \in KernelMemory /\ r.current_tcb \in Threads
  BY KillTcbType, ScheduleType, CurrentKept
<1> HIDE DEF r
<1>2. [r EXCEPT !.word[n] = {}] \in KernelMemory
  BY <1>1 DEF KernelMemory, Badges
<1> QED BY <1>1, <1>2, QueueOnNotificationType DEF invoke_notification_recv, r

-----------------------------------------------------------------------------
(* endpoint.c transfer_message. *)
LEMMA TransferType ==
  ASSUME NEW s \in KernelMemory, NEW sender \in Threads, NEW receiver \in Threads,
         NEW badge \in Badges
  PROVE  transfer_message(s, sender, receiver, badge) \in KernelMemory
<1> DEFINE r == [s EXCEPT !.sender_badge[receiver] = badge]
<1>1. r \in KernelMemory
  BY DEF KernelMemory
<1> HIDE DEF r
<1>2. [r EXCEPT !.reply_to[receiver] = sender,
                !.server[sender] = IF s.state[sender] = "CALLING" THEN receiver ELSE @]
        \in KernelMemory
  BY <1>1 DEF KernelMemory, ThreadOrNull
<1> QED BY <1>1, <1>2 DEF transfer_message, r

(* endpoint.c send_message_directly. *)
LEMMA SendDirectlyType ==
  ASSUME NEW s \in KernelMemory, NEW receiver \in Threads, NEW badge \in Badges,
         NEW now \in BOOLEAN, s.current_tcb \in Threads
  PROVE  send_message_directly(s, receiver, badge, now) \in KernelMemory
BY TransferType, SwitchTcbType, ScheduleTcbType DEF send_message_directly

(* Popping the first thread of a queue, as pop_from_list does. *)
LEMMA PopType ==
  ASSUME NEW s \in KernelMemory, NEW o \in Queues, s.list[o] # <<>>
  PROVE  /\ [s EXCEPT !.list[o] = Tail(s.list[o])] \in KernelMemory
         /\ [s EXCEPT !.list[o] = Tail(s.list[o])].current_tcb = s.current_tcb
         /\ Head(s.list[o]) \in Threads
<1>1. s.list[o] \in Seq(Threads)
  BY DEF KernelMemory
<1>2. Head(s.list[o]) \in Threads /\ Tail(s.list[o]) \in Seq(Threads)
  BY <1>1
<1> QED BY <1>2 DEF KernelMemory

(* endpoint.c endpoint_send. *)
LEMMA EndpointSendType ==
  ASSUME NEW s \in KernelMemory, NEW e \in Endpoints, NEW badge \in Badges,
         NEW is_call \in BOOLEAN, s.current_tcb \in Threads
  PROVE  endpoint_send(s, e, badge, is_call) \in KernelMemory
<1>1. e \in Queues /\ "list" \in PanicReasons
  BY DEF Queues, PanicReasons
<1>2. CASE send_will_block(s, e)
  <2> DEFINE t == s.current_tcb
             st == IF is_call THEN "CALLING" ELSE "SENDING"
             q == [s EXCEPT !.list[e] = append_to_list(s.list[e], t),
                            !.state[t] = st,
                            !.endpoint_badge[t] = badge]
  <2>1. append_to_list(s.list[e], t) \in Seq(Threads)
    BY <1>1, AppendType DEF KernelMemory
  <2>2. q \in KernelMemory
    BY <1>1, <2>1 DEF KernelMemory, TaskStates
  <2>3. queue_message_on_endpoint(s, e, badge, is_call) \in KernelMemory
    BY <1>1, <2>2, ScheduleType, PanicType DEF queue_message_on_endpoint
  <2> QED BY <1>2, <2>3 DEF endpoint_send
<1>3. CASE ~send_will_block(s, e)
  <2>1. s.list[e] # <<>>
    BY <1>3 DEF send_will_block
  <2> QED BY <1>1, <1>3, <2>1, PopType, SendDirectlyType
          DEF endpoint_send, send_message_to_blocked_receiver
<1> QED BY <1>2, <1>3

(* endpoint.c receive_message_from_blocked_sender. *)
LEMMA ReceiveBlockedType ==
  ASSUME NEW s \in KernelMemory, NEW e \in Endpoints, ~recv_will_block(s, e),
         s.current_tcb \in Threads
  PROVE  receive_message_from_blocked_sender(s, e) \in KernelMemory
<1> DEFINE sender == Head(s.list[e])
<1>1. e \in Queues /\ s.list[e] # <<>>
  BY DEF Queues, recv_will_block
<1>2. sender \in Threads /\ [s EXCEPT !.list[e] = Tail(s.list[e])] \in KernelMemory
  BY <1>1, PopType
<1>3. s.endpoint_badge[sender] \in Badges
  BY <1>2 DEF KernelMemory
<1> QED BY <1>2, <1>3, TransferType, ScheduleTcbType
        DEF receive_message_from_blocked_sender

(* endpoint.c invoke_endpoint_recv and invoke_endpoint_nbrecv. *)
LEMMA RecvType ==
  ASSUME NEW s \in KernelMemory, NEW e \in Endpoints, s.current_tcb \in Threads
  PROVE  /\ invoke_endpoint_recv(s, e) \in KernelMemory
         /\ invoke_endpoint_nbrecv(s, e) \in KernelMemory
<1>1. e \in Queues /\ "RECEIVING" \in TaskStates /\ "list" \in PanicReasons
  BY DEF Queues, TaskStates, PanicReasons
<1>2. queue_receiver_on_endpoint(s, e) \in KernelMemory
  BY <1>1, EnqueueType, ScheduleType, PanicType DEF queue_receiver_on_endpoint
<1>3. endpoint_recv(s, e) \in KernelMemory /\ endpoint_nbrecv(s, e) \in KernelMemory
  BY <1>2, ReceiveBlockedType DEF endpoint_recv, endpoint_nbrecv
<1>4. ASSUME HasPendingNotification(s)
      PROVE  handle_recv_with_pending_notification(s) \in KernelMemory
  <2> DEFINE n == s.bound_notification[s.current_tcb]
  <2>1. n \in Notifications
    BY <1>4 DEF HasPendingNotification, KernelMemory
  <2>2. s.word[n] \in Badges /\ {} \in Badges
    BY <2>1 DEF KernelMemory, Badges
  <2> HIDE DEF n
  <2>3. [s EXCEPT !.sender_badge[s.current_tcb] = s.word[n], !.word[n] = {}]
          \in KernelMemory
    BY <2>1, <2>2 DEF KernelMemory
  <2> QED BY <2>3 DEF handle_recv_with_pending_notification, n
<1> QED BY <1>3, <1>4 DEF invoke_endpoint_recv, invoke_endpoint_nbrecv

(* endpoint.c invoke_reply; a reply leaves the current thread current. *)
LEMMA ReplyType ==
  ASSUME NEW s \in KernelMemory, s.current_tcb \in Threads
  PROVE  /\ invoke_reply(s) \in KernelMemory
         /\ invoke_reply(s).current_tcb = s.current_tcb
<1> DEFINE receiver == s.reply_to[s.current_tcb]
<1>1. CASE receiver = Null \/ s.state[receiver] # "CALLING"
  <2>1. "trap" \in PanicReasons
    BY DEF PanicReasons
  <2>2. Panic(s, "trap").current_tcb = s.current_tcb
    BY DEF Panic, KernelMemory
  <2> QED BY <1>1, <2>1, <2>2, PanicType DEF invoke_reply
<1>2. CASE receiver # Null /\ s.state[receiver] = "CALLING"
  <2>1. receiver \in Threads /\ {} \in Badges
    BY <1>2 DEF KernelMemory, ThreadOrNull, Badges
  <2> DEFINE d == send_message_directly(s, receiver, {}, FALSE)
  <2>2. d \in KernelMemory
    BY <2>1, SendDirectlyType
  <2>3. d.current_tcb = s.current_tcb
    <3> DEFINE m == transfer_message(s, s.current_tcb, receiver, {})
    <3>1. m \in KernelMemory
      BY <2>1, TransferType
    <3>2. m.current_tcb = s.current_tcb
      BY DEF transfer_message, KernelMemory
    <3> HIDE DEF m
    <3>3. schedule_tcb(m, receiver).current_tcb = m.current_tcb
      BY <3>1 DEF schedule_tcb, Panic, KernelMemory
    <3> QED BY <3>2, <3>3 DEF send_message_directly, m
  <2> HIDE DEF d, receiver
  <2>4. /\ [d EXCEPT !.server[receiver] = Null] \in KernelMemory
        /\ [d EXCEPT !.server[receiver] = Null].current_tcb = d.current_tcb
    BY <2>1, <2>2 DEF KernelMemory, ThreadOrNull
  <2> QED BY <1>2, <2>3, <2>4 DEF invoke_reply, d, receiver
<1> QED BY <1>1, <1>2

-----------------------------------------------------------------------------
(* Leaving the kernel keeps the memory well typed, stopped or not. *)
LEMMA LeaveType ==
  ASSUME k \in KernelMemory, NEW s \in KernelMemory, Leave(s)
  PROVE  k' \in KernelMemory
<1> DEFINE r == IF s.panic = NoPanic THEN return_from_kernel_code(s) ELSE s
<1>1. r \in KernelMemory
  BY ReturnType
<1> HIDE DEF r
<1>2. [k EXCEPT !.panic = r.panic] \in KernelMemory
  BY <1>1 DEF KernelMemory
<1>3. k' = IF r.panic = NoPanic THEN r ELSE [k EXCEPT !.panic = r.panic]
  BY DEF Leave, r
<1> QED BY <1>1, <1>2, <1>3

(* A system call whose body returns well-typed memory keeps the types. *)
LEMMA SyscallType ==
  ASSUME TypeOK, NEW s, InUserMode => s \in KernelMemory, Syscall(s)
  PROVE  TypeOK'
<1>1. s \in KernelMemory /\ Leave(s) /\ irqs' = irqs
  BY DEF Syscall
<1> QED BY <1>1, LeaveType DEF TypeOK

(* In user mode there is a current thread. *)
LEMMA UserModeThread ==
  ASSUME TypeOK, InUserMode
  PROVE  k \in KernelMemory /\ k.current_tcb \in Threads /\ this_tcb = k.current_tcb
BY DEF TypeOK, InUserMode, this_tcb, KernelMemory, ThreadOrNull

(* irq.c: each operation on the handler table keeps it a handler table. *)
LEMMA IrqTypes ==
  ASSUME NEW h \in [Irqs -> HandlerRecords], NEW i \in Irqs,
         NEW n \in Notifications, NEW b \in Badges
  PROVE  /\ irq_control_get(h, i) \in [Irqs -> HandlerRecords]
         /\ irq_handler_clear(h, i) \in [Irqs -> HandlerRecords]
         /\ irq_handler_ack(h, i) \in [Irqs -> HandlerRecords]
         /\ irq_handler_set_notification(h, i, n, b) \in [Irqs -> HandlerRecords]
BY ZenonT(40) DEF irq_control_get, irq_handler_clear, irq_handler_ack,
       irq_handler_set_notification, unmask_irq, HandlerRecords

(* The same for the operations without a notification argument. *)
LEMMA IrqTypes0 ==
  ASSUME NEW h \in [Irqs -> HandlerRecords], NEW i \in Irqs
  PROVE  /\ irq_control_get(h, i) \in [Irqs -> HandlerRecords]
         /\ irq_handler_clear(h, i) \in [Irqs -> HandlerRecords]
         /\ irq_handler_ack(h, i) \in [Irqs -> HandlerRecords]
         /\ handle_irq(h, i) \in [Irqs -> HandlerRecords]
BY ZenonT(40) DEF irq_control_get, irq_handler_clear, irq_handler_ack, handle_irq,
       mask_irq, unmask_irq, HandlerRecords

(* Every entry to the kernel keeps the types: one step per action. *)
LEMMA NextType == TypeOK /\ [Next]_vars => TypeOK'
<1> SUFFICES ASSUME TypeOK, [Next]_vars PROVE TypeOK'
  OBVIOUS
<1>0. InUserMode => /\ k \in KernelMemory
                    /\ k.current_tcb \in Threads
                    /\ this_tcb = k.current_tcb
  BY UserModeThread
<1>1. CASE SysExit
  BY <1>0, <1>1, SyscallType, KillTcbType, ScheduleType DEF SysExit
<1>2. CASE SysYield
  BY <1>0, <1>2, SyscallType, ScheduleType DEF SysYield
<1>3. CASE SysReply
  BY <1>0, <1>3, SyscallType, ReplyType DEF SysReply
<1>4. ASSUME NEW e \in Endpoints, NEW b \in Badges, SysCall(e, b)
      PROVE  TypeOK'
  <2> DEFINE c == [k EXCEPT !.expects_reply[k.current_tcb] = TRUE,
                            !.state[k.current_tcb] = "CALLING"]
  <2>1. InUserMode => c \in KernelMemory /\ c.current_tcb \in Threads
    BY <1>0 DEF KernelMemory, TaskStates
  <2> HIDE DEF c
  <2>2. InUserMode => endpoint_send(c, e, b, TRUE) \in KernelMemory
    BY <2>1, EndpointSendType
  <2> QED BY <1>4, <2>2, SyscallType DEF SysCall, invoke_endpoint_call, c
<1>5. ASSUME NEW e \in Endpoints, NEW b \in Badges, SysSend(e, b)
      PROVE  TypeOK'
  <2> DEFINE c == [k EXCEPT !.expects_reply[k.current_tcb] = FALSE]
  <2>1. InUserMode => c \in KernelMemory /\ c.current_tcb \in Threads
    BY <1>0 DEF KernelMemory
  <2> HIDE DEF c
  <2>2. InUserMode => endpoint_send(c, e, b, FALSE) \in KernelMemory
    BY <2>1, EndpointSendType
  <2> QED BY <1>5, <2>2, SyscallType DEF SysSend, invoke_endpoint_send, c
<1>6. ASSUME NEW e \in Endpoints, NEW b \in Badges, SysNbsend(e, b)
      PROVE  TypeOK'
  <2>1. "panic" \in PanicReasons
    BY DEF PanicReasons
  <2> QED BY <1>0, <1>6, <2>1, SyscallType, PanicType DEF SysNbsend, invoke_endpoint_nbsend
<1>7. ASSUME NEW e \in Endpoints, SysRecv(e) \/ SysNbrecv(e)
      PROVE  TypeOK'
  BY <1>0, <1>7, SyscallType, RecvType DEF SysRecv, SysNbrecv
<1>8. ASSUME NEW e \in Endpoints, SysReplyRecv(e)
      PROVE  TypeOK'
  <2>1. InUserMode => invoke_reply_recv(k, e) \in KernelMemory
    BY <1>0, ReplyType, RecvType DEF invoke_reply_recv
  <2> QED BY <1>8, <2>1, SyscallType DEF SysReplyRecv
<1>9. ASSUME NEW n \in Notifications, NEW b \in Badges, SysSignal(n, b)
      PROVE  TypeOK'
  BY <1>0, <1>9, SyscallType, SignalType DEF SysSignal
<1>10. ASSUME NEW n \in Notifications, SysWait(n)
       PROVE  TypeOK'
  BY <1>0, <1>10, SyscallType, WaitType DEF SysWait
<1>11. ASSUME NEW t \in Threads, TcbResume(t) \/ TcbSuspend(t)
       PROVE  TypeOK'
  BY <1>0, <1>11, SyscallType, ScheduleTcbType, SuspendTcbType
     DEF TcbResume, TcbSuspend, tcb_resume, tcb_suspend
<1>12. ASSUME NEW t \in Threads, NEW n \in Notifications, TcbBindNotification(t, n)
       PROVE  TypeOK'
  BY <1>0, <1>12, SyscallType, BindType DEF TcbBindNotification
<1>13. ASSUME NEW i \in Irqs,
              IrqControlGet(i) \/ IrqHandlerClear(i) \/ IrqHandlerAck(i)
       PROVE  TypeOK'
  BY <1>13, IrqTypes0
     DEF IrqControlGet, IrqHandlerClear, IrqHandlerAck, IrqCall, TypeOK
<1>14. ASSUME NEW i \in Irqs, NEW n \in Notifications, NEW b \in Badges,
              IrqHandlerSetNotification(i, n, b)
       PROVE  TypeOK'
  BY <1>14, IrqTypes DEF IrqHandlerSetNotification, IrqCall, TypeOK
<1>15. ASSUME NEW i \in Irqs, Interrupt(i)
       PROVE  TypeOK'
  <2>1. k \in KernelMemory /\ irqs \in [Irqs -> HandlerRecords]
    BY DEF TypeOK
  <2>2. Accepts(irqs, i) => irqs[i].n \in Notifications /\ irqs[i].badge \in Badges
    BY <2>1 DEF Accepts, HandlerRecords
  <2>3. handle_irq_signal(k, irqs, i) \in KernelMemory
    BY <2>1, <2>2, SignalType DEF handle_irq_signal
  <2>4. k' \in KernelMemory
    BY <1>15, <2>1, <2>3, LeaveType DEF Interrupt
  <2> QED BY <1>15, <2>1, <2>4, IrqTypes0 DEF Interrupt, TypeOK
<1>16. CASE UNCHANGED vars
  BY <1>16 DEF vars, TypeOK
<1> QED
  BY <1>1, <1>2, <1>3, <1>4, <1>5, <1>6, <1>7, <1>8, <1>9, <1>10, <1>11,
     <1>12, <1>13, <1>14, <1>15, <1>16 DEF Next

(* The boot state is well typed. *)
LEMMA InitType == Init => TypeOK
<1> SUFFICES ASSUME NEW boot \in Threads, k = BootMemory(boot), irqs = init_ioapic
             PROVE  TypeOK
  BY DEF Init
<1>1. BootMemory(boot) \in KernelMemory
  BY DEF BootMemory, KernelMemory, TaskStates, ThreadOrNull, Badges, PanicReasons, NoPanic
<1>2. init_ioapic \in [Irqs -> HandlerRecords]
  BY DEF init_ioapic, HandlerRecords, Badges
<1> QED BY <1>1, <1>2 DEF TypeOK

(* The threads of the contract do nothing that arbitrary threads cannot do. *)
LEMMA ClientNextIsNext == ClientNext => Next
BY DEF ClientNext, Next

(* Whatever the threads call, kernel memory and the handler table keep     *)
(* their types: every queue holds threads, the CPU runs a thread or idles. *)
THEOREM TypeCorrect == Spec => []TypeOK
<1> QED BY InitType, NextType, PTL DEF Spec

(* The same for the threads that keep to the contract. *)
THEOREM ClientTypeCorrect == ClientSpec => []TypeOK
<1>1. TypeOK /\ [ClientNext]_vars => TypeOK'
  BY ClientNextIsNext, NextType
<1> QED BY <1>1, InitType, PTL DEF ClientSpec

(* A driver that re-attaches its notification only between interrupts      *)
(* never has its line unmasked while it serves an interrupt, whatever else *)
(* the threads do (handle_irq, irq_handler_ack).                           *)
THEOREM ServiceIsMasked == ClientSpec => []InServiceMasked
<1>1. Init => InServiceMasked
  BY DEF Init, init_ioapic, InServiceMasked
<1>2. TypeOK /\ InServiceMasked /\ [ClientNext]_vars => InServiceMasked'
  <2> SUFFICES ASSUME TypeOK, InServiceMasked, [ClientNext]_vars
               PROVE  InServiceMasked'
    OBVIOUS
  <2>0. irqs \in [Irqs -> HandlerRecords]
    BY DEF TypeOK
  <2>1. CASE irqs' = irqs
    BY <2>1 DEF InServiceMasked
  <2>2. ASSUME NEW i \in Irqs,
               IrqControlGet(i) \/ IrqHandlerClear(i) \/ IrqHandlerAck(i)
        PROVE  InServiceMasked'
    BY <2>0, <2>2 DEF IrqControlGet, IrqHandlerClear, IrqHandlerAck, IrqCall,
       irq_control_get, irq_handler_clear, irq_handler_ack, unmask_irq,
       HandlerRecords, InServiceMasked
  <2>3. ASSUME NEW i \in Irqs, NEW n \in Notifications, NEW b \in Badges,
               MayAttach(i), IrqHandlerSetNotification(i, n, b)
        PROVE  InServiceMasked'
    BY <2>0, <2>3 DEF IrqHandlerSetNotification, IrqCall, MayAttach,
       irq_handler_set_notification, unmask_irq, HandlerRecords, InServiceMasked
  <2>4. ASSUME NEW i \in Irqs, Interrupt(i)
        PROVE  InServiceMasked'
    BY <2>0, <2>4 DEF Interrupt, handle_irq, mask_irq, HandlerRecords, InServiceMasked
  <2> QED
    BY <2>1, <2>2, <2>3, <2>4
       DEF ClientNext, vars, Syscall, SysExit, SysYield, SysReply, SysCall, SysSend,
           SysRecv, SysNbrecv, SysReplyRecv, SysSignal, SysWait, TcbResume,
           TcbSuspend, TcbBindNotification
<1> QED BY <1>1, <1>2, ClientTypeCorrect, PTL DEF ClientSpec

-----------------------------------------------------------------------------
(* The safety invariants of the kernel, proved for every set of objects    *)
(* and for all threads that keep to the contract (ClientSpec).             *)
(*                                                                         *)
(* None of them is inductive alone.  Resting is what holds of the memory s *)
(* whenever the CPU is outside the kernel; its parts follow.  Inside the   *)
(* kernel the CPU's part does not hold: return_to_tcb is chosen, but the   *)
(* switch to it is made on the way out.  Leaving is what holds then.  The  *)
(* lemmas follow the C functions: called on a Resting memory, a system     *)
(* call gives a Leaving one, and return_from_kernel_code turns that into a *)
(* Resting one again.                                                      *)

(* Queues: linked once, in one queue, exactly while blocked on it. *)
QueuesInv(s) ==
  /\ \A o \in Queues : NoDuplicates(s.list[o])
  /\ \A o, p \in Queues, t \in Threads :
       OnList(s.list[o], t) /\ OnList(s.list[p], t) => o = p
  /\ \A t \in Threads :
       Queued(s, t) <=> \/ s.state[t] \in {"SENDING", "RECEIVING"}
                        \/ s.state[t] = "CALLING" /\ s.server[t] = Null

(* A queue does not mix the two directions. *)
DirectionInv(s) ==
  /\ \A e \in Endpoints : \A t, u \in Threads :
       OnList(s.list[e], t) /\ OnList(s.list[e], u) =>
         (s.state[t] = "RECEIVING" <=> s.state[u] = "RECEIVING")
  /\ \A n \in Notifications : \A t \in Threads :
       OnList(s.list[n], t) => s.state[t] = "RECEIVING"

(* The server of a caller knows it, and is not itself in a position to be  *)
(* sent to, which would overwrite its reply_to.                            *)
CallsInv(s) ==
  \A c \in Threads : s.server[c] # Null =>
    /\ s.state[c] = "CALLING"
    /\ s.reply_to[s.server[c]] = c
    /\ s.state[s.server[c]] \notin {"RECEIVING", "CALLING"}

(* What a receiver reads of a blocked sender agrees with its state. *)
ExpectsInv(s) ==
  \A t \in Threads : /\ s.state[t] = "CALLING" => s.expects_reply[t]
                     /\ s.state[t] = "SENDING" => ~s.expects_reply[t]

(* Pending words: nobody waits for them, and bindings go both ways. *)
WordsInv(s) ==
  \A n \in Notifications :
    /\ s.word[n] # {} => s.list[n] = <<>>
    /\ s.bound_tcb[n] # Null =>
         /\ s.bound_notification[s.bound_tcb[n]] = n
         /\ s.word[n] # {} => s.state[s.bound_tcb[n]] # "RECEIVING"

(* Only a thread that was never started has a zeroed list node. *)
NodesInv(s) == \A t \in Threads : s.state[t] # "RUNNABLE" => s.run_node[t]

(* The part of the invariant that holds inside the kernel as well. *)
ObjectsInv(s) ==
  /\ s \in KernelMemory
  /\ s.panic = NoPanic
  /\ QueuesInv(s)
  /\ DirectionInv(s)
  /\ CallsInv(s)
  /\ ExpectsInv(s)
  /\ WordsInv(s)
  /\ NodesInv(s)

(* The run list while nobody was picked from it. *)
RunListInv(s) ==
  /\ NoDuplicates(s.runnable_tcbs)
  /\ \A t \in Threads : OnList(s.runnable_tcbs, t)
                          <=> s.state[t] = "RUNNABLE" /\ s.run_node[t]

(* The CPU outside the kernel. *)
CpuInv(s) ==
  /\ s.return_to_tcb = s.current_tcb
  /\ \A t \in Threads : s.state[t] = "RUNNING" <=> t = s.current_tcb
  /\ s.current_tcb = Null => s.runnable_tcbs = <<>>

Resting(s) == ObjectsInv(s) /\ RunListInv(s) /\ CpuInv(s)

(* Inside the kernel, before the next thread is chosen: the current thread *)
(* may have been blocked or killed.                                        *)
Choosing(s) ==
  /\ RunListInv(s)
  /\ s.return_to_tcb = s.current_tcb
  /\ \A t \in Threads : s.state[t] = "RUNNING" => t = s.current_tcb
  /\ s.current_tcb # Null => s.state[s.current_tcb] # "RUNNABLE"
  /\ s.current_tcb = Null => s.runnable_tcbs = <<>>

(* After the choice: the thread to return to is off the run list. *)
Chosen(s) ==
  /\ NoDuplicates(s.runnable_tcbs)
  /\ \A t \in Threads : OnList(s.runnable_tcbs, t)
                          <=> /\ s.state[t] = "RUNNABLE" /\ s.run_node[t]
                              /\ t # s.return_to_tcb
  /\ \A t \in Threads : s.state[t] = "RUNNING" => t = s.current_tcb
  /\ s.current_tcb # Null => s.state[s.current_tcb] # "RUNNABLE"
  /\ s.return_to_tcb = Null =>
       /\ s.runnable_tcbs = <<>>
       /\ s.current_tcb # Null => s.state[s.current_tcb] # "RUNNING"
  /\ s.return_to_tcb # Null =>
       /\ s.run_node[s.return_to_tcb]
       /\ s.state[s.return_to_tcb] = IF s.return_to_tcb = s.current_tcb THEN "RUNNING"
                                     ELSE "RUNNABLE"

Leaving(s) == ObjectsInv(s) /\ Chosen(s)

(* From s to r no thread comes back to life and no caller goes on. *)
Asleep(s, r) ==
  \A t \in Threads : s.state[t] \in {"DEAD", "CALLING"} => r.state[t] = s.state[t]

-----------------------------------------------------------------------------
(* Lists as sets: what the operations of list.h do to membership. *)

(* list.h append_to_list: the new node is linked, once. *)
LEMMA AppendMembers ==
  ASSUME NEW S, NEW q \in Seq(S), NEW t \in S
  PROVE  /\ \A x \in S : OnList(append_to_list(q, t), x) <=> x = t \/ OnList(q, x)
         /\ NoDuplicates(q) /\ ~OnList(q, t) => NoDuplicates(append_to_list(q, t))
<1> DEFINE r == append_to_list(q, t)
<1>1. /\ r \in Seq(S) /\ Len(r) = Len(q) + 1 /\ Len(q) \in Nat
      /\ r[1] = t
      /\ \A i \in 1..Len(q) : r[i + 1] = q[i]
      /\ \A i \in 2..Len(r) : r[i] = q[i - 1]
  BY DEF append_to_list
<1> HIDE DEF r
<1>2. ASSUME NEW x \in S PROVE OnList(r, x) <=> x = t \/ OnList(q, x)
  <2>1. ASSUME OnList(r, x), x # t PROVE OnList(q, x)
    <3>1. PICK i \in 1..Len(r) : r[i] = x
      BY <2>1 DEF OnList
    <3>2. i \in 2..Len(r) /\ i - 1 \in 1..Len(q)
      BY <1>1, <2>1, <3>1
    <3> QED BY <1>1, <3>1, <3>2 DEF OnList
  <2>2. ASSUME OnList(q, x) PROVE OnList(r, x)
    <3>1. PICK i \in 1..Len(q) : q[i] = x
      BY <2>2 DEF OnList
    <3>2. i + 1 \in 1..Len(r) /\ r[i + 1] = x
      BY <1>1, <3>1
    <3> QED BY <3>2 DEF OnList
  <2>3. x = t => OnList(r, x)
    <3>1. 1 \in 1..Len(r) /\ r[1] = t
      BY <1>1
    <3> QED BY <3>1 DEF OnList
  <2> QED BY <2>1, <2>2, <2>3
<1>3. ASSUME NoDuplicates(q), ~OnList(q, t), NEW i \in 1..Len(r), NEW j \in 1..Len(r),
             r[i] = r[j]
      PROVE  i = j
  <2>1. \A m \in 2..Len(r) : m - 1 \in 1..Len(q) /\ r[m] = q[m - 1] /\ r[m] # t
    BY <1>1, <1>3 DEF OnList
  <2>2. CASE i = 1 \/ j = 1
    BY <1>1, <1>3, <2>1, <2>2
  <2>3. CASE i # 1 /\ j # 1
    <3>1. i \in 2..Len(r) /\ j \in 2..Len(r)
      BY <1>1, <2>3
    <3>2. q[i - 1] = q[j - 1] /\ i - 1 \in 1..Len(q) /\ j - 1 \in 1..Len(q)
      BY <1>3, <2>1, <3>1
    <3>3. i - 1 = j - 1
      BY <1>3, <3>2 DEF NoDuplicates
    <3> QED BY <1>1, <3>1, <3>3
  <2> QED BY <2>2, <2>3
<1> QED BY <1>2, <1>3 DEF NoDuplicates, r

(* list.h pop_from_list: the head leaves, and it was linked once. *)
LEMMA PopMembers ==
  ASSUME NEW S, NEW q \in Seq(S), q # <<>>
  PROVE  /\ Head(q) \in S /\ Tail(q) \in Seq(S)
         /\ OnList(q, Head(q))
         /\ \A x \in S : OnList(q, x) <=> x = Head(q) \/ OnList(Tail(q), x)
         /\ NoDuplicates(q) => NoDuplicates(Tail(q)) /\ ~OnList(Tail(q), Head(q))
<1> DEFINE r == Tail(q)
<1>1. /\ r \in Seq(S) /\ Len(q) = Len(r) + 1 /\ Len(r) \in Nat
      /\ q[1] = Head(q) /\ Head(q) \in S
      /\ \A i \in 1..Len(r) : r[i] = q[i + 1]
  OBVIOUS
<1> HIDE DEF r
<1>2. OnList(q, Head(q))
  <2>1. 1 \in 1..Len(q)
    BY <1>1
  <2> QED BY <1>1, <2>1 DEF OnList
<1>3. ASSUME NEW x \in S, OnList(q, x), x # Head(q) PROVE OnList(r, x)
  <2>1. PICK i \in 1..Len(q) : q[i] = x
    BY <1>3 DEF OnList
  <2>2. i - 1 \in 1..Len(r) /\ r[i - 1] = x
    BY <1>1, <1>3, <2>1
  <2> QED BY <2>2 DEF OnList
<1>4. ASSUME NEW x \in S, OnList(r, x) PROVE OnList(q, x)
  <2>1. PICK i \in 1..Len(r) : r[i] = x
    BY <1>4 DEF OnList
  <2>2. i + 1 \in 1..Len(q) /\ q[i + 1] = x
    BY <1>1, <2>1
  <2> QED BY <2>2 DEF OnList
<1>5. ASSUME NoDuplicates(q) PROVE NoDuplicates(r)
  <2>1. ASSUME NEW i \in 1..Len(r), NEW j \in 1..Len(r), r[i] = r[j] PROVE i = j
    <3>1. i + 1 \in 1..Len(q) /\ j + 1 \in 1..Len(q) /\ q[i + 1] = q[j + 1]
      BY <1>1, <2>1
    <3>2. i + 1 = j + 1
      BY <1>5, <3>1 DEF NoDuplicates
    <3> QED BY <1>1, <3>2
  <2> QED BY <2>1 DEF NoDuplicates
<1>6. ASSUME NoDuplicates(q), OnList(r, Head(q)) PROVE FALSE
  <2>1. PICK i \in 1..Len(r) : r[i] = Head(q)
    BY <1>6 DEF OnList
  <2>2. i + 1 \in 1..Len(q) /\ 1 \in 1..Len(q) /\ q[i + 1] = q[1]
    BY <1>1, <2>1
  <2>3. i + 1 = 1
    BY <1>6, <2>2 DEF NoDuplicates
  <2> QED BY <1>1, <2>3
<1> QED BY <1>1, <1>2, <1>3, <1>4, <1>5, <1>6 DEF r

(* list.h remove_from_list: exactly the node itself leaves. *)
LEMMA RemoveMembers ==
  ASSUME NEW S, NEW q \in Seq(S), NEW t \in S, NoDuplicates(q)
  PROVE  /\ \A x \in S : OnList(remove_from_list(q, t), x) <=> OnList(q, x) /\ x # t
         /\ NoDuplicates(remove_from_list(q, t))
<1>1. CASE ~OnList(q, t)
  BY <1>1 DEF remove_from_list
<1>2. CASE OnList(q, t)
  <2> DEFINE p == CHOOSE i \in 1..Len(q) : q[i] = t
             r == [i \in 1..(Len(q) - 1) |-> IF i < p THEN q[i] ELSE q[i + 1]]
             at(i) == IF i < p THEN i ELSE i + 1
  <2>1. p \in 1..Len(q) /\ q[p] = t
    BY <1>2 DEF OnList
  <2>2. Len(q) \in Nat /\ Len(q) >= 1 /\ q \in [1..Len(q) -> S]
    BY <2>1
  <2> HIDE DEF p
  <2>3. /\ r = remove_from_list(q, t)
        /\ r \in [1..(Len(q) - 1) -> S]
    BY <1>2, <2>1, <2>2 DEF remove_from_list, p
  <2>4. Len(r) = Len(q) - 1
    <3>1. r \in Seq(S)
      BY <2>2, <2>3
    <3>2. DOMAIN r = 1..(Len(q) - 1)
      BY DEF r
    <3> QED BY <2>2, <3>1, <3>2
  <2>5. \A i \in 1..Len(r) : at(i) \in 1..Len(q) /\ at(i) # p /\ r[i] = q[at(i)]
    BY <2>1, <2>2, <2>4
  <2>6. \A i \in 1..Len(q) : i # p => \E j \in 1..Len(r) : at(j) = i
    <3> TAKE i \in 1..Len(q)
    <3>1. CASE i < p
      BY <2>1, <2>2, <2>4, <3>1
    <3>2. CASE i > p
      <4>1. i - 1 \in 1..Len(r) /\ ~(i - 1 < p) /\ (i - 1) + 1 = i
        BY <2>1, <2>2, <2>4, <3>2
      <4> QED BY <4>1
    <3> QED BY <2>1, <3>1, <3>2
  <2>7. \A i, j \in 1..Len(r) : at(i) = at(j) => i = j
    BY <2>1, <2>2, <2>4
  <2> HIDE DEF r, at
  <2>8. ASSUME NEW x \in S PROVE OnList(r, x) <=> OnList(q, x) /\ x # t
    <3>1. ASSUME OnList(r, x) PROVE OnList(q, x) /\ x # t
      <4>1. PICK i \in 1..Len(r) : r[i] = x
        BY <3>1 DEF OnList
      <4>2. at(i) \in 1..Len(q) /\ q[at(i)] = x /\ at(i) # p
        BY <2>5, <4>1
      <4> QED BY <2>1, <4>2 DEF OnList, NoDuplicates
    <3>2. ASSUME OnList(q, x), x # t PROVE OnList(r, x)
      <4>1. PICK i \in 1..Len(q) : q[i] = x
        BY <3>2 DEF OnList
      <4>2. PICK j \in 1..Len(r) : at(j) = i
        BY <2>1, <2>6, <3>2, <4>1
      <4> QED BY <2>5, <4>1, <4>2 DEF OnList
    <3> QED BY <3>1, <3>2
  <2>9. NoDuplicates(r)
    <3>1. ASSUME NEW i \in 1..Len(r), NEW j \in 1..Len(r), r[i] = r[j] PROVE i = j
      <4>1. q[at(i)] = q[at(j)] /\ at(i) \in 1..Len(q) /\ at(j) \in 1..Len(q)
        BY <2>5, <3>1
      <4>2. at(i) = at(j)
        BY <4>1 DEF NoDuplicates
      <4> QED BY <2>7, <4>2
    <3> QED BY <3>1 DEF NoDuplicates
  <2> QED BY <2>3, <2>8, <2>9
<1> QED BY <1>1, <1>2

(* Nothing is on the empty list, and something is on any other. *)
LEMMA EmptyMembers ==
  ASSUME NEW S, NEW q \in Seq(S)
  PROVE  /\ q = <<>> <=> \A x \in S : ~OnList(q, x)
         /\ NoDuplicates(<<>>)
<1>1. \A x \in S : ~OnList(<<>>, x)
  BY DEF OnList
<1>2. q # <<>> => OnList(q, Head(q)) /\ Head(q) \in S
  BY PopMembers
<1>3. NoDuplicates(<<>>)
  BY DEF NoDuplicates
<1> QED BY <1>1, <1>2, <1>3

-----------------------------------------------------------------------------
(* The scheduler. *)

Awake == {"RUNNABLE", "RUNNING"}

(* The members of the kernel's memory that the scheduler does not touch. *)
SameObjects(s, r) ==
  /\ r.list = s.list
  /\ r.server = s.server
  /\ r.reply_to = s.reply_to
  /\ r.expects_reply = s.expects_reply
  /\ r.word = s.word
  /\ r.bound_tcb = s.bound_tcb
  /\ r.bound_notification = s.bound_notification

(* Threads that are not blocked: no object depends on which of these       *)
(* states such a thread is in.                                             *)
Unblocked == Awake \cup {"DEAD", "SUSPENDED"}

(* Moving threads among these states keeps the objects consistent. *)
LEMMA UnblockedKeepsObjects ==
  ASSUME NEW s, ObjectsInv(s), NEW r \in KernelMemory, r.panic = NoPanic,
         SameObjects(s, r), NodesInv(r),
         \A t \in Threads : r.state[t] = s.state[t] \/ {s.state[t], r.state[t]} \subseteq Unblocked
  PROVE  ObjectsInv(r)
<1>0. \A t \in Threads, x \in {"SENDING", "RECEIVING", "CALLING"} :
         r.state[t] = x <=> s.state[t] = x
  BY DEF Awake, Unblocked
<1>1. QueuesInv(r)
  BY <1>0 DEF ObjectsInv, QueuesInv, Queued, SameObjects
<1>2. DirectionInv(r)
  BY <1>0 DEF ObjectsInv, DirectionInv, SameObjects
<1>3. CallsInv(r)
  <2>1. \A c \in Threads : s.server[c] # Null => s.server[c] \in Threads
    BY DEF ObjectsInv, KernelMemory, ThreadOrNull
  <2> QED BY <1>0, <2>1 DEF ObjectsInv, CallsInv, SameObjects
<1>4. ExpectsInv(r)
  BY <1>0 DEF ObjectsInv, ExpectsInv, SameObjects
<1>5. WordsInv(r)
  <2>1. \A n \in Notifications : s.bound_tcb[n] # Null => s.bound_tcb[n] \in Threads
    BY DEF ObjectsInv, KernelMemory, ThreadOrNull
  <2> QED BY <1>0, <2>1 DEF ObjectsInv, WordsInv, SameObjects
<1> QED BY <1>1, <1>2, <1>3, <1>4, <1>5 DEF ObjectsInv

(* Taking the CPU from a thread and giving it to another one is all the    *)
(* same to the objects.                                                    *)
LEMMA SchedulingKeepsObjects ==
  ASSUME NEW s, ObjectsInv(s), NEW r \in KernelMemory, r.panic = NoPanic,
         SameObjects(s, r), NodesInv(r),
         \A t \in Threads : r.state[t] = s.state[t] \/ {s.state[t], r.state[t]} \subseteq Awake
  PROVE  ObjectsInv(r) /\ Asleep(s, r)
<1>1. \A t \in Threads :
        r.state[t] = s.state[t] \/ {s.state[t], r.state[t]} \subseteq Unblocked
  BY DEF Unblocked
<1>2. ObjectsInv(r)
  BY <1>1, UnblockedKeepsObjects
<1>3. Asleep(s, r)
  BY DEF Asleep, Awake
<1> QED BY <1>2, <1>3

(* The types the proofs use again and again. *)
LEMMA MemoryTypes ==
  ASSUME NEW s \in KernelMemory
  PROVE  /\ s.state \in [Threads -> TaskStates]
         /\ s.run_node \in [Threads -> BOOLEAN]
         /\ s.list \in [Queues -> Seq(Threads)]
         /\ s.runnable_tcbs \in Seq(Threads)
         /\ s.current_tcb \in ThreadOrNull
         /\ s.return_to_tcb \in ThreadOrNull
BY DEF KernelMemory

(* tcb.c schedule: a choice is made, the idle CPU included. *)
LEMMA ScheduleChooses ==
  ASSUME NEW s, ObjectsInv(s), Choosing(s)
  PROVE  Leaving(schedule(s)) /\ Asleep(s, schedule(s))
<1> DEFINE r == schedule(s)
<1>0. s \in KernelMemory /\ r \in KernelMemory
  BY ScheduleType DEF ObjectsInv
<1>1. CASE s.runnable_tcbs # <<>>
  <2> DEFINE h == Head(s.runnable_tcbs)
             rest == Tail(s.runnable_tcbs)
  <2>1. /\ h \in Threads /\ rest \in Seq(Threads)
        /\ \A x \in Threads : OnList(s.runnable_tcbs, x) <=> x = h \/ OnList(rest, x)
        /\ NoDuplicates(rest) /\ ~OnList(rest, h)
    BY <1>0, <1>1, MemoryTypes, PopMembers DEF Choosing, RunListInv
  <2>2. s.state[h] = "RUNNABLE" /\ s.run_node[h]
    BY <2>1 DEF Choosing, RunListInv
  <2>3. /\ SameObjects(s, r) /\ r.run_node = s.run_node /\ r.panic = s.panic
        /\ r.current_tcb = s.current_tcb /\ r.return_to_tcb = h
        /\ r.runnable_tcbs = rest
        /\ r.state = [s.state EXCEPT ![h] = "RUNNABLE"]
    BY <1>0, <1>1 DEF schedule, switch_tcb, SameObjects, KernelMemory
  <2> HIDE DEF r, h, rest
  <2>4. \A t \in Threads : r.state[t] = s.state[t]
    BY <1>0, <2>1, <2>2, <2>3, MemoryTypes
  <2>5. ObjectsInv(r) /\ Asleep(s, r)
    <3>1. NodesInv(r)
      BY <2>3, <2>4 DEF ObjectsInv, NodesInv
    <3>2. r.panic = NoPanic
      BY <2>3 DEF ObjectsInv
    <3> QED BY <1>0, <2>3, <2>4, <3>1, <3>2, SchedulingKeepsObjects
  <2>6. h # Null /\ h # s.current_tcb
    BY <2>1, <2>2, ObjectsAssumption DEF Choosing
  <2>7. Chosen(r)
    BY <1>0, <2>1, <2>2, <2>3, <2>4, <2>6, MemoryTypes
       DEF Choosing, RunListInv, Chosen, ThreadOrNull
  <2> QED BY <2>5, <2>7 DEF Leaving, r
<1>2. CASE s.runnable_tcbs = <<>> /\ WantsToContinue(s)
  <2>1. r = s
    BY <1>2 DEF schedule
  <2>2. s.current_tcb \in Threads /\ s.state[s.current_tcb] = "RUNNING"
    BY <1>0, <1>2, MemoryTypes DEF WantsToContinue, ThreadOrNull
  <2>3. Chosen(s)
    BY <1>0, <1>2, <2>2, MemoryTypes
       DEF Choosing, RunListInv, Chosen, ObjectsInv, NodesInv
  <2> QED BY <2>1, <2>3 DEF Leaving, Asleep
<1>3. CASE s.runnable_tcbs = <<>> /\ ~WantsToContinue(s)
  <2>1. /\ SameObjects(s, r) /\ r.run_node = s.run_node /\ r.panic = s.panic
        /\ r.current_tcb = s.current_tcb /\ r.return_to_tcb = Null
        /\ r.runnable_tcbs = s.runnable_tcbs
        /\ r.state = s.state
    BY <1>0, <1>3 DEF schedule, SameObjects, KernelMemory
  <2> HIDE DEF r
  <2>2. ObjectsInv(r) /\ Asleep(s, r)
    BY <1>0, <2>1, SchedulingKeepsObjects DEF ObjectsInv, NodesInv
  <2>3. Chosen(r)
    BY <1>3, <2>1, ObjectsAssumption DEF Choosing, RunListInv, Chosen, WantsToContinue
  <2> QED BY <2>2, <2>3 DEF Leaving, r
<1> QED BY <1>1, <1>2, <1>3

(* tcb.c switch_tcb: a blocked thread is chosen, which left its queue. *)
LEMMA SwitchChooses ==
  ASSUME NEW s \in KernelMemory, Choosing(s), NEW t \in Threads, t # s.current_tcb,
         s.state[t] # "RUNNABLE", s.run_node[t]
  PROVE  Chosen(switch_tcb(s, t))
<1> DEFINE r == switch_tcb(s, t)
<1>1. /\ r.run_node = s.run_node /\ r.current_tcb = s.current_tcb
      /\ r.return_to_tcb = t /\ r.runnable_tcbs = s.runnable_tcbs
      /\ r.state = [s.state EXCEPT ![t] = "RUNNABLE"]
  BY DEF switch_tcb, KernelMemory
<1> HIDE DEF r
<1>2. \A x \in Threads : r.state[x] = IF x = t THEN "RUNNABLE" ELSE s.state[x]
  BY <1>1, MemoryTypes
<1>3. t # Null
  BY ObjectsAssumption
<1>4. Chosen(r)
  BY <1>1, <1>2, <1>3, MemoryTypes DEF Choosing, RunListInv, Chosen, ThreadOrNull
<1> QED BY <1>4 DEF r

(* Without a choice the current thread goes on, or the CPU idles on. *)
LEMMA NoChoice ==
  ASSUME NEW s, Resting(s)
  PROVE  Choosing(s) /\ Leaving(s)
<1>0. s \in KernelMemory /\ RunListInv(s) /\ CpuInv(s) /\ NodesInv(s)
  BY DEF Resting, ObjectsInv
<1>1. s.current_tcb # Null => /\ s.state[s.current_tcb] = "RUNNING"
                              /\ s.run_node[s.current_tcb]
  BY <1>0, MemoryTypes DEF CpuInv, ThreadOrNull, NodesInv
<1>2. Choosing(s) /\ Chosen(s)
  BY <1>0, <1>1, MemoryTypes, ObjectsAssumption
     DEF RunListInv, CpuInv, Choosing, Chosen, ThreadOrNull
<1> QED BY <1>2 DEF Leaving, Resting

(* tcb.c schedule_tcb: a thread that is neither dead nor linked is linked. *)
LEMMA ScheduleTcbEffect ==
  ASSUME NEW s \in KernelMemory, NEW t \in Threads, s.state[t] # "DEAD",
         ~OnList(s.runnable_tcbs, t)
  PROVE  LET r == schedule_tcb(s, t)
         IN  /\ r \in KernelMemory
             /\ SameObjects(s, r) /\ r.panic = s.panic
             /\ r.current_tcb = s.current_tcb /\ r.return_to_tcb = s.return_to_tcb
             /\ r.runnable_tcbs = append_to_list(s.runnable_tcbs, t)
             /\ r.run_node = [s.run_node EXCEPT ![t] = TRUE]
             /\ r.state = [s.state EXCEPT ![t] = "RUNNABLE"]
             /\ r.sender_badge = s.sender_badge
<1>1. schedule_tcb(s, t) \in KernelMemory
  BY ScheduleTcbType
<1> QED BY <1>1 DEF schedule_tcb, SameObjects, KernelMemory

(* tcb.c return_from_kernel_code: the way out of the kernel never asserts  *)
(* and gives the CPU to the thread that was chosen.                        *)
LEMMA ReturnRests ==
  ASSUME NEW s, Leaving(s)
  PROVE  Resting(return_from_kernel_code(s)) /\ Asleep(s, return_from_kernel_code(s))
<1> DEFINE r == return_from_kernel_code(s)
           t == s.return_to_tcb
<1>0. s \in KernelMemory /\ r \in KernelMemory /\ s.panic = NoPanic
  BY ReturnType DEF Leaving, ObjectsInv
<1>1. CASE t = s.current_tcb
  <2>1. r = s
    BY <1>1 DEF return_from_kernel_code
  <2>2. RunListInv(s) /\ CpuInv(s)
    BY <1>0, <1>1, MemoryTypes, ObjectsAssumption
       DEF Leaving, Chosen, RunListInv, CpuInv, ThreadOrNull
  <2> QED BY <2>1, <2>2 DEF Leaving, Resting, Asleep
<1>2. CASE t # s.current_tcb /\ t = Null
  <2>1. /\ SameObjects(s, r) /\ r.run_node = s.run_node /\ r.panic = s.panic
        /\ r.current_tcb = Null /\ r.return_to_tcb = Null
        /\ r.runnable_tcbs = s.runnable_tcbs
        /\ r.state = s.state
    BY <1>0, <1>2 DEF return_from_kernel_code, SameObjects, KernelMemory
  <2> HIDE DEF r
  <2>2. ObjectsInv(r) /\ Asleep(s, r)
    <3>1. NodesInv(r)
      BY <2>1 DEF Leaving, ObjectsInv, NodesInv
    <3> QED BY <1>0, <2>1, <3>1, SchedulingKeepsObjects DEF Leaving
  <2>3. RunListInv(r) /\ CpuInv(r)
    BY <1>0, <1>2, <2>1, MemoryTypes, ObjectsAssumption
       DEF Leaving, Chosen, RunListInv, CpuInv, ThreadOrNull
  <2> QED BY <2>2, <2>3 DEF Resting, r
<1>3. CASE t # s.current_tcb /\ t # Null
  <2> DEFINE m == IF WantsToContinue(s) THEN schedule_tcb(s, s.current_tcb) ELSE s
             cur == s.current_tcb
  <2>1. t \in Threads /\ s.state[t] = "RUNNABLE"
    BY <1>0, <1>3, MemoryTypes DEF Leaving, Chosen, ThreadOrNull
  <2>2. ~OnList(s.runnable_tcbs, t)
    BY <2>1 DEF Leaving, Chosen
  <2>3. /\ m \in KernelMemory /\ SameObjects(s, m) /\ m.panic = NoPanic
        /\ NoDuplicates(m.runnable_tcbs) /\ m.run_node[t]
        /\ \A x \in Threads :
             /\ m.state[x] = IF x = cur /\ s.state[x] = "RUNNING" THEN "RUNNABLE" ELSE s.state[x]
             /\ m.state[x] # "RUNNABLE" => m.run_node[x]
             /\ OnList(m.runnable_tcbs, x)
                  <=> m.state[x] = "RUNNABLE" /\ m.run_node[x] /\ x # t
    <3>1. CASE WantsToContinue(s)
      <4>1. cur \in Threads /\ s.state[cur] = "RUNNING" /\ m = schedule_tcb(s, cur)
        BY <1>0, <3>1, MemoryTypes DEF WantsToContinue, ThreadOrNull
      <4>2. ~OnList(s.runnable_tcbs, cur)
        BY <4>1 DEF Leaving, Chosen
      <4>3. /\ m \in KernelMemory /\ SameObjects(s, m) /\ m.panic = s.panic
            /\ m.runnable_tcbs = append_to_list(s.runnable_tcbs, cur)
            /\ m.run_node = [s.run_node EXCEPT ![cur] = TRUE]
            /\ m.state = [s.state EXCEPT ![cur] = "RUNNABLE"]
        BY <1>0, <4>1, <4>2, ScheduleTcbEffect
      <4> HIDE DEF m, t, cur
      <4>4. /\ \A x \in Threads : OnList(m.runnable_tcbs, x)
                                    <=> x = cur \/ OnList(s.runnable_tcbs, x)
            /\ NoDuplicates(m.runnable_tcbs)
        BY <1>0, <4>1, <4>2, <4>3, AppendMembers, MemoryTypes DEF Leaving, Chosen
      <4>5. \A x \in Threads :
              /\ m.state[x] = IF x = cur THEN "RUNNABLE" ELSE s.state[x]
              /\ m.run_node[x] = IF x = cur THEN TRUE ELSE s.run_node[x]
        BY <1>0, <4>3, MemoryTypes
      <4>6. \A x \in Threads : m.state[x] # "RUNNABLE" => m.run_node[x]
        BY <4>5 DEF Leaving, ObjectsInv, NodesInv
      <4>7. \A x \in Threads : OnList(m.runnable_tcbs, x)
                                 <=> m.state[x] = "RUNNABLE" /\ m.run_node[x] /\ x # t
        BY <1>3, <4>4, <4>5 DEF Leaving, Chosen, t, cur
      <4>8. m.run_node[t]
        BY <1>3, <2>1, <4>5 DEF Leaving, Chosen, t
      <4> QED BY <1>0, <4>1, <4>3, <4>4, <4>5, <4>6, <4>7, <4>8
    <3>2. CASE ~WantsToContinue(s)
      <4>1. m = s
        BY <3>2
      <4>2. \A x \in Threads : s.state[x] # "RUNNING"
        BY <3>2, ObjectsAssumption DEF WantsToContinue, Leaving, Chosen
      <4> HIDE DEF m
      <4> QED BY <1>0, <1>3, <4>1, <4>2
              DEF SameObjects, Leaving, Chosen, ObjectsInv, NodesInv
    <3> QED BY <3>1, <3>2
  <2> HIDE DEF m
  <2>4. r = [m EXCEPT !.current_tcb = t, !.state[t] = "RUNNING"]
    <3>1. m.state[t] = "RUNNABLE"
      BY <1>3, <2>1, <2>3
    <3> QED BY <1>3, <2>1, <3>1 DEF return_from_kernel_code, switch_tcb_actual, m
  <2>5. /\ SameObjects(s, r) /\ r.run_node = m.run_node /\ r.panic = m.panic
        /\ r.current_tcb = t /\ r.return_to_tcb = m.return_to_tcb
        /\ r.runnable_tcbs = m.runnable_tcbs
        /\ r.state = [m.state EXCEPT ![t] = "RUNNING"]
    BY <2>3, <2>4 DEF SameObjects, KernelMemory
  <2>6. m.return_to_tcb = t
    BY <1>0 DEF m, schedule_tcb, Panic, KernelMemory
  <2> HIDE DEF r, t
  <2>7. \A x \in Threads : r.state[x] = IF x = t THEN "RUNNING" ELSE m.state[x]
    BY <2>1, <2>3, <2>5, MemoryTypes
  <2>8. ObjectsInv(r) /\ Asleep(s, r)
    <3>1. NodesInv(r)
      BY <2>3, <2>5, <2>7 DEF NodesInv
    <3>2. \A x \in Threads : r.state[x] = s.state[x] \/ {s.state[x], r.state[x]} \subseteq Awake
      BY <2>1, <2>3, <2>7 DEF Awake
    <3> QED BY <1>0, <2>3, <2>5, <3>1, <3>2, SchedulingKeepsObjects DEF Leaving
  <2>9. RunListInv(r)
    BY <2>3, <2>5, <2>7 DEF RunListInv
  <2>10. CpuInv(r)
    <3>1. \A x \in Threads : m.state[x] # "RUNNING"
      BY <2>3 DEF Leaving, Chosen
    <3> QED BY <1>3, <2>5, <2>6, <2>7, <3>1 DEF CpuInv
  <2> QED BY <2>8, <2>9, <2>10 DEF Resting, r
<1> QED BY <1>1, <1>2, <1>3

-----------------------------------------------------------------------------
(* Blocking and waking threads. *)

(* The current thread of a resting CPU waits nowhere and for nobody. *)
LEMMA CurrentIsFree ==
  ASSUME NEW s, Resting(s), s.current_tcb \in Threads
  PROVE  /\ s \in KernelMemory
         /\ s.state[s.current_tcb] = "RUNNING"
         /\ s.run_node[s.current_tcb]
         /\ s.server[s.current_tcb] = Null
         /\ ~Queued(s, s.current_tcb)
         /\ ~OnList(s.runnable_tcbs, s.current_tcb)
<1>1. s.state[s.current_tcb] = "RUNNING"
  BY DEF Resting, CpuInv
<1> QED BY <1>1 DEF Resting, ObjectsInv, NodesInv, CallsInv, QueuesInv, RunListInv

(* The current thread owes no reply. *)
Free(s) == \A c \in Threads : s.server[c] # s.current_tcb

(* r is s with the current thread blocked in queue o. *)
Blocks(s, r, o, st) ==
  LET t == s.current_tcb
  IN  /\ r.list = [s.list EXCEPT ![o] = append_to_list(s.list[o], t)]
      /\ r.state = [s.state EXCEPT ![t] = st]
      /\ \A x \in Threads : x # t => r.expects_reply[x] = s.expects_reply[x]
      /\ st = "CALLING" => r.expects_reply[t]
      /\ st = "SENDING" => ~r.expects_reply[t]
      /\ r.server = s.server
      /\ r.reply_to = s.reply_to
      /\ r.word = s.word
      /\ r.bound_tcb = s.bound_tcb
      /\ r.bound_notification = s.bound_notification
      /\ r.run_node = s.run_node
      /\ r.runnable_tcbs = s.runnable_tcbs
      /\ r.current_tcb = t
      /\ r.return_to_tcb = s.return_to_tcb
      /\ r.panic = s.panic

(* A thread may join a queue of its own kind, a receiver only when it owes *)
(* nothing and no signal is waiting for it.                                *)
LEMMA BlockingKeeps ==
  ASSUME NEW s, Resting(s), s.current_tcb \in Threads,
         NEW o \in Queues, NEW st \in {"SENDING", "RECEIVING", "CALLING"},
         NEW r \in KernelMemory, Blocks(s, r, o, st),
         o \in Endpoints => \A x \in Threads : OnList(s.list[o], x) =>
                              (s.state[x] = "RECEIVING" <=> st = "RECEIVING"),
         o \in Notifications => st = "RECEIVING" /\ s.word[o] = {},
         st # "SENDING" => Free(s),
         st = "RECEIVING" => \A n \in Notifications :
                               s.bound_tcb[n] = s.current_tcb => s.word[n] = {}
  PROVE  ObjectsInv(r) /\ Choosing(r) /\ Asleep(s, r)
<1> DEFINE t == s.current_tcb
<1>0. /\ s \in KernelMemory /\ s.state[t] = "RUNNING" /\ s.run_node[t]
      /\ s.server[t] = Null /\ ~Queued(s, t) /\ ~OnList(s.runnable_tcbs, t)
  BY CurrentIsFree
<1>1. \A x \in Threads : r.state[x] = IF x = t THEN st ELSE s.state[x]
  BY <1>0, MemoryTypes DEF Blocks
<1>2. \A p \in Queues : ~OnList(s.list[p], t)
  BY <1>0 DEF Queued
<1>3. \A p \in Queues :
        /\ p # o => r.list[p] = s.list[p]
        /\ \A x \in Threads : OnList(r.list[p], x) <=> OnList(s.list[p], x) \/ (p = o /\ x = t)
        /\ NoDuplicates(s.list[p]) => NoDuplicates(r.list[p])
  <2>1. \A p \in Queues : r.list[p] = IF p = o THEN append_to_list(s.list[o], t) ELSE s.list[p]
    BY <1>0, MemoryTypes DEF Blocks
  <2>2. s.list[o] \in Seq(Threads)
    BY <1>0, MemoryTypes
  <2> QED BY <1>2, <2>1, <2>2, AppendMembers
<1>4. s.current_tcb = t /\ s.server \in [Threads -> ThreadOrNull]
      /\ s.bound_tcb \in [Notifications -> ThreadOrNull]
  BY <1>0 DEF KernelMemory
<1> HIDE DEF t
<1>5. t \in Threads /\ t # Null
  BY <1>4, ObjectsAssumption
<1>6. QueuesInv(r)
  <2>1. \A x \in Threads : x # t => (Queued(r, x) <=> Queued(s, x))
    BY <1>3 DEF Queued
  <2>2. Queued(r, t)
    BY <1>3, <1>5 DEF Queued
  <2>3. \A x \in Threads :
          Queued(r, x) <=> \/ r.state[x] \in {"SENDING", "RECEIVING"}
                           \/ r.state[x] = "CALLING" /\ r.server[x] = Null
    BY <1>0, <1>1, <2>1, <2>2 DEF Resting, ObjectsInv, QueuesInv, Blocks
  <2>4. \A p \in Queues : NoDuplicates(r.list[p])
    BY <1>3 DEF Resting, ObjectsInv, QueuesInv
  <2>5. \A p, q \in Queues, x \in Threads :
          OnList(r.list[p], x) /\ OnList(r.list[q], x) => p = q
    BY <1>2, <1>3 DEF Resting, ObjectsInv, QueuesInv
  <2> QED BY <2>3, <2>4, <2>5 DEF QueuesInv
<1>7. DirectionInv(r)
  <2>1. \A e \in Endpoints : e \in Queues
    BY DEF Queues
  <2>2. \A n \in Notifications : n \in Queues
    BY DEF Queues
  <2> QED BY <1>1, <1>2, <1>3, <2>1, <2>2 DEF Resting, ObjectsInv, DirectionInv
<1>8. CallsInv(r)
  <2>1. ASSUME NEW c \in Threads, s.server[c] # Null
        PROVE  /\ c # t /\ s.server[c] \in Threads
               /\ st # "SENDING" => s.server[c] # t
    BY <1>0, <1>4, <2>1 DEF Free, ThreadOrNull
  <2> QED BY <1>1, <2>1 DEF Resting, ObjectsInv, CallsInv, Blocks
<1>9. ExpectsInv(r)
  BY <1>1, <1>4 DEF Resting, ObjectsInv, ExpectsInv, Blocks
<1>10. WordsInv(r)
  <2>1. ASSUME NEW n \in Notifications
        PROVE  /\ s.word[n] # {} => n # o
               /\ n \in Queues
               /\ s.bound_tcb[n] # Null => s.bound_tcb[n] \in Threads
    BY <1>4 DEF Queues, ThreadOrNull
  <2> QED BY <1>1, <1>3, <1>4, <2>1 DEF Resting, ObjectsInv, WordsInv, Blocks
<1>11. NodesInv(r)
  BY <1>0, <1>1 DEF Resting, ObjectsInv, NodesInv, Blocks
<1>12. Choosing(r)
  BY <1>0, <1>1, <1>4, <1>5 DEF Resting, RunListInv, CpuInv, Choosing, Blocks
<1>13. Asleep(s, r)
  BY <1>0, <1>1 DEF Asleep
<1> QED BY <1>6, <1>7, <1>8, <1>9, <1>10, <1>11, <1>12, <1>13
        DEF ObjectsInv, Resting, Blocks

(* The queues of r are the ones of s without x. *)
Unlinked(s, r, x) ==
  \A o \in Queues :
    /\ NoDuplicates(r.list[o])
    /\ \A y \in Threads : OnList(r.list[o], y) <=> OnList(s.list[o], y) /\ y # x

(* r is s with the blocked thread x made runnable.  Its reply_to may be    *)
(* overwritten, since neither a receiver nor a caller owes a reply.        *)
Wakes(s, r, x) ==
  /\ s.state[x] \in {"SENDING", "RECEIVING", "CALLING"}
  /\ r.state = [s.state EXCEPT ![x] = "RUNNABLE"]
  /\ r.server = [s.server EXCEPT ![x] = Null]
  /\ \A y \in Threads : \/ r.reply_to[y] = s.reply_to[y]
                        \/ y = x /\ s.state[x] \in {"RECEIVING", "CALLING"}
  /\ \A y \in Threads : r.expects_reply[y] = s.expects_reply[y] \/ s.state[y] \in Awake
  /\ Unlinked(s, r, x)
  /\ \A n \in Notifications : r.word[n] \in {s.word[n], {}}
  /\ r.bound_tcb = s.bound_tcb
  /\ r.bound_notification = s.bound_notification
  /\ \A y \in Threads : s.run_node[y] => r.run_node[y]
  /\ r.panic = s.panic

(* An empty queue stays empty when a thread is unlinked. *)
LEMMA UnlinkedEmpty ==
  ASSUME NEW s \in KernelMemory, NEW r \in KernelMemory, NEW x, Unlinked(s, r, x),
         NEW o \in Queues, s.list[o] = <<>>
  PROVE  r.list[o] = <<>>
<1>1. r.list[o] \in Seq(Threads) /\ s.list[o] \in Seq(Threads)
  BY MemoryTypes
<1>2. \A y \in Threads : ~OnList(s.list[o], y)
  BY <1>1, EmptyMembers
<1>3. \A y \in Threads : ~OnList(r.list[o], y)
  BY <1>2 DEF Unlinked
<1> QED BY <1>1, <1>3, EmptyMembers

(* Waking one thread keeps the objects consistent. *)
LEMMA WakingKeeps ==
  ASSUME NEW s, ObjectsInv(s), NEW x \in Threads, NEW r \in KernelMemory, Wakes(s, r, x)
  PROVE  ObjectsInv(r)
<1>0. s \in KernelMemory
  BY DEF ObjectsInv
<1>1. \A y \in Threads : r.state[y] = IF y = x THEN "RUNNABLE" ELSE s.state[y]
  BY <1>0, MemoryTypes DEF Wakes
<1>2. \A y \in Threads : r.server[y] = IF y = x THEN Null ELSE s.server[y]
  BY <1>0 DEF Wakes, KernelMemory
<1>3. Unlinked(s, r, x)
  BY DEF Wakes
<1>4. /\ \A y \in Threads : s.server[y] # Null => s.server[y] \in Threads
      /\ \A n \in Notifications : s.bound_tcb[n] # Null => s.bound_tcb[n] \in Threads
  BY <1>0 DEF KernelMemory, ThreadOrNull
<1>5. /\ \A e \in Endpoints : e \in Queues
      /\ \A n \in Notifications : n \in Queues
  BY DEF Queues
<1>6. QueuesInv(r)
  <2>1. \A y \in Threads : Queued(r, y) <=> Queued(s, y) /\ y # x
    BY <1>3 DEF Queued, Unlinked
  <2>2. \A y \in Threads :
          Queued(r, y) <=> \/ r.state[y] \in {"SENDING", "RECEIVING"}
                           \/ r.state[y] = "CALLING" /\ r.server[y] = Null
    BY <1>1, <1>2, <2>1 DEF ObjectsInv, QueuesInv
  <2>3. \A p, q \in Queues, y \in Threads :
          OnList(r.list[p], y) /\ OnList(r.list[q], y) => p = q
    BY <1>3 DEF ObjectsInv, QueuesInv, Unlinked
  <2> QED BY <1>3, <2>2, <2>3 DEF QueuesInv, Unlinked
<1>7. DirectionInv(r)
  BY <1>1, <1>3, <1>5 DEF ObjectsInv, DirectionInv, Unlinked
<1>8. CallsInv(r)
  <2>1. ASSUME NEW c \in Threads, r.server[c] # Null
        PROVE  /\ r.state[c] = "CALLING"
               /\ r.reply_to[r.server[c]] = c
               /\ r.state[r.server[c]] \notin {"RECEIVING", "CALLING"}
    <3> DEFINE v == s.server[c]
    <3>1. c # x /\ r.server[c] = v /\ v \in Threads
      BY <1>2, <1>4, <2>1
    <3>2. s.state[c] = "CALLING" /\ s.reply_to[v] = c
          /\ s.state[v] \notin {"RECEIVING", "CALLING"}
      BY <1>4, <2>1, <3>1 DEF ObjectsInv, CallsInv
    <3>3. r.reply_to[v] = s.reply_to[v]
      BY <3>1, <3>2 DEF Wakes
    <3> QED BY <1>1, <3>1, <3>2, <3>3
  <2> QED BY <2>1 DEF CallsInv
<1>9. ExpectsInv(r)
  BY <1>1 DEF ObjectsInv, ExpectsInv, Wakes, Awake
<1>10. WordsInv(r)
  <2>1. ASSUME NEW n \in Notifications, r.word[n] # {}
        PROVE  /\ r.list[n] = <<>>
               /\ s.bound_tcb[n] # Null => r.state[s.bound_tcb[n]] # "RECEIVING"
    <3>1. s.word[n] # {}
      BY <2>1 DEF Wakes
    <3>2. /\ s.list[n] = <<>>
          /\ s.bound_tcb[n] # Null => s.state[s.bound_tcb[n]] # "RECEIVING"
      BY <3>1 DEF ObjectsInv, WordsInv
    <3> QED BY <1>0, <1>1, <1>3, <1>4, <1>5, <3>2, UnlinkedEmpty
  <2> QED BY <2>1 DEF ObjectsInv, WordsInv, Wakes
<1>11. NodesInv(r)
  BY <1>1 DEF ObjectsInv, NodesInv, Wakes
<1> QED BY <1>6, <1>7, <1>8, <1>9, <1>10, <1>11 DEF ObjectsInv, Wakes

(* r is s with the thread t, which owes nothing, turned into a caller that *)
(* x, which is awake and has t in its reply_to, must answer.               *)
BecomesCaller(s, r, t, x) ==
  /\ s.state[t] = "RUNNING" /\ s.state[x] \in Awake
  /\ \A c \in Threads : s.server[c] # t
  /\ s.reply_to[x] = t
  /\ s.expects_reply[t] = TRUE
  /\ r.state = [s.state EXCEPT ![t] = "CALLING"]
  /\ r.server = [s.server EXCEPT ![t] = x]
  /\ r.expects_reply = s.expects_reply
  /\ r.list = s.list
  /\ r.reply_to = s.reply_to
  /\ r.word = s.word
  /\ r.bound_tcb = s.bound_tcb
  /\ r.bound_notification = s.bound_notification
  /\ r.run_node = s.run_node
  /\ r.panic = s.panic

(* A call that is taken at once keeps the objects consistent. *)
LEMMA CallTaken ==
  ASSUME NEW s, ObjectsInv(s), NEW t \in Threads, NEW x \in Threads, t # x,
         NEW r \in KernelMemory, BecomesCaller(s, r, t, x)
  PROVE  ObjectsInv(r)
<1> USE DEF BecomesCaller
<1>0. s \in KernelMemory
  BY DEF ObjectsInv
<1>1. \A y \in Threads : r.state[y] = IF y = t THEN "CALLING" ELSE s.state[y]
  BY <1>0, MemoryTypes
<1>2. \A y \in Threads : r.server[y] = IF y = t THEN x ELSE s.server[y]
  BY <1>0 DEF KernelMemory
<1>3. x # Null
  BY ObjectsAssumption
<1>4. \A y \in Threads : s.server[y] # Null => s.server[y] \in Threads
  BY <1>0 DEF KernelMemory, ThreadOrNull
<1>5. QueuesInv(r)
  <2>1. \A y \in Threads : Queued(r, y) <=> Queued(s, y)
    BY DEF Queued
  <2>2. \A y \in Threads :
          Queued(r, y) <=> \/ r.state[y] \in {"SENDING", "RECEIVING"}
                           \/ r.state[y] = "CALLING" /\ r.server[y] = Null
    BY <1>1, <1>2, <1>3, <2>1 DEF ObjectsInv, QueuesInv
  <2> QED BY <2>2 DEF ObjectsInv, QueuesInv
<1>6. DirectionInv(r)
  BY <1>1 DEF ObjectsInv, DirectionInv
<1>7. CallsInv(r)
  BY <1>1, <1>2, <1>4 DEF ObjectsInv, CallsInv, Awake
<1>8. ExpectsInv(r)
  BY <1>1 DEF ObjectsInv, ExpectsInv
<1>9. WordsInv(r)
  <2>1. \A n \in Notifications : s.bound_tcb[n] # Null => s.bound_tcb[n] \in Threads
    BY <1>0 DEF KernelMemory, ThreadOrNull
  <2> QED BY <1>1, <2>1 DEF ObjectsInv, WordsInv
<1>10. NodesInv(r)
  BY <1>1 DEF ObjectsInv, NodesInv
<1> QED BY <1>5, <1>6, <1>7, <1>8, <1>9, <1>10 DEF ObjectsInv

(* r is s with the call of the queued caller x taken by the running thread *)
(* t, which owes nothing; x goes on waiting outside the queue.             *)
TakesCall(s, r, t, x) ==
  /\ s.state[t] = "RUNNING" /\ s.state[x] = "CALLING"
  /\ \A c \in Threads : s.server[c] # t
  /\ Unlinked(s, r, x)
  /\ r.server = [s.server EXCEPT ![x] = t]
  /\ r.reply_to = [s.reply_to EXCEPT ![t] = x]
  /\ r.state = s.state
  /\ r.expects_reply = s.expects_reply
  /\ r.word = s.word
  /\ r.bound_tcb = s.bound_tcb
  /\ r.bound_notification = s.bound_notification
  /\ r.run_node = s.run_node
  /\ r.panic = s.panic

(* A call that is taken from the queue keeps the objects consistent. *)
LEMMA CallAccepted ==
  ASSUME NEW s, ObjectsInv(s), NEW t \in Threads, NEW x \in Threads,
         NEW r \in KernelMemory, TakesCall(s, r, t, x)
  PROVE  ObjectsInv(r)
<1> USE DEF TakesCall
<1>0. s \in KernelMemory
  BY DEF ObjectsInv
<1>1. \A y \in Threads : r.server[y] = IF y = x THEN t ELSE s.server[y]
  BY <1>0 DEF KernelMemory
<1>2. \A y \in Threads : r.reply_to[y] = IF y = t THEN x ELSE s.reply_to[y]
  BY <1>0 DEF KernelMemory
<1>3. t # Null
  BY ObjectsAssumption
<1>4. \A y \in Threads : s.server[y] # Null => s.server[y] \in Threads
  BY <1>0 DEF KernelMemory, ThreadOrNull
<1>5. /\ \A e \in Endpoints : e \in Queues
      /\ \A n \in Notifications : n \in Queues
  BY DEF Queues
<1>6. QueuesInv(r)
  <2>1. \A y \in Threads : Queued(r, y) <=> Queued(s, y) /\ y # x
    BY DEF Queued, Unlinked
  <2>2. \A y \in Threads :
          Queued(r, y) <=> \/ r.state[y] \in {"SENDING", "RECEIVING"}
                           \/ r.state[y] = "CALLING" /\ r.server[y] = Null
    BY <1>1, <1>3, <2>1 DEF ObjectsInv, QueuesInv
  <2>3. \A p, q \in Queues, y \in Threads :
          OnList(r.list[p], y) /\ OnList(r.list[q], y) => p = q
    BY DEF ObjectsInv, QueuesInv, Unlinked
  <2> QED BY <2>2, <2>3 DEF QueuesInv, Unlinked
<1>7. DirectionInv(r)
  BY <1>5 DEF ObjectsInv, DirectionInv, Unlinked
<1>8. CallsInv(r)
  BY <1>1, <1>2, <1>4 DEF ObjectsInv, CallsInv
<1>9. ExpectsInv(r)
  BY DEF ObjectsInv, ExpectsInv
<1>10. WordsInv(r)
  <2>1. \A n \in Notifications : s.word[n] # {} => r.list[n] = <<>>
    BY <1>0, <1>5, UnlinkedEmpty DEF ObjectsInv, WordsInv
  <2> QED BY <2>1 DEF ObjectsInv, WordsInv
<1>11. NodesInv(r)
  BY DEF ObjectsInv, NodesInv
<1> QED BY <1>6, <1>7, <1>8, <1>9, <1>10, <1>11 DEF ObjectsInv

-----------------------------------------------------------------------------
(* Endpoints. *)

(* The first thread of a queue is linked. *)
LEMMA FirstQueued ==
  ASSUME NEW s, ObjectsInv(s), NEW o \in Queues, s.list[o] # <<>>
  PROVE  /\ Head(s.list[o]) \in Threads
         /\ OnList(s.list[o], Head(s.list[o]))
         /\ Queued(s, Head(s.list[o]))
<1>1. s.list[o] \in Seq(Threads)
  BY MemoryTypes DEF ObjectsInv
<1> QED BY <1>1, PopMembers DEF Queued

(* list.h pop_from_list: it is in no other queue, so that popping it takes *)
(* it off all of them.                                                     *)
LEMMA PopUnlinks ==
  ASSUME NEW s, ObjectsInv(s), NEW o \in Queues, s.list[o] # <<>>,
         NEW r, r.list = [s.list EXCEPT ![o] = Tail(s.list[o])]
  PROVE  Unlinked(s, r, Head(s.list[o]))
<1> DEFINE h == Head(s.list[o])
<1>1. s.list[o] \in Seq(Threads) /\ s.list \in [Queues -> Seq(Threads)]
  BY MemoryTypes DEF ObjectsInv
<1>2. /\ h \in Threads /\ OnList(s.list[o], h)
      /\ \A y \in Threads : OnList(s.list[o], y) <=> y = h \/ OnList(Tail(s.list[o]), y)
      /\ NoDuplicates(Tail(s.list[o])) /\ ~OnList(Tail(s.list[o]), h)
  BY <1>1, PopMembers DEF ObjectsInv, QueuesInv
<1> HIDE DEF h
<1>3. \A p \in Queues : r.list[p] = IF p = o THEN Tail(s.list[o]) ELSE s.list[p]
  BY <1>1
<1>4. \A p \in Queues : p # o => ~OnList(s.list[p], h)
  BY <1>2 DEF ObjectsInv, QueuesInv
<1>5. Unlinked(s, r, h)
  BY <1>2, <1>3, <1>4 DEF ObjectsInv, QueuesInv, Unlinked
<1> QED BY <1>5 DEF h

(* s with what a send or a call sets first. *)
Announces(s, c, is_call) ==
  /\ c.expects_reply = [s.expects_reply EXCEPT ![s.current_tcb] = is_call]
  /\ c.state = IF is_call THEN [s.state EXCEPT ![s.current_tcb] = "CALLING"] ELSE s.state
  /\ c.list = s.list
  /\ c.server = s.server
  /\ c.reply_to = s.reply_to
  /\ c.word = s.word
  /\ c.bound_tcb = s.bound_tcb
  /\ c.bound_notification = s.bound_notification
  /\ c.run_node = s.run_node
  /\ c.runnable_tcbs = s.runnable_tcbs
  /\ c.current_tcb = s.current_tcb
  /\ c.return_to_tcb = s.return_to_tcb
  /\ c.panic = s.panic

(* endpoint.c queue_message_on_endpoint. *)
LEMMA QueueMessageLeaves ==
  ASSUME NEW s, Resting(s), s.current_tcb \in Threads,
         NEW e \in Endpoints, NEW badge \in Badges, NEW is_call \in BOOLEAN,
         NEW c \in KernelMemory, Announces(s, c, is_call), is_call => Free(s),
         send_will_block(s, e)
  PROVE  LET r == queue_message_on_endpoint(c, e, badge, is_call)
         IN  Leaving(r) /\ Asleep(s, r)
<1> DEFINE t == s.current_tcb
           st == IF is_call THEN "CALLING" ELSE "SENDING"
           b == [c EXCEPT !.list[e] = append_to_list(c.list[e], t),
                          !.state[t] = st,
                          !.endpoint_badge[t] = badge]
<1>0. s \in KernelMemory /\ ~Queued(s, t) /\ s.state[t] = "RUNNING"
  BY CurrentIsFree
<1>1. e \in Queues /\ st \in {"SENDING", "RECEIVING", "CALLING"} /\ st # "RECEIVING"
  BY DEF Queues
<1>2. ~Queued(c, t) /\ c.current_tcb = t
  BY <1>0 DEF Queued, Announces
<1>3. b \in KernelMemory
  <2>1. append_to_list(c.list[e], t) \in Seq(Threads)
    BY <1>1, MemoryTypes, AppendType
  <2> QED BY <1>1, <2>1 DEF KernelMemory, TaskStates
<1>4. Blocks(s, b, e, st)
  <2>1. /\ b.list = [c.list EXCEPT ![e] = append_to_list(c.list[e], t)]
        /\ b.state = [c.state EXCEPT ![t] = st]
        /\ b.expects_reply = c.expects_reply /\ b.server = c.server
        /\ b.reply_to = c.reply_to /\ b.word = c.word /\ b.bound_tcb = c.bound_tcb
        /\ b.bound_notification = c.bound_notification /\ b.run_node = c.run_node
        /\ b.runnable_tcbs = c.runnable_tcbs /\ b.current_tcb = c.current_tcb
        /\ b.return_to_tcb = c.return_to_tcb /\ b.panic = c.panic
    BY DEF KernelMemory
  <2>2. [c.state EXCEPT ![t] = st] = [s.state EXCEPT ![t] = st]
    BY <1>0, MemoryTypes DEF Announces
  <2>3. \A x \in Threads : c.expects_reply[x] = IF x = t THEN is_call ELSE s.expects_reply[x]
    BY <1>0 DEF Announces, KernelMemory
  <2> HIDE DEF b
  <2> QED BY <2>1, <2>2, <2>3 DEF Blocks, Announces
<1>5. \A x \in Threads : OnList(s.list[e], x) => s.state[x] # "RECEIVING"
  <2> SUFFICES ASSUME NEW x \in Threads, OnList(s.list[e], x)
               PROVE  s.state[x] # "RECEIVING"
    OBVIOUS
  <2>1. s.list[e] \in Seq(Threads) /\ s.list[e] # <<>>
    BY <1>0, <1>1, MemoryTypes, EmptyMembers
  <2>2. Head(s.list[e]) \in Threads /\ OnList(s.list[e], Head(s.list[e]))
    BY <2>1, PopMembers
  <2>3. s.state[Head(s.list[e])] # "RECEIVING"
    BY <2>1 DEF send_will_block, FirstState
  <2> QED BY <2>2, <2>3 DEF Resting, ObjectsInv, DirectionInv
<1>6. e \notin Notifications
  BY ObjectsAssumption
<1> HIDE DEF b
<1>7. ObjectsInv(b) /\ Choosing(b) /\ Asleep(s, b)
  BY <1>1, <1>3, <1>4, <1>5, <1>6, BlockingKeeps
<1>8. Leaving(schedule(b)) /\ Asleep(b, schedule(b))
  BY <1>7, ScheduleChooses
<1>9. queue_message_on_endpoint(c, e, badge, is_call) = schedule(b)
  BY <1>2 DEF queue_message_on_endpoint, b
<1> QED BY <1>7, <1>8, <1>9 DEF Asleep

(* endpoint.c send_message_to_blocked_receiver: the first receiver is      *)
(* switched to.  A caller is its caller from now on.                       *)
LEMMA SendToReceiverLeaves ==
  ASSUME NEW s, Resting(s), s.current_tcb \in Threads,
         NEW e \in Endpoints, NEW badge \in Badges, NEW is_call \in BOOLEAN,
         NEW c \in KernelMemory, Announces(s, c, is_call), is_call => Free(s),
         ~send_will_block(s, e)
  PROVE  LET r == send_message_to_blocked_receiver(c, e, badge, TRUE)
         IN  Leaving(r) /\ Asleep(s, r)
<1> DEFINE t == s.current_tcb
           h == Head(s.list[e])
           m == transfer_message([c EXCEPT !.list[e] = Tail(c.list[e])], t, h, badge)
           r == switch_tcb(m, h)
<1>0. /\ s \in KernelMemory /\ ~Queued(s, t) /\ s.state[t] = "RUNNING" /\ s.run_node[t]
      /\ s.server[t] = Null
  BY CurrentIsFree
<1>1. e \in Queues /\ s.list[e] # <<>>
  BY DEF Queues, send_will_block
<1>2. h \in Threads /\ Queued(s, h) /\ h # t
  BY <1>0, <1>1, FirstQueued DEF Resting
<1>3. s.state[h] = "RECEIVING" /\ s.server[h] = Null /\ s.run_node[h]
  <2>1. s.state[h] \notin {"SENDING", "CALLING"}
    BY <1>1 DEF send_will_block, FirstState
  <2> QED BY <1>2, <2>1 DEF Resting, ObjectsInv, QueuesInv, CallsInv, NodesInv
<1>4. c.list[e] = s.list[e] /\ c.current_tcb = t /\ c.expects_reply[t] = is_call
  BY <1>0 DEF Announces, KernelMemory
<1>5. m \in KernelMemory /\ r \in KernelMemory
  <2>1. [c EXCEPT !.list[e] = Tail(c.list[e])] \in KernelMemory
    BY <1>1, <1>4, PopType
  <2> QED BY <1>2, <2>1, TransferType, SwitchTcbType
<1>6. send_message_to_blocked_receiver(c, e, badge, TRUE) = r
  <2>1. [c EXCEPT !.list[e] = Tail(c.list[e])].current_tcb = t
    BY <1>4 DEF KernelMemory
  <2> QED BY <1>4, <2>1 DEF send_message_to_blocked_receiver, send_message_directly
<1>7. /\ m.list = [s.list EXCEPT ![e] = Tail(s.list[e])]
      /\ m.state = c.state
      /\ m.expects_reply = c.expects_reply
      /\ m.reply_to = IF is_call THEN [s.reply_to EXCEPT ![h] = t] ELSE s.reply_to
      /\ m.server = IF is_call THEN [s.server EXCEPT ![t] = h] ELSE s.server
      /\ m.word = s.word /\ m.bound_tcb = s.bound_tcb
      /\ m.bound_notification = s.bound_notification /\ m.run_node = s.run_node
      /\ m.runnable_tcbs = s.runnable_tcbs /\ m.current_tcb = t
      /\ m.return_to_tcb = s.return_to_tcb /\ m.panic = s.panic
  <2>1. is_call => c.state[t] = "CALLING"
    BY <1>0, MemoryTypes DEF Announces
  <2> QED BY <1>4, <2>1 DEF transfer_message, Announces, KernelMemory
<1>8. /\ r.list = m.list /\ r.expects_reply = m.expects_reply /\ r.reply_to = m.reply_to
      /\ r.server = m.server /\ r.word = m.word /\ r.bound_tcb = m.bound_tcb
      /\ r.bound_notification = m.bound_notification /\ r.run_node = m.run_node
      /\ r.panic = m.panic
      /\ r.state = [c.state EXCEPT ![h] = "RUNNABLE"]
  BY <1>5, <1>7 DEF switch_tcb, KernelMemory
<1> HIDE DEF m, r, h, t
<1>9. \A x \in Threads : c.state[x] = IF x = t /\ is_call THEN "CALLING" ELSE s.state[x]
  BY <1>0, MemoryTypes DEF Announces, t
<1>10. \A x \in Threads : r.state[x] = IF x = h THEN "RUNNABLE" ELSE c.state[x]
  BY <1>8, MemoryTypes
<1>11. t = s.current_tcb /\ t \in Threads
  BY DEF t
<1>12. Chosen(r)
  <2>1. Choosing(s)
    BY NoChoice
  <2>2. Choosing(m)
    BY <1>0, <1>7, <1>9, <1>11, <2>1 DEF Choosing, RunListInv
  <2>3. m.state[h] # "RUNNABLE" /\ m.run_node[h] /\ h # m.current_tcb
    BY <1>2, <1>3, <1>7, <1>9
  <2> QED BY <1>2, <1>5, <2>2, <2>3, SwitchChooses DEF r
<1>13. Asleep(s, r)
  BY <1>0, <1>3, <1>9, <1>10 DEF Asleep
<1>14. Unlinked(s, r, h)
  BY <1>1, <1>7, <1>8, PopUnlinks DEF Resting, h
<1>15. \A x \in Threads : r.expects_reply[x] = s.expects_reply[x] \/ s.state[x] \in Awake
  <2>1. \A x \in Threads : x # t => r.expects_reply[x] = s.expects_reply[x]
    BY <1>0, <1>7, <1>8, <1>11 DEF Announces, KernelMemory
  <2> QED BY <1>0, <2>1 DEF Awake
<1>16. s.server = [s.server EXCEPT ![h] = Null]
  BY <1>0, <1>2, <1>3 DEF KernelMemory
<1>17. CASE ~is_call
  <2>1. r.state = [s.state EXCEPT ![h] = "RUNNABLE"]
    BY <1>8, <1>17 DEF Announces
  <2>2. Wakes(s, r, h)
    BY <1>3, <1>7, <1>8, <1>14, <1>15, <1>16, <1>17, <2>1 DEF Wakes
  <2> QED BY <1>2, <1>5, <1>6, <1>12, <1>13, <2>2, WakingKeeps DEF Resting, Leaving
<1>18. CASE is_call
  <2> DEFINE w == [r EXCEPT !.state[t] = "RUNNING", !.server[t] = Null]
  <2>1. /\ w \in KernelMemory
        /\ w.state = [r.state EXCEPT ![t] = "RUNNING"]
        /\ w.server = [r.server EXCEPT ![t] = Null]
        /\ w.list = r.list /\ w.expects_reply = r.expects_reply /\ w.reply_to = r.reply_to
        /\ w.word = r.word /\ w.bound_tcb = r.bound_tcb
        /\ w.bound_notification = r.bound_notification /\ w.run_node = r.run_node
        /\ w.panic = r.panic
    BY <1>5, <1>11 DEF KernelMemory, TaskStates, ThreadOrNull
  <2> HIDE DEF w
  <2>2. w.state = [s.state EXCEPT ![h] = "RUNNABLE"]
    <3>1. /\ w.state \in [Threads -> TaskStates] /\ s.state \in [Threads -> TaskStates]
          /\ r.state \in [Threads -> TaskStates]
      BY <1>0, <1>5, <2>1, MemoryTypes
    <3>2. \A x \in Threads : w.state[x] = IF x = h THEN "RUNNABLE" ELSE s.state[x]
      BY <1>0, <1>2, <1>9, <1>10, <2>1, <3>1
    <3> QED BY <3>1, <3>2
  <2>3. w.server = [s.server EXCEPT ![h] = Null]
    <3>1. /\ w.server \in [Threads -> ThreadOrNull] /\ s.server \in [Threads -> ThreadOrNull]
      BY <1>0, <2>1 DEF KernelMemory
    <3>2. \A x \in Threads : w.server[x] = s.server[x]
      BY <1>0, <1>7, <1>8, <1>18, <2>1, <3>1
    <3> QED BY <1>2, <1>3, <3>1, <3>2
  <2>4. Unlinked(s, w, h)
    BY <1>14, <2>1 DEF Unlinked
  <2>5. \A y \in Threads : w.reply_to[y] = IF y = h THEN t ELSE s.reply_to[y]
    BY <1>0, <1>7, <1>8, <1>18, <2>1 DEF KernelMemory
  <2>6. Wakes(s, w, h)
    BY <1>3, <1>7, <1>8, <1>15, <2>1, <2>2, <2>3, <2>4, <2>5 DEF Wakes
  <2>7. ObjectsInv(w)
    BY <1>2, <2>1, <2>6, WakingKeeps DEF Resting
  <2>8. /\ w.state[t] = "RUNNING" /\ w.state[h] \in Awake /\ w.reply_to[h] = t
        /\ \A x \in Threads : w.server[x] # t
    <3>1. w.state[t] = "RUNNING" /\ w.state[h] = "RUNNABLE"
      BY <1>0, <1>2, <1>11, <2>2, MemoryTypes
    <3>2. \A x \in Threads : w.server[x] = IF x = h THEN Null ELSE s.server[x]
      BY <1>0, <2>3 DEF KernelMemory
    <3>3. t # Null
      BY <1>11, ObjectsAssumption
    <3> QED BY <1>2, <1>11, <1>18, <2>5, <3>1, <3>2, <3>3 DEF Free, Awake
  <2>9. w.expects_reply[t] = TRUE
    BY <1>4, <1>7, <1>8, <1>18, <2>1
  <2>10. r.state = [w.state EXCEPT ![t] = "CALLING"]
    BY <1>2, <1>5, <1>9, <1>10, <1>11, <1>18, <2>1, MemoryTypes
  <2>11. r.server = [w.server EXCEPT ![t] = h]
    <3>1. /\ w.server \in [Threads -> ThreadOrNull] /\ s.server \in [Threads -> ThreadOrNull]
          /\ r.server \in [Threads -> ThreadOrNull]
      BY <1>0, <1>5, <2>1 DEF KernelMemory
    <3> QED BY <1>7, <1>8, <1>11, <1>18, <2>1, <3>1
  <2>12. ObjectsInv(r)
    <3>1. /\ r.list = w.list /\ r.expects_reply = w.expects_reply /\ r.reply_to = w.reply_to
          /\ r.word = w.word /\ r.bound_tcb = w.bound_tcb
          /\ r.bound_notification = w.bound_notification /\ r.run_node = w.run_node
          /\ r.panic = w.panic
      BY <2>1
    <3>2. h \in Threads /\ t \in Threads /\ t # h /\ r \in KernelMemory
      BY <1>2, <1>5, <1>11
    <3>3. BecomesCaller(w, r, t, h)
      BY <2>8, <2>9, <2>10, <2>11, <3>1 DEF BecomesCaller
    <3> QED BY <2>7, <3>2, <3>3, CallTaken
  <2> QED BY <1>6, <1>12, <1>13, <2>12 DEF Leaving
<1> QED BY <1>17, <1>18

(* endpoint.c invoke_endpoint_send and invoke_endpoint_call: what they set *)
(* before they look at the queue does not change what they find there.     *)
LEMMA EndpointSendLeaves ==
  ASSUME NEW s, Resting(s), s.current_tcb \in Threads,
         NEW e \in Endpoints, NEW badge \in Badges, NEW is_call \in BOOLEAN,
         NEW c \in KernelMemory, Announces(s, c, is_call), is_call => Free(s)
  PROVE  LET r == endpoint_send(c, e, badge, is_call)
         IN  Leaving(r) /\ Asleep(s, r)
<1>0. s \in KernelMemory /\ ~Queued(s, s.current_tcb) /\ e \in Queues
  BY CurrentIsFree DEF Queues
<1>1. send_will_block(c, e) <=> send_will_block(s, e)
  <2>1. CASE s.list[e] = <<>>
    BY <2>1 DEF send_will_block, Announces
  <2>2. CASE s.list[e] # <<>>
    <3> DEFINE h == Head(s.list[e])
    <3>1. h \in Threads /\ h # s.current_tcb
      BY <1>0, <2>2, FirstQueued DEF Resting
    <3>2. c.state[h] = s.state[h] /\ c.list[e] = s.list[e]
      BY <1>0, <3>1, MemoryTypes DEF Announces
    <3> HIDE DEF h
    <3> QED BY <2>2, <3>2 DEF send_will_block, FirstState, h
  <2> QED BY <2>1, <2>2
<1>2. CASE send_will_block(s, e)
  BY <1>1, <1>2, QueueMessageLeaves DEF endpoint_send
<1>3. CASE ~send_will_block(s, e)
  BY <1>1, <1>3, SendToReceiverLeaves DEF endpoint_send
<1> QED BY <1>2, <1>3

(* endpoint.c invoke_endpoint_send. *)
LEMMA SendLeaves ==
  ASSUME NEW s, Resting(s), s.current_tcb \in Threads,
         NEW e \in Endpoints, NEW badge \in Badges
  PROVE  LET r == invoke_endpoint_send(s, e, badge)
         IN  Leaving(r) /\ Asleep(s, r)
<1> DEFINE c == [s EXCEPT !.expects_reply[s.current_tcb] = FALSE]
<1>0. s \in KernelMemory
  BY CurrentIsFree
<1>1. c \in KernelMemory /\ Announces(s, c, FALSE)
  BY <1>0 DEF Announces, KernelMemory
<1>2. invoke_endpoint_send(s, e, badge) = endpoint_send(c, e, badge, FALSE)
  BY DEF invoke_endpoint_send
<1> HIDE DEF c
<1> QED BY <1>1, <1>2, EndpointSendLeaves

(* endpoint.c invoke_endpoint_call, by a thread that owes no reply. *)
LEMMA CallLeaves ==
  ASSUME NEW s, Resting(s), s.current_tcb \in Threads, Free(s),
         NEW e \in Endpoints, NEW badge \in Badges
  PROVE  LET r == invoke_endpoint_call(s, e, badge)
         IN  Leaving(r) /\ Asleep(s, r)
<1> DEFINE c == [s EXCEPT !.expects_reply[s.current_tcb] = TRUE,
                          !.state[s.current_tcb] = "CALLING"]
<1>0. s \in KernelMemory
  BY CurrentIsFree
<1>1. c \in KernelMemory /\ Announces(s, c, TRUE)
  BY <1>0 DEF Announces, KernelMemory, TaskStates
<1>2. invoke_endpoint_call(s, e, badge) = endpoint_send(c, e, badge, TRUE)
  BY DEF invoke_endpoint_call
<1> HIDE DEF c
<1> QED BY <1>1, <1>2, EndpointSendLeaves

(* endpoint.c receive_message_from_blocked_sender: a sender goes on the    *)
(* run list, a caller goes on waiting, now for the current thread.         *)
LEMMA ReceiveBlockedRests ==
  ASSUME NEW s, Resting(s), s.current_tcb \in Threads, Free(s),
         NEW e \in Endpoints, ~recv_will_block(s, e)
  PROVE  LET r == receive_message_from_blocked_sender(s, e)
         IN  Resting(r) /\ Asleep(s, r)
<1> DEFINE t == s.current_tcb
           h == Head(s.list[e])
           p == [s EXCEPT !.list[e] = Tail(s.list[e])]
           m == transfer_message(p, h, t, s.endpoint_badge[h])
           r == receive_message_from_blocked_sender(s, e)
<1>0. /\ s \in KernelMemory /\ ~Queued(s, t) /\ s.state[t] = "RUNNING" /\ s.run_node[t]
      /\ s.server[t] = Null
  BY CurrentIsFree
<1>1. e \in Queues /\ s.list[e] # <<>>
  BY DEF Queues, recv_will_block
<1>2. h \in Threads /\ Queued(s, h) /\ h # t
  BY <1>0, <1>1, FirstQueued DEF Resting
<1>3. /\ s.state[h] \in {"SENDING", "CALLING"} /\ s.server[h] = Null /\ s.run_node[h]
      /\ s.expects_reply[h] <=> s.state[h] = "CALLING"
  <2>1. s.state[h] # "RECEIVING"
    BY <1>1 DEF recv_will_block, FirstState
  <2>2. s.state[h] \in {"SENDING", "CALLING"} /\ s.server[h] = Null
    BY <1>2, <2>1 DEF Resting, ObjectsInv, QueuesInv, CallsInv
  <2> QED BY <1>2, <2>2 DEF Resting, ObjectsInv, NodesInv, ExpectsInv
<1>4. p \in KernelMemory /\ m \in KernelMemory
  <2>1. p \in KernelMemory
    BY <1>0, <1>1, PopType
  <2>2. s.endpoint_badge[h] \in Badges
    BY <1>0, <1>2 DEF KernelMemory
  <2> HIDE DEF p
  <2> QED BY <1>2, <2>1, <2>2, TransferType
<1>5. r = IF s.expects_reply[h] THEN m ELSE schedule_tcb(m, h)
  BY DEF receive_message_from_blocked_sender
<1>6. /\ m.list = [s.list EXCEPT ![e] = Tail(s.list[e])]
      /\ m.state = s.state
      /\ m.expects_reply = s.expects_reply
      /\ m.reply_to = IF s.expects_reply[h] THEN [s.reply_to EXCEPT ![t] = h] ELSE s.reply_to
      /\ m.server = IF s.expects_reply[h] THEN [s.server EXCEPT ![h] = t] ELSE s.server
      /\ m.word = s.word /\ m.bound_tcb = s.bound_tcb
      /\ m.bound_notification = s.bound_notification /\ m.run_node = s.run_node
      /\ m.runnable_tcbs = s.runnable_tcbs /\ m.current_tcb = t
      /\ m.return_to_tcb = s.return_to_tcb /\ m.panic = s.panic
  BY <1>0, <1>3 DEF transfer_message, KernelMemory
<1>7. t \in Threads /\ t = s.current_tcb
  OBVIOUS
<1>8. Unlinked(s, m, h)
  BY <1>1, <1>6, PopUnlinks DEF Resting
<1> HIDE DEF m, r, h, t, p
<1>9. CASE s.expects_reply[h]
  <2>1. r = m
    BY <1>5, <1>9
  <2>2. TakesCall(s, m, t, h)
    BY <1>0, <1>3, <1>6, <1>7, <1>8, <1>9 DEF TakesCall, Free
  <2>3. ObjectsInv(m)
    BY <1>2, <1>4, <1>7, <2>2, CallAccepted DEF Resting
  <2>4. RunListInv(m) /\ CpuInv(m) /\ Asleep(s, m)
    BY <1>6, <1>7 DEF Resting, RunListInv, CpuInv, Asleep
  <2> QED BY <2>1, <2>3, <2>4 DEF Resting, r
<1>10. CASE ~s.expects_reply[h]
  <2>1. r = schedule_tcb(m, h) /\ s.state[h] = "SENDING"
    BY <1>3, <1>5, <1>10
  <2>2. ~OnList(m.runnable_tcbs, h) /\ m.state[h] # "DEAD"
    BY <1>2, <1>6, <2>1 DEF Resting, RunListInv
  <2>3. /\ r \in KernelMemory
        /\ SameObjects(m, r) /\ r.panic = m.panic
        /\ r.current_tcb = m.current_tcb /\ r.return_to_tcb = m.return_to_tcb
        /\ r.runnable_tcbs = append_to_list(m.runnable_tcbs, h)
        /\ r.run_node = [m.run_node EXCEPT ![h] = TRUE]
        /\ r.state = [m.state EXCEPT ![h] = "RUNNABLE"]
    BY <1>2, <1>4, <2>1, <2>2, ScheduleTcbEffect
  <2>4. \A x \in Threads :
          /\ r.state[x] = IF x = h THEN "RUNNABLE" ELSE s.state[x]
          /\ r.run_node[x] = IF x = h THEN TRUE ELSE s.run_node[x]
    <3>1. s.state \in [Threads -> TaskStates] /\ s.run_node \in [Threads -> BOOLEAN]
      BY <1>0, MemoryTypes
    <3>2. /\ r.state = [s.state EXCEPT ![h] = "RUNNABLE"]
          /\ r.run_node = [s.run_node EXCEPT ![h] = TRUE]
      BY <1>6, <2>3
    <3> QED BY <3>1, <3>2
  <2>5. Wakes(s, r, h)
    <3>1. s.server = [s.server EXCEPT ![h] = Null]
      BY <1>0, <1>2, <1>3 DEF KernelMemory
    <3>2. Unlinked(s, r, h)
      BY <1>8, <2>3 DEF Unlinked, SameObjects
    <3> QED BY <1>3, <1>6, <1>10, <2>1, <2>3, <2>4, <3>1, <3>2 DEF Wakes, SameObjects
  <2>6. ObjectsInv(r)
    BY <1>2, <2>3, <2>5, WakingKeeps DEF Resting
  <2>7. /\ \A x \in Threads : OnList(r.runnable_tcbs, x)
                                <=> x = h \/ OnList(s.runnable_tcbs, x)
        /\ NoDuplicates(r.runnable_tcbs)
    BY <1>0, <1>2, <1>6, <2>2, <2>3, AppendMembers, MemoryTypes DEF Resting, RunListInv
  <2>8. RunListInv(r)
    BY <2>4, <2>7 DEF Resting, RunListInv
  <2>9. CpuInv(r)
    BY <1>2, <1>6, <1>7, <2>1, <2>3, <2>4, ObjectsAssumption DEF Resting, CpuInv
  <2>10. Asleep(s, r)
    BY <2>1, <2>4 DEF Asleep
  <2> QED BY <2>6, <2>8, <2>9, <2>10 DEF Resting, r
<1> QED BY <1>9, <1>10

(* endpoint.c queue_receiver_on_endpoint, notification.c                   *)
(* queue_receiver_on_notification: the same, on either kind of queue.      *)
LEMMA QueueReceiverLeaves ==
  ASSUME NEW s, Resting(s), s.current_tcb \in Threads, Free(s), NEW o \in Queues,
         o \in Endpoints => recv_will_block(s, o),
         o \in Notifications => s.word[o] = {},
         \A n \in Notifications : s.bound_tcb[n] = s.current_tcb => s.word[n] = {}
  PROVE  LET b == [s EXCEPT !.list[o] = append_to_list(s.list[o], s.current_tcb),
                            !.state[s.current_tcb] = "RECEIVING"]
         IN  ~Queued(s, s.current_tcb) /\ Leaving(schedule(b)) /\ Asleep(s, schedule(b))
<1> DEFINE t == s.current_tcb
           b == [s EXCEPT !.list[o] = append_to_list(s.list[o], t),
                          !.state[t] = "RECEIVING"]
<1>0. s \in KernelMemory /\ ~Queued(s, t) /\ s.state[t] = "RUNNING"
  BY CurrentIsFree
<1>1. b \in KernelMemory
  <2>1. append_to_list(s.list[o], t) \in Seq(Threads)
    BY <1>0, MemoryTypes, AppendType
  <2> QED BY <1>0, <2>1 DEF KernelMemory, TaskStates
<1>2. Blocks(s, b, o, "RECEIVING")
  BY <1>0 DEF Blocks, KernelMemory
<1>3. o \in Endpoints => \A x \in Threads : OnList(s.list[o], x) => s.state[x] = "RECEIVING"
  <2> SUFFICES ASSUME o \in Endpoints, NEW x \in Threads, OnList(s.list[o], x)
               PROVE  s.state[x] = "RECEIVING"
    OBVIOUS
  <2>1. s.list[o] \in Seq(Threads) /\ s.list[o] # <<>>
    BY <1>0, MemoryTypes, EmptyMembers
  <2>2. Head(s.list[o]) \in Threads /\ OnList(s.list[o], Head(s.list[o]))
    BY <2>1, PopMembers
  <2>3. s.state[Head(s.list[o])] = "RECEIVING"
    BY <2>1 DEF recv_will_block, FirstState
  <2> QED BY <2>2, <2>3 DEF Resting, ObjectsInv, DirectionInv
<1> HIDE DEF b
<1>4. ObjectsInv(b) /\ Choosing(b) /\ Asleep(s, b)
  BY <1>1, <1>2, <1>3, BlockingKeeps
<1>5. Leaving(schedule(b)) /\ Asleep(b, schedule(b))
  BY <1>4, ScheduleChooses
<1>6. Asleep(s, schedule(b))
  BY <1>4, <1>5 DEF Asleep
<1> QED BY <1>0, <1>5, <1>6 DEF b

(* endpoint.c handle_recv_with_pending_notification, and the same on the   *)
(* notification itself: the word is taken, nothing else happens.           *)
LEMMA TakingWordRests ==
  ASSUME NEW s, Resting(s), NEW n \in Notifications, NEW r \in KernelMemory,
         r.word = [s.word EXCEPT ![n] = {}],
         r.list = s.list, r.server = s.server, r.reply_to = s.reply_to,
         r.expects_reply = s.expects_reply, r.bound_tcb = s.bound_tcb,
         r.bound_notification = s.bound_notification, r.state = s.state,
         r.run_node = s.run_node, r.runnable_tcbs = s.runnable_tcbs,
         r.current_tcb = s.current_tcb, r.return_to_tcb = s.return_to_tcb,
         r.panic = s.panic
  PROVE  Resting(r) /\ Asleep(s, r)
<1>1. \A p \in Notifications : r.word[p] = IF p = n THEN {} ELSE s.word[p]
  BY DEF Resting, ObjectsInv, KernelMemory
<1>2. WordsInv(r)
  BY <1>1 DEF Resting, ObjectsInv, WordsInv
<1>3. QueuesInv(r) /\ DirectionInv(r)
  BY DEF Resting, ObjectsInv, QueuesInv, DirectionInv, Queued
<1>4. CallsInv(r) /\ ExpectsInv(r) /\ NodesInv(r)
  BY DEF Resting, ObjectsInv, CallsInv, ExpectsInv, NodesInv
<1>5. RunListInv(r) /\ CpuInv(r) /\ Asleep(s, r)
  BY DEF Resting, RunListInv, CpuInv, Asleep
<1> QED BY <1>2, <1>3, <1>4, <1>5 DEF Resting, ObjectsInv

(* The receive that a pending signal answers (endpoint.c). *)
LEMMA PendingRecvRests ==
  ASSUME NEW s, Resting(s), s.current_tcb \in Threads, HasPendingNotification(s)
  PROVE  LET r == handle_recv_with_pending_notification(s)
         IN  Resting(r) /\ Asleep(s, r)
<1> DEFINE t == s.current_tcb
           n == s.bound_notification[t]
           r == handle_recv_with_pending_notification(s)
<1>1. s \in KernelMemory /\ n \in Notifications
  BY DEF Resting, ObjectsInv, KernelMemory, HasPendingNotification
<1>2. r = [s EXCEPT !.sender_badge[t] = s.word[n], !.word[n] = {}]
  BY DEF handle_recv_with_pending_notification
<1> HIDE DEF n
<1>3. r \in KernelMemory
  <2>1. s.word[n] \in Badges /\ {} \in Badges
    BY <1>1 DEF KernelMemory, Badges
  <2>2. /\ [s.sender_badge EXCEPT ![t] = s.word[n]] \in [Threads -> Badges]
        /\ [s.word EXCEPT ![n] = {}] \in [Notifications -> Badges]
    BY <1>1, <2>1 DEF KernelMemory
  <2> QED BY <1>1, <1>2, <2>2 DEF KernelMemory
<1>4. /\ r.word = [s.word EXCEPT ![n] = {}]
      /\ r.list = s.list /\ r.server = s.server /\ r.reply_to = s.reply_to
      /\ r.expects_reply = s.expects_reply /\ r.bound_tcb = s.bound_tcb
      /\ r.bound_notification = s.bound_notification /\ r.state = s.state
      /\ r.run_node = s.run_node /\ r.runnable_tcbs = s.runnable_tcbs
      /\ r.current_tcb = s.current_tcb /\ r.return_to_tcb = s.return_to_tcb
      /\ r.panic = s.panic
  BY <1>1, <1>2 DEF KernelMemory
<1> HIDE DEF r
<1>5. Resting(r) /\ Asleep(s, r)
  BY <1>1, <1>3, <1>4, TakingWordRests
<1> QED BY <1>5 DEF r

(* endpoint.c invoke_endpoint_recv and invoke_endpoint_nbrecv. *)
LEMMA RecvLeaves ==
  ASSUME NEW s, Resting(s), s.current_tcb \in Threads, Free(s), NEW e \in Endpoints
  PROVE  /\ LET r == invoke_endpoint_recv(s, e) IN Leaving(r) /\ Asleep(s, r)
         /\ LET r == invoke_endpoint_nbrecv(s, e) IN Leaving(r) /\ Asleep(s, r)
<1>1. CASE HasPendingNotification(s)
  BY <1>1, PendingRecvRests, NoChoice DEF invoke_endpoint_recv, invoke_endpoint_nbrecv
<1>2. CASE ~HasPendingNotification(s) /\ ~recv_will_block(s, e)
  BY <1>2, ReceiveBlockedRests, NoChoice
     DEF invoke_endpoint_recv, invoke_endpoint_nbrecv, endpoint_recv, endpoint_nbrecv
<1>3. CASE ~HasPendingNotification(s) /\ recv_will_block(s, e)
  <2>1. invoke_endpoint_nbrecv(s, e) = s
    BY <1>3 DEF invoke_endpoint_nbrecv, endpoint_nbrecv
  <2>2. Leaving(s) /\ Asleep(s, s)
    BY NoChoice DEF Asleep
  <2>3. e \in Queues /\ e \notin Notifications
    BY ObjectsAssumption DEF Queues
  <2>4. \A n \in Notifications : s.bound_tcb[n] = s.current_tcb => s.word[n] = {}
    <3>1. \A n \in Notifications : n # Null
      BY ObjectsAssumption
    <3>2. s.current_tcb # Null
      BY ObjectsAssumption
    <3> QED BY <1>3, <3>1, <3>2 DEF HasPendingNotification, Resting, ObjectsInv, WordsInv
  <2>5. LET b == [s EXCEPT !.list[e] = append_to_list(s.list[e], s.current_tcb),
                           !.state[s.current_tcb] = "RECEIVING"]
        IN  ~Queued(s, s.current_tcb) /\ Leaving(schedule(b)) /\ Asleep(s, schedule(b))
    BY <1>3, <2>3, <2>4, QueueReceiverLeaves
  <2>6. LET r == invoke_endpoint_recv(s, e) IN Leaving(r) /\ Asleep(s, r)
    BY <1>3, <2>5 DEF invoke_endpoint_recv, endpoint_recv, queue_receiver_on_endpoint
  <2> QED BY <2>1, <2>2, <2>6
<1> QED BY <1>1, <1>2, <1>3

(* From s to r nobody but c wakes up, and c only if t took its call. *)
Answers(s, r) ==
  \A x \in Threads :
    /\ s.state[x] = "DEAD" => r.state[x] = "DEAD"
    /\ s.state[x] = "CALLING" /\ r.state[x] # "CALLING" =>
         s.server[x] # Null /\ s.server[x] = s.current_tcb

(* endpoint.c invoke_reply: the caller of the current thread goes on the   *)
(* run list, and the current thread owes nobody a reply any more.          *)
LEMMA ReplyRests ==
  ASSUME NEW s, Resting(s), s.current_tcb \in Threads, ~Free(s)
  PROVE  LET r == invoke_reply(s)
         IN  /\ Resting(r) /\ Free(r) /\ Answers(s, r)
             /\ r.current_tcb = s.current_tcb
<1> DEFINE t == s.current_tcb
           c == s.reply_to[t]
           m == transfer_message(s, t, c, {})
           w == schedule_tcb(m, c)
           r == [w EXCEPT !.server[c] = Null]
<1>0. /\ s \in KernelMemory /\ s.state[t] = "RUNNING" /\ s.run_node[t]
      /\ s.server[t] = Null /\ t # Null
  BY CurrentIsFree, ObjectsAssumption
<1>1. /\ c \in Threads /\ c # t /\ s.state[c] = "CALLING" /\ s.server[c] = t
      /\ \A x \in Threads : s.server[x] = t => x = c
  <2>1. \A x \in Threads : s.server[x] = t => c = x /\ s.state[x] = "CALLING"
    BY <1>0 DEF Resting, ObjectsInv, CallsInv
  <2> QED BY <1>0, <2>1 DEF Free
<1>2. ~Queued(s, c) /\ s.run_node[c] /\ ~OnList(s.runnable_tcbs, c)
  BY <1>0, <1>1 DEF Resting, ObjectsInv, QueuesInv, NodesInv, RunListInv
<1>3. invoke_reply(s) = r
  BY <1>1, ObjectsAssumption DEF invoke_reply, send_message_directly
<1>4. m \in KernelMemory
  BY <1>0, <1>1, TransferType DEF Badges
<1>5. /\ m.list = s.list /\ m.state = s.state /\ m.expects_reply = s.expects_reply
      /\ m.reply_to = IF s.expects_reply[t] THEN [s.reply_to EXCEPT ![c] = t] ELSE s.reply_to
      /\ m.server = s.server
      /\ m.word = s.word /\ m.bound_tcb = s.bound_tcb
      /\ m.bound_notification = s.bound_notification /\ m.run_node = s.run_node
      /\ m.runnable_tcbs = s.runnable_tcbs /\ m.current_tcb = t
      /\ m.return_to_tcb = s.return_to_tcb /\ m.panic = s.panic
  BY <1>0, <1>1 DEF transfer_message, KernelMemory
<1>6. t \in Threads /\ t = s.current_tcb
  OBVIOUS
<1> HIDE DEF m, c, t
<1>7. /\ w \in KernelMemory
      /\ SameObjects(m, w) /\ w.panic = m.panic
      /\ w.current_tcb = m.current_tcb /\ w.return_to_tcb = m.return_to_tcb
      /\ w.runnable_tcbs = append_to_list(m.runnable_tcbs, c)
      /\ w.run_node = [m.run_node EXCEPT ![c] = TRUE]
      /\ w.state = [m.state EXCEPT ![c] = "RUNNABLE"]
  BY <1>1, <1>2, <1>4, <1>5, ScheduleTcbEffect, SMTT(40)
<1> HIDE DEF w
<1>8. /\ r \in KernelMemory
      /\ r.list = s.list /\ r.expects_reply = s.expects_reply /\ r.reply_to = m.reply_to
      /\ r.server = [s.server EXCEPT ![c] = Null]
      /\ r.word = s.word /\ r.bound_tcb = s.bound_tcb
      /\ r.bound_notification = s.bound_notification /\ r.panic = s.panic
      /\ r.current_tcb = t /\ r.return_to_tcb = s.return_to_tcb
      /\ r.runnable_tcbs = append_to_list(s.runnable_tcbs, c)
      /\ r.run_node = [s.run_node EXCEPT ![c] = TRUE]
      /\ r.state = [s.state EXCEPT ![c] = "RUNNABLE"]
  <2>1. /\ r.list = w.list /\ r.expects_reply = w.expects_reply /\ r.reply_to = w.reply_to
        /\ r.server = [w.server EXCEPT ![c] = Null]
        /\ r.word = w.word /\ r.bound_tcb = w.bound_tcb
        /\ r.bound_notification = w.bound_notification /\ r.panic = w.panic
        /\ r.current_tcb = w.current_tcb /\ r.return_to_tcb = w.return_to_tcb
        /\ r.runnable_tcbs = w.runnable_tcbs /\ r.run_node = w.run_node
        /\ r.state = w.state
    BY <1>7 DEF KernelMemory
  <2>2. r \in KernelMemory
    BY <1>1, <1>7 DEF KernelMemory, ThreadOrNull
  <2> HIDE DEF r
  <2> QED BY <1>5, <1>7, <2>1, <2>2 DEF SameObjects
<1> HIDE DEF r
<1>9. \A x \in Threads :
        /\ r.state[x] = IF x = c THEN "RUNNABLE" ELSE s.state[x]
        /\ r.run_node[x] = IF x = c THEN TRUE ELSE s.run_node[x]
        /\ r.server[x] = IF x = c THEN Null ELSE s.server[x]
  <2>1. /\ s.state \in [Threads -> TaskStates] /\ s.run_node \in [Threads -> BOOLEAN]
        /\ s.server \in [Threads -> ThreadOrNull]
    BY <1>0 DEF KernelMemory
  <2> QED BY <1>8, <2>1
<1>10. Wakes(s, r, c)
  <2>1. Unlinked(s, r, c)
    BY <1>2, <1>8 DEF Unlinked, Queued, Resting, ObjectsInv, QueuesInv
  <2>2. \A x \in Threads : r.reply_to[x] = s.reply_to[x] \/ x = c
    BY <1>0, <1>5, <1>8 DEF KernelMemory
  <2> QED BY <1>1, <1>8, <1>9, <2>1, <2>2 DEF Wakes
<1>11. ObjectsInv(r)
  BY <1>1, <1>8, <1>10, WakingKeeps DEF Resting
<1>12. /\ \A x \in Threads : OnList(r.runnable_tcbs, x)
                               <=> x = c \/ OnList(s.runnable_tcbs, x)
       /\ NoDuplicates(r.runnable_tcbs)
  BY <1>0, <1>1, <1>2, <1>8, AppendMembers, MemoryTypes DEF Resting, RunListInv
<1>13. RunListInv(r)
  BY <1>9, <1>12 DEF Resting, RunListInv
<1>14. CpuInv(r)
  BY <1>0, <1>1, <1>6, <1>8, <1>9 DEF Resting, CpuInv
<1>15. Free(r) /\ Answers(s, r) /\ r.current_tcb = s.current_tcb
  <2>1. Free(r) /\ r.current_tcb = s.current_tcb
    <3>1. \A x \in Threads : r.server[x] # t
      BY <1>0, <1>1, <1>9
    <3>2. r.current_tcb = t
      BY <1>8
    <3> QED BY <1>6, <3>1, <3>2 DEF Free
  <2>2. Answers(s, r)
    BY <1>0, <1>1, <1>6, <1>9 DEF Answers
  <2> QED BY <2>1, <2>2
<1> QED BY <1>3, <1>11, <1>13, <1>14, <1>15 DEF Resting

(* endpoint.c invoke_reply_recv. *)
LEMMA ReplyRecvLeaves ==
  ASSUME NEW s, Resting(s), s.current_tcb \in Threads, ~Free(s), NEW e \in Endpoints
  PROVE  LET r == invoke_reply_recv(s, e)
         IN  Leaving(r) /\ Answers(s, r)
<1> DEFINE m == invoke_reply(s)
<1>1. /\ Resting(m) /\ Free(m) /\ Answers(s, m) /\ m.current_tcb = s.current_tcb
  BY ReplyRests
<1> HIDE DEF m
<1>2. invoke_reply_recv(s, e) = invoke_endpoint_recv(m, e)
  BY <1>1 DEF invoke_reply_recv, m, Resting, ObjectsInv
<1>3. LET r == invoke_endpoint_recv(m, e) IN Leaving(r) /\ Asleep(m, r)
  BY <1>1, RecvLeaves
<1> QED BY <1>1, <1>2, <1>3 DEF Asleep, Answers

-----------------------------------------------------------------------------
(* Notifications. *)

(* r is s with x taken off its queue and words consumed. *)
Releases(s, r, x) ==
  /\ Unlinked(s, r, x)
  /\ \A n \in Notifications : r.word[n] \in {s.word[n], {}}
  /\ r.state = s.state
  /\ r.server = s.server
  /\ r.reply_to = s.reply_to
  /\ r.expects_reply = s.expects_reply
  /\ r.bound_tcb = s.bound_tcb
  /\ r.bound_notification = s.bound_notification
  /\ r.run_node = s.run_node
  /\ r.runnable_tcbs = s.runnable_tcbs
  /\ r.current_tcb = s.current_tcb
  /\ r.return_to_tcb = s.return_to_tcb
  /\ r.panic = s.panic

(* notification.c signal_waiting_receiver: the receiver is switched to.    *)
(* The CPU may have been idle: an interrupt signals as well.               *)
LEMMA SignalWaitingLeaves ==
  ASSUME NEW s, Resting(s), NEW x \in Threads, s.state[x] = "RECEIVING",
         NEW m \in KernelMemory, Releases(s, m, x), NEW badge \in Badges
  PROVE  LET r == signal_waiting_receiver(m, x, badge)
         IN  Leaving(r) /\ Asleep(s, r)
<1> DEFINE v == [m EXCEPT !.sender_badge[x] = badge]
           r == switch_tcb(v, x)
<1>0. s \in KernelMemory /\ s.run_node[x] /\ s.server[x] = Null /\ x # s.current_tcb
  BY DEF Resting, ObjectsInv, NodesInv, CallsInv, CpuInv
<1>1. v \in KernelMemory /\ r \in KernelMemory
  <2>1. v \in KernelMemory
    BY DEF KernelMemory
  <2> QED BY <2>1, SwitchTcbType
<1>2. /\ v.list = m.list /\ v.state = m.state /\ v.expects_reply = m.expects_reply
      /\ v.reply_to = m.reply_to /\ v.server = m.server /\ v.word = m.word
      /\ v.bound_tcb = m.bound_tcb /\ v.bound_notification = m.bound_notification
      /\ v.run_node = m.run_node /\ v.runnable_tcbs = m.runnable_tcbs
      /\ v.current_tcb = m.current_tcb /\ v.return_to_tcb = m.return_to_tcb
      /\ v.panic = m.panic
  BY DEF KernelMemory
<1>3. signal_waiting_receiver(m, x, badge) = r
  BY DEF signal_waiting_receiver
<1> HIDE DEF v
<1>4. /\ r.list = v.list /\ r.expects_reply = v.expects_reply
      /\ r.reply_to = v.reply_to /\ r.server = v.server /\ r.word = v.word
      /\ r.bound_tcb = v.bound_tcb /\ r.bound_notification = v.bound_notification
      /\ r.run_node = v.run_node /\ r.panic = v.panic
      /\ r.state = [v.state EXCEPT ![x] = "RUNNABLE"]
  BY <1>1 DEF switch_tcb, KernelMemory
<1>5. Chosen(r)
  <2>1. Choosing(s)
    BY NoChoice
  <2>2. Choosing(v)
    BY <1>2, <2>1 DEF Choosing, RunListInv, Releases
  <2>3. v.state[x] # "RUNNABLE" /\ v.run_node[x] /\ x # v.current_tcb
    BY <1>0, <1>2 DEF Releases
  <2> QED BY <1>1, <2>2, <2>3, SwitchChooses
<1> HIDE DEF r
<1>6. r.state = [s.state EXCEPT ![x] = "RUNNABLE"]
  BY <1>2, <1>4 DEF Releases
<1>7. s.server = [s.server EXCEPT ![x] = Null]
  BY <1>0 DEF KernelMemory
<1>8. Wakes(s, r, x)
  <2>1. Unlinked(s, r, x)
    BY <1>2, <1>4 DEF Releases, Unlinked
  <2> QED BY <1>2, <1>4, <1>6, <1>7, <2>1 DEF Wakes, Releases
<1>9. ObjectsInv(r)
  BY <1>1, <1>8, WakingKeeps DEF Resting
<1>10. Asleep(s, r)
  BY <1>0, <1>6, MemoryTypes DEF Asleep
<1> QED BY <1>3, <1>5, <1>9, <1>10 DEF Leaving

(* notification.c notification_signal: the first waiter, or else the bound *)
(* thread out of whatever it receives on, or else the word.                *)
LEMMA SignalLeaves ==
  ASSUME NEW s, Resting(s), NEW n \in Notifications, NEW badge \in Badges
  PROVE  LET r == notification_signal(s, n, badge)
         IN  Leaving(r) /\ Asleep(s, r)
<1> DEFINE pending == s.word[n] \cup badge
           bound == s.bound_tcb[n]
           cleared == [s EXCEPT !.word[n] = {}]
           first == Head(s.list[n])
<1>0. /\ s \in KernelMemory /\ ObjectsInv(s) /\ n \in Queues
      /\ pending \in Badges /\ {} \in Badges
  BY DEF Resting, ObjectsInv, KernelMemory, Badges, Queues
<1>1. /\ cleared \in KernelMemory
      /\ cleared.word = [s.word EXCEPT ![n] = {}]
      /\ cleared.list = s.list /\ cleared.state = s.state
      /\ cleared.server = s.server /\ cleared.reply_to = s.reply_to
      /\ cleared.expects_reply = s.expects_reply
      /\ cleared.bound_tcb = s.bound_tcb
      /\ cleared.bound_notification = s.bound_notification
      /\ cleared.run_node = s.run_node /\ cleared.runnable_tcbs = s.runnable_tcbs
      /\ cleared.current_tcb = s.current_tcb
      /\ cleared.return_to_tcb = s.return_to_tcb /\ cleared.panic = s.panic
  BY <1>0 DEF KernelMemory
<1>2. \A p \in Notifications : cleared.word[p] \in {s.word[p], {}}
  BY <1>0, <1>1 DEF KernelMemory
<1> HIDE DEF cleared
<1>3. CASE s.list[n] # <<>>
  <2> DEFINE q == remove_from_list(s.list[n], first)
             m == [cleared EXCEPT !.list[n] = q]
  <2>1. first \in Threads /\ OnList(s.list[n], first)
    BY <1>0, <1>3, FirstQueued
  <2>2. s.state[first] = "RECEIVING"
    BY <1>0, <2>1 DEF ObjectsInv, DirectionInv
  <2>3. /\ s.list[n] \in Seq(Threads) /\ NoDuplicates(s.list[n])
        /\ s.list \in [Queues -> Seq(Threads)]
    BY <1>0, MemoryTypes DEF ObjectsInv, QueuesInv
  <2> HIDE DEF first
  <2>4. /\ q \in Seq(Threads) /\ NoDuplicates(q)
        /\ \A y \in Threads : OnList(q, y) <=> OnList(s.list[n], y) /\ y # first
    BY <2>1, <2>3, RemoveMembers, RemoveType
  <2> HIDE DEF q
  <2>5. /\ m \in KernelMemory
        /\ m.list = [s.list EXCEPT ![n] = q]
        /\ m.word = cleared.word /\ m.state = s.state
        /\ m.server = s.server /\ m.reply_to = s.reply_to
        /\ m.expects_reply = s.expects_reply
        /\ m.bound_tcb = s.bound_tcb
        /\ m.bound_notification = s.bound_notification
        /\ m.run_node = s.run_node /\ m.runnable_tcbs = s.runnable_tcbs
        /\ m.current_tcb = s.current_tcb
        /\ m.return_to_tcb = s.return_to_tcb /\ m.panic = s.panic
    BY <1>0, <1>1, <2>4 DEF KernelMemory
  <2>6. notification_signal(s, n, badge) = signal_waiting_receiver(m, first, pending)
    BY <1>3 DEF notification_signal, m, q, first, cleared
  <2> HIDE DEF m
  <2>7. Unlinked(s, m, first)
    <3>1. \A o \in Queues : m.list[o] = IF o = n THEN q ELSE s.list[o]
      BY <2>3, <2>5
    <3>2. \A o \in Queues : o # n => ~OnList(s.list[o], first)
      BY <1>0, <2>1 DEF ObjectsInv, QueuesInv
    <3> QED BY <1>0, <2>4, <3>1, <3>2 DEF Unlinked, ObjectsInv, QueuesInv
  <2>8. Releases(s, m, first)
    BY <1>2, <2>5, <2>7 DEF Releases
  <2> QED BY <1>0, <2>1, <2>2, <2>5, <2>6, <2>8, SignalWaitingLeaves
<1>4. CASE s.list[n] = <<>> /\ bound # Null /\ s.state[bound] = "RECEIVING"
  <2> DEFINE q == [o \in Queues |-> remove_from_list(s.list[o], bound)]
             m == [cleared EXCEPT !.list = q]
  <2>1. bound \in Threads
    BY <1>0, <1>4 DEF KernelMemory, ThreadOrNull
  <2>2. \A o \in Queues : s.list[o] \in Seq(Threads) /\ NoDuplicates(s.list[o])
    BY <1>0, MemoryTypes DEF ObjectsInv, QueuesInv
  <2> HIDE DEF bound
  <2>3. \A o \in Queues :
          /\ q[o] \in Seq(Threads) /\ NoDuplicates(q[o])
          /\ \A y \in Threads : OnList(q[o], y) <=> OnList(s.list[o], y) /\ y # bound
    BY <2>1, <2>2, RemoveMembers, RemoveType
  <2>4. q \in [Queues -> Seq(Threads)]
    BY <2>3
  <2>5. notification_signal(s, n, badge) = signal_waiting_receiver(m, bound, pending)
    <3>1. q = [o \in Queues |-> remove_from_list(cleared.list[o], bound)]
      BY <1>1
    <3> QED BY <1>4, <3>1
            DEF notification_signal, signal_bound_receiver_waiting_on_something_else,
                m, bound, cleared
  <2> HIDE DEF q
  <2>6. /\ m \in KernelMemory
        /\ m.list = q
        /\ m.word = cleared.word /\ m.state = s.state
        /\ m.server = s.server /\ m.reply_to = s.reply_to
        /\ m.expects_reply = s.expects_reply
        /\ m.bound_tcb = s.bound_tcb
        /\ m.bound_notification = s.bound_notification
        /\ m.run_node = s.run_node /\ m.runnable_tcbs = s.runnable_tcbs
        /\ m.current_tcb = s.current_tcb
        /\ m.return_to_tcb = s.return_to_tcb /\ m.panic = s.panic
    BY <1>0, <1>1, <2>4 DEF KernelMemory
  <2> HIDE DEF m
  <2>7. Releases(s, m, bound)
    BY <1>2, <2>3, <2>6 DEF Releases, Unlinked
  <2> QED BY <1>0, <1>4, <2>1, <2>5, <2>6, <2>7, SignalWaitingLeaves
<1>5. CASE s.list[n] = <<>> /\ ~(bound # Null /\ s.state[bound] = "RECEIVING")
  <2> DEFINE r == [s EXCEPT !.word[n] = pending]
  <2>1. notification_signal(s, n, badge) = r
    BY <1>5 DEF notification_signal
  <2>2. /\ r \in KernelMemory
        /\ r.word = [s.word EXCEPT ![n] = pending]
        /\ r.list = s.list /\ r.state = s.state
        /\ r.server = s.server /\ r.reply_to = s.reply_to
        /\ r.expects_reply = s.expects_reply
        /\ r.bound_tcb = s.bound_tcb
        /\ r.bound_notification = s.bound_notification
        /\ r.run_node = s.run_node /\ r.runnable_tcbs = s.runnable_tcbs
        /\ r.current_tcb = s.current_tcb
        /\ r.return_to_tcb = s.return_to_tcb /\ r.panic = s.panic
    BY <1>0 DEF KernelMemory
  <2> HIDE DEF r, pending
  <2>3. \A p \in Notifications : r.word[p] = IF p = n THEN pending ELSE s.word[p]
    BY <1>0, <2>2 DEF KernelMemory
  <2>4. WordsInv(r)
    BY <1>0, <1>5, <2>2, <2>3 DEF ObjectsInv, WordsInv
  <2>5. QueuesInv(r) /\ DirectionInv(r)
    BY <1>0, <2>2 DEF ObjectsInv, QueuesInv, DirectionInv, Queued
  <2>6. CallsInv(r) /\ ExpectsInv(r) /\ NodesInv(r)
    BY <1>0, <2>2 DEF ObjectsInv, CallsInv, ExpectsInv, NodesInv
  <2>7. RunListInv(r) /\ CpuInv(r) /\ Asleep(s, r)
    BY <2>2 DEF Resting, RunListInv, CpuInv, Asleep
  <2>8. Resting(r)
    BY <1>0, <2>2, <2>4, <2>5, <2>6, <2>7 DEF Resting, ObjectsInv
  <2> QED BY <2>1, <2>7, <2>8, NoChoice
<1> QED BY <1>3, <1>4, <1>5

(* notification.c invoke_notification_recv, for the thread that may wait. *)
LEMMA WaitLeaves ==
  ASSUME NEW s, Resting(s), s.current_tcb \in Threads, Free(s), NEW n \in Notifications,
         s.bound_tcb[n] \in {Null, s.current_tcb},
         s.bound_notification[s.current_tcb] \in {Null, n}
  PROVE  LET r == invoke_notification_recv(s, n)
         IN  Leaving(r) /\ Asleep(s, r)
<1>0. s \in KernelMemory /\ n \in Queues /\ n \notin Endpoints
  BY ObjectsAssumption DEF Resting, ObjectsInv, Queues
<1>1. CASE s.word[n] = {}
  <2>1. \A p \in Notifications : s.bound_tcb[p] = s.current_tcb => s.word[p] = {}
    <3>1. s.current_tcb # Null /\ \A p \in Notifications : p # Null
      BY ObjectsAssumption
    <3> QED BY <1>1, <3>1 DEF Resting, ObjectsInv, WordsInv
  <2>2. LET b == [s EXCEPT !.list[n] = append_to_list(s.list[n], s.current_tcb),
                           !.state[s.current_tcb] = "RECEIVING"]
        IN  ~Queued(s, s.current_tcb) /\ Leaving(schedule(b)) /\ Asleep(s, schedule(b))
    BY <1>0, <1>1, <2>1, QueueReceiverLeaves
  <2> QED BY <1>1, <2>2 DEF invoke_notification_recv, queue_receiver_on_notification
<1>2. CASE s.word[n] # {}
  <2> DEFINE r == [s EXCEPT !.word[n] = {}]
  <2>1. invoke_notification_recv(s, n) = r
    BY <1>2 DEF invoke_notification_recv
  <2>2. /\ r \in KernelMemory
        /\ r.word = [s.word EXCEPT ![n] = {}]
        /\ r.list = s.list /\ r.server = s.server /\ r.reply_to = s.reply_to
        /\ r.expects_reply = s.expects_reply /\ r.bound_tcb = s.bound_tcb
        /\ r.bound_notification = s.bound_notification /\ r.state = s.state
        /\ r.run_node = s.run_node /\ r.runnable_tcbs = s.runnable_tcbs
        /\ r.current_tcb = s.current_tcb /\ r.return_to_tcb = s.return_to_tcb
        /\ r.panic = s.panic
    <3>1. {} \in Badges
      BY DEF Badges
    <3> QED BY <1>0, <3>1 DEF KernelMemory
  <2> HIDE DEF r
  <2>3. Resting(r) /\ Asleep(s, r)
    BY <2>2, TakingWordRests
  <2> QED BY <2>1, <2>3, NoChoice
<1> QED BY <1>1, <1>2

-----------------------------------------------------------------------------
(* Threads. *)

(* syscall.c sys_exit, tcb.c kill_tcb and schedule: the current thread is  *)
(* on no list, so destroying it asserts nothing.                           *)
LEMMA ExitLeaves ==
  ASSUME NEW s, Resting(s), s.current_tcb \in Threads
  PROVE  LET r == schedule(kill_tcb(s, s.current_tcb))
         IN  Leaving(r) /\ Asleep(s, r)
<1> DEFINE t == s.current_tcb
           b == [s EXCEPT !.state[t] = "DEAD"]
<1>0. /\ s \in KernelMemory /\ s.state[t] = "RUNNING" /\ s.run_node[t]
      /\ ~OnList(s.runnable_tcbs, t)
  BY CurrentIsFree
<1>1. kill_tcb(s, t) = b
  BY <1>0 DEF kill_tcb
<1>2. /\ b \in KernelMemory /\ SameObjects(s, b) /\ b.panic = s.panic
      /\ b.run_node = s.run_node /\ b.runnable_tcbs = s.runnable_tcbs
      /\ b.current_tcb = t /\ b.return_to_tcb = s.return_to_tcb
      /\ b.state = [s.state EXCEPT ![t] = "DEAD"]
  BY <1>0 DEF KernelMemory, TaskStates, SameObjects
<1> HIDE DEF b
<1>3. \A x \in Threads : b.state[x] = IF x = t THEN "DEAD" ELSE s.state[x]
  BY <1>0, <1>2, MemoryTypes
<1>4. ObjectsInv(b)
  <2>1. NodesInv(b)
    BY <1>0, <1>2, <1>3 DEF NodesInv, Resting, ObjectsInv
  <2>2. \A x \in Threads :
          b.state[x] = s.state[x] \/ {s.state[x], b.state[x]} \subseteq Unblocked
    BY <1>0, <1>3 DEF Unblocked, Awake
  <2>3. b.panic = NoPanic
    BY <1>2 DEF Resting, ObjectsInv
  <2> QED BY <1>2, <2>1, <2>2, <2>3, UnblockedKeepsObjects DEF Resting
<1>5. Choosing(b) /\ Asleep(s, b)
  BY <1>0, <1>2, <1>3, ObjectsAssumption
     DEF Choosing, Asleep, Resting, RunListInv, CpuInv
<1>6. Leaving(schedule(b)) /\ Asleep(b, schedule(b))
  BY <1>4, <1>5, ScheduleChooses
<1> QED BY <1>1, <1>5, <1>6 DEF Asleep

(* syscall.c sys_yield. *)
LEMMA YieldLeaves ==
  ASSUME NEW s, Resting(s)
  PROVE  Leaving(schedule(s)) /\ Asleep(s, schedule(s))
BY ScheduleChooses, NoChoice DEF Resting

(* tcb.c tcb_resume, of a thread that waits neither in a queue nor for the *)
(* CPU.                                                                    *)
LEMMA ResumeRests ==
  ASSUME NEW s, Resting(s), s.current_tcb \in Threads,
         NEW t \in Threads, t # s.current_tcb, ~OnList(s.runnable_tcbs, t),
         s.state[t] \in {"RUNNABLE", "SUSPENDED"}
  PROVE  LET r == tcb_resume(s, t) IN Resting(r) /\ Asleep(s, r)
<1> DEFINE r == schedule_tcb(s, t)
<1>0. s \in KernelMemory
  BY DEF Resting, ObjectsInv
<1>1. /\ r \in KernelMemory
      /\ SameObjects(s, r) /\ r.panic = s.panic
      /\ r.current_tcb = s.current_tcb /\ r.return_to_tcb = s.return_to_tcb
      /\ r.runnable_tcbs = append_to_list(s.runnable_tcbs, t)
      /\ r.run_node = [s.run_node EXCEPT ![t] = TRUE]
      /\ r.state = [s.state EXCEPT ![t] = "RUNNABLE"]
  BY <1>0, ScheduleTcbEffect
<1> HIDE DEF r
<1>2. \A x \in Threads :
        /\ r.state[x] = IF x = t THEN "RUNNABLE" ELSE s.state[x]
        /\ r.run_node[x] = IF x = t THEN TRUE ELSE s.run_node[x]
  <2>1. s.state \in [Threads -> TaskStates] /\ s.run_node \in [Threads -> BOOLEAN]
    BY <1>0, MemoryTypes
  <2> QED BY <1>1, <2>1
<1>3. /\ \A x \in Threads : OnList(r.runnable_tcbs, x)
                              <=> x = t \/ OnList(s.runnable_tcbs, x)
      /\ NoDuplicates(r.runnable_tcbs)
  BY <1>0, <1>1, AppendMembers, MemoryTypes DEF Resting, RunListInv
<1>4. ObjectsInv(r)
  <2>1. NodesInv(r)
    BY <1>2 DEF NodesInv, Resting, ObjectsInv
  <2>2. \A x \in Threads :
          r.state[x] = s.state[x] \/ {s.state[x], r.state[x]} \subseteq Unblocked
    BY <1>2 DEF Unblocked, Awake
  <2>3. r.panic = NoPanic
    BY <1>1 DEF Resting, ObjectsInv
  <2> QED BY <1>1, <2>1, <2>2, <2>3, UnblockedKeepsObjects DEF Resting
<1>5. RunListInv(r)
  BY <1>2, <1>3 DEF Resting, RunListInv
<1>6. CpuInv(r)
  BY <1>1, <1>2, ObjectsAssumption DEF Resting, CpuInv
<1>7. Asleep(s, r)
  BY <1>2 DEF Asleep
<1> QED BY <1>4, <1>5, <1>6, <1>7 DEF Resting, tcb_resume, r

(* tcb.c tcb_suspend, of a thread on the run list. *)
LEMMA SuspendRests ==
  ASSUME NEW s, Resting(s), s.current_tcb \in Threads,
         NEW t \in Threads, OnList(s.runnable_tcbs, t)
  PROVE  LET r == tcb_suspend(s, t) IN Resting(r) /\ Asleep(s, r)
<1> DEFINE q == remove_from_list(s.runnable_tcbs, t)
           r == [s EXCEPT !.state[t] = "SUSPENDED", !.runnable_tcbs = q]
<1>0. s \in KernelMemory /\ s.state[t] = "RUNNABLE" /\ s.run_node[t]
  BY DEF Resting, ObjectsInv, RunListInv
<1>1. tcb_suspend(s, t) = r
  BY <1>0 DEF tcb_suspend, suspend_tcb
<1>2. /\ q \in Seq(Threads) /\ NoDuplicates(q)
      /\ \A x \in Threads : OnList(q, x) <=> OnList(s.runnable_tcbs, x) /\ x # t
  BY <1>0, RemoveMembers, RemoveType, MemoryTypes DEF Resting, RunListInv
<1> HIDE DEF q
<1>3. /\ r \in KernelMemory /\ SameObjects(s, r) /\ r.panic = s.panic
      /\ r.run_node = s.run_node /\ r.runnable_tcbs = q
      /\ r.current_tcb = s.current_tcb /\ r.return_to_tcb = s.return_to_tcb
      /\ r.state = [s.state EXCEPT ![t] = "SUSPENDED"]
  BY <1>0, <1>2 DEF KernelMemory, TaskStates, SameObjects
<1> HIDE DEF r
<1>4. \A x \in Threads : r.state[x] = IF x = t THEN "SUSPENDED" ELSE s.state[x]
  BY <1>0, <1>3, MemoryTypes
<1>5. ObjectsInv(r)
  <2>1. NodesInv(r)
    BY <1>0, <1>3, <1>4 DEF NodesInv, Resting, ObjectsInv
  <2>2. \A x \in Threads :
          r.state[x] = s.state[x] \/ {s.state[x], r.state[x]} \subseteq Unblocked
    BY <1>0, <1>4 DEF Unblocked, Awake
  <2>3. r.panic = NoPanic
    BY <1>3 DEF Resting, ObjectsInv
  <2> QED BY <1>3, <2>1, <2>2, <2>3, UnblockedKeepsObjects DEF Resting
<1>6. RunListInv(r)
  BY <1>2, <1>3, <1>4 DEF Resting, RunListInv
<1>7. CpuInv(r)
  BY <1>0, <1>3, <1>4, ObjectsAssumption DEF Resting, CpuInv
<1>8. Asleep(s, r)
  BY <1>0, <1>4 DEF Asleep
<1> QED BY <1>1, <1>5, <1>6, <1>7, <1>8 DEF Resting

(* tcb.c tcb_bind_notification, of a thread that may be bound. *)
LEMMA BindRests ==
  ASSUME NEW s, Resting(s), NEW t \in Threads, NEW n \in Notifications,
         s.bound_notification[t] = Null,
         s.word[n] # {} => s.state[t] # "RECEIVING"
  PROVE  LET r == tcb_bind_notification(s, t, n) IN Resting(r) /\ Asleep(s, r)
<1>0. s \in KernelMemory
  BY DEF Resting, ObjectsInv
<1>1. CASE s.bound_tcb[n] # Null
  BY <1>1 DEF tcb_bind_notification, Asleep
<1>2. CASE s.bound_tcb[n] = Null
  <2> DEFINE r == [s EXCEPT !.bound_notification[t] = n, !.bound_tcb[n] = t]
  <2>1. tcb_bind_notification(s, t, n) = r
    BY <1>2 DEF tcb_bind_notification
  <2>2. /\ r \in KernelMemory
        /\ r.bound_notification = [s.bound_notification EXCEPT ![t] = n]
        /\ r.bound_tcb = [s.bound_tcb EXCEPT ![n] = t]
        /\ r.word = s.word /\ r.list = s.list /\ r.server = s.server
        /\ r.reply_to = s.reply_to /\ r.expects_reply = s.expects_reply
        /\ r.state = s.state /\ r.run_node = s.run_node
        /\ r.runnable_tcbs = s.runnable_tcbs /\ r.current_tcb = s.current_tcb
        /\ r.return_to_tcb = s.return_to_tcb /\ r.panic = s.panic
    BY <1>0 DEF KernelMemory, ThreadOrNull
  <2> HIDE DEF r
  <2>3. /\ \A p \in Notifications : r.bound_tcb[p] = IF p = n THEN t ELSE s.bound_tcb[p]
        /\ \A x \in Threads : r.bound_notification[x] =
                                IF x = t THEN n ELSE s.bound_notification[x]
    BY <1>0, <2>2 DEF KernelMemory
  <2>4. WordsInv(r)
    <3>1. \A p \in Notifications : p # Null
      BY ObjectsAssumption
    <3>2. \A p \in Notifications : s.bound_tcb[p] # Null => s.bound_tcb[p] \in Threads
      BY <1>0 DEF KernelMemory, ThreadOrNull
    <3> QED BY <2>2, <2>3, <3>1, <3>2 DEF Resting, ObjectsInv, WordsInv
  <2>5. QueuesInv(r) /\ DirectionInv(r)
    BY <2>2 DEF Resting, ObjectsInv, QueuesInv, DirectionInv, Queued
  <2>6. CallsInv(r) /\ ExpectsInv(r) /\ NodesInv(r)
    BY <2>2 DEF Resting, ObjectsInv, CallsInv, ExpectsInv, NodesInv
  <2>7. RunListInv(r) /\ CpuInv(r) /\ Asleep(s, r)
    BY <2>2 DEF Resting, RunListInv, CpuInv, Asleep
  <2> QED BY <2>1, <2>2, <2>4, <2>5, <2>6, <2>7 DEF Resting, ObjectsInv
<1> QED BY <1>1, <1>2

-----------------------------------------------------------------------------
(* The system. *)

(* entry.c: every way out of the kernel ends in return_from_kernel_code. *)
LEMMA LeaveRests ==
  ASSUME NEW s, Leaving(s), Answers(k, s), Leave(s)
  PROVE  Resting(k') /\ Answers(k, k')
<1> DEFINE r == return_from_kernel_code(s)
<1>1. Resting(r) /\ Asleep(s, r)
  BY ReturnRests
<1>2. s.panic = NoPanic /\ r.panic = NoPanic
  BY <1>1 DEF Leaving, Resting, ObjectsInv
<1>3. k' = r
  BY <1>2 DEF Leave
<1> HIDE DEF r
<1> QED BY <1>1, <1>3 DEF Asleep, Answers

(* Most system calls wake no caller at all. *)
LEMMA AsleepAnswers ==
  ASSUME NEW s, NEW r, Asleep(s, r)
  PROVE  Answers(s, r)
BY DEF Asleep, Answers

(* A system call whose effect is known, and the way out. *)
LEMMA SyscallRests ==
  ASSUME NEW s, Syscall(s),
         \/ Leaving(s) /\ (Asleep(k, s) \/ Answers(k, s))
         \/ Resting(s) /\ (Asleep(k, s) \/ Answers(k, s))
  PROVE  Resting(k') /\ Answers(k, k')
<1>1. Leaving(s) /\ Answers(k, s) /\ Leave(s)
  BY NoChoice, AsleepAnswers DEF Syscall
<1> QED BY <1>1, LeaveRests

(* A server that owes nothing took nobody's call. *)
LEMMA OwesNothingIsFree ==
  ASSUME Resting(k), InUserMode
  PROVE  /\ k.current_tcb \in Threads
         /\ OwesNothing <=> Free(k)
<1>1. k.current_tcb \in Threads
  BY DEF Resting, ObjectsInv, KernelMemory, ThreadOrNull, InUserMode, this_tcb
<1>2. \A c \in Threads : k.server[c] = k.current_tcb => k.state[c] = "CALLING"
  BY <1>1, ObjectsAssumption DEF Resting, ObjectsInv, CallsInv
<1> QED BY <1>1, <1>2 DEF OwesNothing, Owes, Free, this_tcb

(* One step of the system, one case per action. *)
LEMMA ClientStep ==
  ASSUME TypeOK, Resting(k), [ClientNext]_vars
  PROVE  Resting(k') /\ (UNCHANGED k \/ Answers(k, k'))
<1>0. ASSUME InUserMode
      PROVE  /\ k.current_tcb \in Threads /\ this_tcb = k.current_tcb
             /\ OwesNothing <=> Free(k)
  BY <1>0, OwesNothingIsFree DEF this_tcb
<1>1. ASSUME NEW s, Syscall(s) PROVE InUserMode
  BY <1>1 DEF Syscall
<1>2. CASE SysExit
  BY <1>0, <1>1, <1>2, ExitLeaves, SyscallRests DEF SysExit
<1>3. CASE SysYield
  BY <1>0, <1>1, <1>3, YieldLeaves, SyscallRests DEF SysYield
<1>4. CASE OwesReply /\ SysReply
  BY <1>0, <1>1, <1>4, ReplyRests, SyscallRests DEF SysReply, OwesReply
<1>5. ASSUME NEW e \in Endpoints, NEW b \in Badges, OwesNothing, SysCall(e, b)
      PROVE  Resting(k') /\ Answers(k, k')
  BY <1>0, <1>1, <1>5, CallLeaves, SyscallRests DEF SysCall
<1>6. ASSUME NEW e \in Endpoints, NEW b \in Badges, SysSend(e, b)
      PROVE  Resting(k') /\ Answers(k, k')
  BY <1>0, <1>1, <1>6, SendLeaves, SyscallRests DEF SysSend
<1>7. ASSUME NEW e \in Endpoints, OwesNothing, SysRecv(e)
      PROVE  Resting(k') /\ Answers(k, k')
  BY <1>0, <1>1, <1>7, RecvLeaves, SyscallRests DEF SysRecv
<1>8. ASSUME NEW e \in Endpoints, OwesNothing, SysNbrecv(e)
      PROVE  Resting(k') /\ Answers(k, k')
  BY <1>0, <1>1, <1>8, RecvLeaves, SyscallRests DEF SysNbrecv
<1>9. ASSUME NEW e \in Endpoints, OwesReply, SysReplyRecv(e)
      PROVE  Resting(k') /\ Answers(k, k')
  BY <1>0, <1>1, <1>9, ReplyRecvLeaves, SyscallRests DEF SysReplyRecv, OwesReply
<1>10. ASSUME NEW n \in Notifications, NEW b \in Badges, SysSignal(n, b)
       PROVE  Resting(k') /\ Answers(k, k')
  BY <1>10, SignalLeaves, SyscallRests DEF SysSignal
<1>11. ASSUME NEW n \in Notifications, OwesNothing, MayWaitOn(n), SysWait(n)
       PROVE  Resting(k') /\ Answers(k, k')
  <2>1. /\ Free(k) /\ k.current_tcb \in Threads
        /\ k.bound_tcb[n] \in {Null, k.current_tcb}
        /\ k.bound_notification[k.current_tcb] \in {Null, n}
    BY <1>0, <1>1, <1>11 DEF SysWait, MayWaitOn
  <2> QED BY <1>11, <2>1, WaitLeaves, SyscallRests DEF SysWait
<1>12. ASSUME NEW t \in Threads, Inactive(t), TcbResume(t)
       PROVE  Resting(k') /\ Answers(k, k')
  <2>1. /\ k.current_tcb \in Threads /\ t # k.current_tcb
        /\ ~OnList(k.runnable_tcbs, t) /\ k.state[t] \in {"RUNNABLE", "SUSPENDED"}
    BY <1>0, <1>1, <1>12 DEF TcbResume, Inactive
  <2> QED BY <1>12, <2>1, ResumeRests, SyscallRests DEF TcbResume
<1>13. ASSUME NEW t \in Threads, OnList(k.runnable_tcbs, t), TcbSuspend(t)
       PROVE  Resting(k') /\ Answers(k, k')
  BY <1>0, <1>1, <1>13, SuspendRests, SyscallRests DEF TcbSuspend
<1>14. ASSUME NEW t \in Threads, NEW n \in Notifications, MayBind(t, n),
              TcbBindNotification(t, n)
       PROVE  Resting(k') /\ Answers(k, k')
  BY <1>14, BindRests, SyscallRests DEF TcbBindNotification, MayBind
<1>15. ASSUME NEW i \in Irqs,
              \/ IrqControlGet(i) \/ IrqHandlerClear(i) \/ IrqHandlerAck(i)
              \/ \E n \in Notifications, b \in Badges : IrqHandlerSetNotification(i, n, b)
       PROVE  Resting(k') /\ UNCHANGED k
  BY <1>15 DEF IrqControlGet, IrqHandlerClear, IrqHandlerAck, IrqHandlerSetNotification,
               IrqCall
<1>16. ASSUME NEW i \in Irqs, Interrupt(i)
       PROVE  Resting(k') /\ Answers(k, k')
  <2> DEFINE s == handle_irq_signal(k, irqs, i)
  <2>1. Leave(s)
    BY <1>16 DEF Interrupt
  <2>2. Leaving(s) /\ Asleep(k, s)
    <3>1. CASE Accepts(irqs, i)
      <4>1. irqs[i].n \in Notifications /\ irqs[i].badge \in Badges
        BY <3>1 DEF TypeOK, HandlerRecords, Accepts
      <4> QED BY <3>1, <4>1, SignalLeaves DEF handle_irq_signal
    <3>2. CASE ~Accepts(irqs, i)
      BY <3>2, NoChoice DEF handle_irq_signal, Asleep
    <3> QED BY <3>1, <3>2
  <2> HIDE DEF s
  <2> QED BY <2>1, <2>2, AsleepAnswers, LeaveRests
<1>17. CASE UNCHANGED vars
  BY <1>17 DEF vars
<1> QED
  BY <1>2, <1>3, <1>4, <1>5, <1>6, <1>7, <1>8, <1>9, <1>10, <1>11, <1>12, <1>13, <1>14,
     <1>15, <1>16, <1>17
  DEF ClientNext

(* boot.c: the CPU leaves the kernel for the first time with the boot      *)
(* thread, and every other TCB is zeroed memory.                           *)
LEMMA InitRests == Init => Resting(k)
<1> SUFFICES ASSUME NEW boot \in Threads, k = BootMemory(boot)
             PROVE  Resting(k)
  BY DEF Init
<1>1. boot # Null
  BY ObjectsAssumption
<1>2. k \in KernelMemory
  BY <1>1 DEF BootMemory, KernelMemory, TaskStates, ThreadOrNull, Badges, PanicReasons, NoPanic
<1>3. \A x : ~OnList(<<>>, x)
  BY DEF OnList
<1>4. NoDuplicates(<<>>)
  BY DEF NoDuplicates
<1>5. QueuesInv(k) /\ DirectionInv(k)
  BY <1>3, <1>4 DEF BootMemory, QueuesInv, DirectionInv, Queued, Queues
<1>6. CallsInv(k) /\ ExpectsInv(k) /\ NodesInv(k) /\ k.panic = NoPanic
  BY DEF BootMemory, CallsInv, ExpectsInv, NodesInv
<1>7. WordsInv(k)
  BY DEF BootMemory, WordsInv
<1>8. RunListInv(k) /\ CpuInv(k)
  BY <1>1, <1>3, <1>4 DEF BootMemory, RunListInv, CpuInv
<1> QED BY <1>2, <1>5, <1>6, <1>7, <1>8 DEF Resting, ObjectsInv

(* The inductive invariant of the kernel. *)
AtRest == Resting(k)

(* Between two entries to the kernel all its objects, its run list and its *)
(* CPU agree (endpoint.c, notification.c, tcb.c).                          *)
THEOREM KernelRests == ClientSpec => []AtRest
<1>1. Init => AtRest
  BY InitRests DEF AtRest
<1>2. TypeOK /\ AtRest /\ [ClientNext]_vars => AtRest'
  BY ClientStep DEF AtRest
<1> QED BY <1>1, <1>2, ClientTypeCorrect, PTL DEF ClientSpec

(* No entry to the kernel forgets a thread that waits for the CPU or links *)
(* one twice (tcb.c schedule, schedule_tcb, switch_tcb).                   *)
THEOREM RunListIsExact == ClientSpec => []RunListExact
<1>1. AtRest => RunListExact
  BY DEF AtRest, Resting, RunListInv, RunListExact
<1> QED BY <1>1, KernelRests, PTL

(* The thread the kernel chose is the one that runs, alone, and the CPU    *)
(* idles only when nobody waits for it (schedule, return_from_kernel_code).*)
THEOREM CpuIsConsistent == ClientSpec => []CpuConsistent
<1>1. AtRest => CpuConsistent
  BY DEF AtRest, Resting, CpuInv, CpuConsistent
<1> QED BY <1>1, KernelRests, PTL

(* A thread is linked in one queue, once, exactly while it is blocked on   *)
(* it (endpoint.c, notification.c).                                        *)
THEOREM QueuesAreExact == ClientSpec => []QueuesExact
<1>1. AtRest => QueuesExact
  <2> SUFFICES ASSUME AtRest PROVE QueuesExact
    OBVIOUS
  <2>1. \A t \in Threads : k.server[t] # Null => k.state[t] = "CALLING"
    BY DEF AtRest, Resting, ObjectsInv, CallsInv
  <2> QED BY <2>1 DEF AtRest, Resting, ObjectsInv, QueuesInv, QueuesExact, AwaitsReply
<1> QED BY <1>1, KernelRests, PTL

(* Looking at the first thread of a queue is enough: all the others are    *)
(* blocked in the same direction (recv_will_block, send_will_block).       *)
THEOREM QueuesAreHomogeneous == ClientSpec => []QueuesHomogeneous
<1>1. AtRest => QueuesHomogeneous
  <2> SUFFICES ASSUME AtRest PROVE QueuesHomogeneous
    OBVIOUS
  <2>1. \A o \in Queues : \A i \in 1..Len(k.list[o]) :
          k.list[o][i] \in Threads /\ OnList(k.list[o], k.list[o][i])
    <3>1. \A o \in Queues : k.list[o] \in Seq(Threads)
      BY MemoryTypes DEF AtRest, Resting, ObjectsInv
    <3> QED BY <3>1 DEF OnList
  <2>2. /\ \A e \in Endpoints : e \in Queues
        /\ \A n \in Notifications : n \in Queues
    BY DEF Queues
  <2>3. DirectionInv(k)
    BY DEF AtRest, Resting, ObjectsInv
  <2> QED BY <2>1, <2>2, <2>3 DEF DirectionInv, QueuesHomogeneous
<1> QED BY <1>1, KernelRests, PTL

(* A signal finds everyone it should wake (notification_signal,            *)
(* handle_recv_with_pending_notification).                                 *)
THEOREM NoWakeupIsLost == ClientSpec => []NoLostWakeup
<1>1. AtRest => NoLostWakeup
  BY DEF AtRest, Resting, ObjectsInv, WordsInv, NoLostWakeup
<1> QED BY <1>1, KernelRests, PTL

(* A server cannot lose the caller it has to answer (transfer_message,     *)
(* invoke_reply).                                                          *)
THEOREM CallersAreAnswerable == ClientSpec => []CallersAnswerable
<1>1. AtRest => CallersAnswerable
  BY DEF AtRest, Resting, ObjectsInv, CallsInv, CallersAnswerable, AwaitsReply
<1> QED BY <1>1, KernelRests, PTL

(* Threads that keep to the contract never make the kernel assert, trap,   *)
(* follow a null pointer or corrupt a list (tcb.c, list.h, endpoint.c).    *)
THEOREM KernelNeverPanics == ClientSpec => []NeverPanics
<1>1. AtRest => NeverPanics
  BY DEF AtRest, Resting, ObjectsInv, NeverPanics
<1> QED BY <1>1, KernelRests, PTL

(* An exited thread never runs or waits again (kill_tcb). *)
THEOREM TheDeadStayDead == ClientSpec => DeadStaysDead
<1>1. TypeOK /\ AtRest /\ [ClientNext]_vars =>
        [\A t \in Threads : k.state[t] = "DEAD" => k'.state[t] = "DEAD"]_vars
  BY ClientStep DEF AtRest, Answers
<1> QED BY <1>1, KernelRests, ClientTypeCorrect, PTL DEF ClientSpec, DeadStaysDead

(* A caller goes on only when the thread that took its call answers it     *)
(* (invoke_reply, transfer_message).                                       *)
THEOREM RepliesComeFromServers == ClientSpec => ReplyFromServer
<1>1. TypeOK /\ AtRest /\ [ClientNext]_vars =>
        [\A c \in Threads :
           k.state[c] = "CALLING" /\ k'.state[c] # "CALLING" =>
             k.server[c] # Null /\ k.server[c] = k.current_tcb]_vars
  BY ClientStep DEF AtRest, Answers
<1> QED BY <1>1, KernelRests, ClientTypeCorrect, PTL DEF ClientSpec, ReplyFromServer

=============================================================================
