---------------------------- MODULE SerialProofs ----------------------------
(***************************************************************************)
(* What the serial driver and its client do for every alphabet, greeting,  *)
(* buffer and number of bytes, up to a message longer than write_uart's    *)
(* copy: they keep the kernel's contract, and the line they serve is the   *)
(* byte stream of module ByteStream.                                       *)
(*                                                                         *)
(* The invariant SerialInv has four parts.  ModeInv: the kernel, with two  *)
(* threads on it, is in one of nine modes, and each mode tells where the   *)
(* programs are.  LineInv: the interrupt line is in service exactly while  *)
(* its word is pending or the driver serves it, and the UART's request is  *)
(* pending, still to be looked at, or missed.  FlowInv: every byte typed   *)
(* is in exactly one place on its way, and each place holds a window of    *)
(* the input.  SentInv: how much of the greeting has been sent.            *)
(*                                                                         *)
(* The proof goes from the kernel's functions (what a system call does in  *)
(* a mode) over the data (what a step does to the windows) to one lemma    *)
(* for each action, and from the invariant to the refinements.             *)
(***************************************************************************)
EXTENDS Serial, Integers, KernelProofs

(* The bytes of the line. *)
Chars == DOMAIN Capital

(* The kernel's memory when it is in nobody's way: what no step of the two *)
(* programs touches.                                                       *)
Quiet(s) ==
  /\ s \in KernelMemory /\ s.panic = NoPanic
  /\ s.return_to_tcb = s.current_tcb
  /\ \A o \in Queues \ {endpoint, read_ntfn} : s.list[o] = <<>>
  /\ \A n \in Notifications \ {irq_ntfn} : s.word[n] = {} /\ s.bound_tcb[n] = Null
  /\ s.bound_notification[client] = Null
  /\ s.endpoint_badge[client] = {}
  /\ ~s.expects_reply[driver] /\ s.server[driver] = Null

(* Who runs, and the states of the two threads. *)
Mode(s, current, driver_state, client_state) ==
  /\ s.current_tcb = current
  /\ s.state[driver] = driver_state /\ s.state[client] = client_state

(* The run list and the two queues the programs use. *)
Linked(s, run, at_endpoint, at_ntfn) ==
  /\ s.runnable_tcbs = run
  /\ s.list[endpoint] = at_endpoint /\ s.list[read_ntfn] = at_ntfn

(* The nine modes.  The driver is not started yet. *)
Booting(s) == /\ Mode(s, client, "RUNNABLE", "RUNNING")
              /\ Linked(s, <<>>, <<>>, <<>>) /\ s.server[client] = Null

(* The client runs, the driver waits for the CPU. *)
ClientFirst(s) == /\ Mode(s, client, "RUNNABLE", "RUNNING")
                  /\ Linked(s, <<driver>>, <<>>, <<>>) /\ s.server[client] = Null

(* The client runs, the driver waits for a message. *)
ClientRuns(s) == /\ Mode(s, client, "RECEIVING", "RUNNING")
                 /\ Linked(s, <<>>, <<driver>>, <<>>) /\ s.server[client] = Null

(* The driver runs, the client has a message for it. *)
Sending(s) == /\ Mode(s, driver, "RUNNING", "SENDING")
              /\ Linked(s, <<>>, <<client>>, <<>>) /\ s.server[client] = Null
              /\ ~s.expects_reply[client]

(* The driver runs, the client has a call for it. *)
Calling(s) == /\ Mode(s, driver, "RUNNING", "CALLING")
              /\ Linked(s, <<>>, <<client>>, <<>>) /\ s.server[client] = Null
              /\ s.expects_reply[client]

(* The driver runs, and owes the client an answer. *)
Serving(s) == /\ Mode(s, driver, "RUNNING", "CALLING")
              /\ Linked(s, <<>>, <<>>, <<>>) /\ s.server[client] = driver
              /\ s.reply_to[driver] = client

(* The driver runs, the client waits for a signal. *)
Waiting(s) == /\ Mode(s, driver, "RUNNING", "RECEIVING")
              /\ Linked(s, <<>>, <<>>, <<client>>) /\ s.server[client] = Null

(* The driver runs, the client waits for the CPU. *)
Ready(s) == /\ Mode(s, driver, "RUNNING", "RUNNABLE")
            /\ Linked(s, <<client>>, <<>>, <<>>) /\ s.server[client] = Null

(* Nobody runs: the driver waits for a message, the client for a signal. *)
Idle(s) == /\ Mode(s, Null, "RECEIVING", "RECEIVING")
           /\ Linked(s, <<>>, <<driver>>, <<client>>) /\ s.server[client] = Null

-----------------------------------------------------------------------------
(* Where the driver starts, where it serves an interrupt, and all places. *)
Setup == {"uart", "attach", "bind"}
Loop == {"outer", "inner", "data", "signal", "ack"}
Places == Setup \cup Loop \cup {"recv", "dispatch", "write"}
            \cup {"issue", "spawn", "print", "read", "answer"}
(* What a message register can hold. *)
Labels == {"none", "port", WRITE, READ, "WOULD_BLOCK", "data"}
Registers == Chars \cup {"UART_INT_ENABLE", "ready", "empty"}

(* The types of the programs and the UART. *)
SerialTypeOK ==
  /\ TypeOK
  /\ mr \in [Threads -> [label: Labels, regs: Seq(Registers)]]
  /\ pc \in [Threads -> Places]
  /\ buffer \in Seq(Chars) /\ local \in Seq(Chars) /\ fifo \in Seq(Chars)
  /\ typed \in Seq(Chars) /\ output \in Seq(Chars)
  /\ sent \in Nat /\ {timeout, edge, missed} \subseteq BOOLEAN

(* The driver runs, and is not about to look at a message. *)
DriverBusy == pc[driver] \in Setup \cup Loop \cup {"recv"} \/ (pc[driver] = "dispatch" /\ IsIrq)

(* The driver is about to look at the message it received. *)
HasMessage(label) == pc[driver] = "dispatch" /\ ~IsIrq /\ mr[driver].label = label

(* The client is about to send or to ask. *)
Reading == pc[client] \in {"print", "read"}

(* The answer of read_uart, in the client's IPC buffer. *)
Answered ==
  pc[client] = "answer" =>
    \/ mr[client].label = "WOULD_BLOCK"
    \/ mr[client].label = "data" /\ mr[client].regs # <<>>

(* The modes and the places of the programs in them. *)
ModeInv ==
  \/ Booting(k) /\ pc[driver] = "uart" /\ pc[client] \in {"issue", "spawn"}
  \/ ClientFirst(k) /\ pc[driver] \in {"uart", "outer"} /\ Reading
  \/ ClientRuns(k) /\ pc[driver] = "dispatch" /\ (Reading \/ pc[client] = "answer") /\ Answered
  \/ /\ Sending(k) /\ DriverBusy /\ Reading
     /\ mr[client].label = WRITE /\ mr[client].regs # <<>>
  \/ Calling(k) /\ DriverBusy /\ pc[client] = "answer" /\ mr[client].label = READ
  \/ Serving(k) /\ HasMessage(READ) /\ pc[client] = "answer"
  \/ Waiting(k) /\ DriverBusy /\ pc[client] = "read"
  \/ Ready(k) /\ DriverBusy /\ (Reading \/ pc[client] = "answer") /\ Answered
  \/ Ready(k) /\ HasMessage(WRITE) /\ Reading /\ mr[driver].regs # <<>>
  \/ Ready(k) /\ pc[driver] = "write" /\ Reading /\ local # <<>>
  \/ Idle(k) /\ pc[driver] = "dispatch" /\ pc[client] = "read"

(* The driver serves the interrupt. *)
Served == \/ pc[driver] \in Loop
          \/ pc[driver] = "dispatch" /\ k.state[driver] # "RECEIVING" /\ IsIrq

(* The line: bound and attached as far as the driver has come; in service  *)
(* while the interrupt is pending in the word or the driver serves it, and *)
(* masked just as long; and the UART's request is pending at the CPU, or   *)
(* will be seen by a look at the line status still to come, or was missed. *)
LineInv ==
  /\ pc[driver] \in Setup <=> k.bound_notification[driver] = Null
  /\ k.bound_tcb[irq_ntfn] = IF pc[driver] \in Setup THEN Null ELSE driver
  /\ k.bound_notification[driver] \in {Null, irq_ntfn}
  /\ irqs[irq].issued <=> pc[client] # "issue"
  /\ IF pc[driver] \in {"uart", "attach"}
       THEN /\ irqs[irq].n = Null /\ ~irqs[irq].in_service
            /\ k.word[irq_ntfn] = {} /\ ~edge /\ fifo = <<>> /\ ~timeout
       ELSE /\ irqs[irq].n = irq_ntfn /\ irqs[irq].badge = irq_badge
            /\ irqs[irq].masked <=> irqs[irq].in_service
            /\ irqs[irq].in_service <=> k.word[irq_ntfn] # {} \/ Served
            /\ k.word[irq_ntfn] \in {{}, irq_badge}
            /\ k.word[irq_ntfn] # {} => ~Served /\ k.state[driver] # "RECEIVING"
            /\ Request => edge \/ missed \/ (irqs[irq].in_service /\ pc[driver] # "ack")
            /\ timeout => fifo # <<>>
            /\ edge => ~irqs[irq].masked
            /\ pc[driver] = "data" => fifo # <<>>

(* The bytes of q are those of f after the first m. *)
Window(q, f, m) == \A i \in 1..Len(q) : q[i] = f[m + i]

(* The bytes on their way to the UART: in the message, or in local. *)
Outgoing == IF k.state[client] = "SENDING" THEN mr[client].regs
            ELSE IF pc[driver] = "write" THEN local
            ELSE IF this_tcb = driver /\ HasMessage(WRITE) THEN mr[driver].regs
            ELSE <<>>

(* The bytes the client has read and not sent back. *)
Answer == IF pc[client] = "answer" /\ k.state[client] # "CALLING" /\ mr[client].label = "data"
          THEN mr[client].regs ELSE <<>>

(* What is due when ty was typed: the greeting, and the capitals of ty. *)
DueOf(ty) == Greeting \o [i \in DOMAIN ty |-> Capital[ty[i]]]

(* out has left; p is on its way to the UART; a is the client's; buf is in *)
(* the driver's buffer and ff in the UART, of the bytes ty that were typed *)
(* when n bytes of the greeting have been sent.                            *)
Flow(out, p, a, buf, ff, ty, n) ==
  LET h == Len(ty) - (Len(a) + Len(buf) + Len(ff))
  IN  /\ p \in Seq(Chars) /\ a \in Seq(Chars)
      /\ n \in 0..Len(Greeting)
      /\ h >= 0 /\ Len(out) + Len(p) = n + h
      /\ n < Len(Greeting) => h = 0
      /\ Window(out, DueOf(ty), 0)
      /\ Window(p, DueOf(ty), Len(out))
      /\ Window(a, ty, h)
      /\ Window(buf, ty, h + Len(a))
      /\ Window(ff, ty, h + Len(a) + Len(buf))

(* Every byte is in its place. *)
FlowInv == Flow(output, Outgoing, Answer, buffer, fifo, typed, sent)

(* The greeting goes first. *)
SentInv == /\ sent <= Len(Greeting)
           /\ pc[client] \in {"issue", "spawn"} => sent = 0
           /\ pc[client] = "print" => sent < Len(Greeting)
           /\ pc[client] \in {"read", "answer"} => sent = Len(Greeting)

(* The inductive invariant. *)
SerialInv == /\ SerialTypeOK /\ Quiet(k) /\ ModeInv /\ LineInv /\ SentInv
             /\ FlowInv

-----------------------------------------------------------------------------
(* Empty queues hold nobody. *)
LEMMA NobodyQueued ==
  ASSUME NEW s, \A o \in Queues : s.list[o] = <<>>
  PROVE  \A t : ~Queued(s, t)
BY DEF Queued, OnList

(* Queues that hold u alone hold nobody else. *)
LEMMA OtherQueued ==
  ASSUME NEW s, NEW t, NEW u, t # u,
         \A o \in Queues : s.list[o] \in {<<>>, <<u>>}
  PROVE  ~Queued(s, t)
BY DEF Queued, OnList

(* From s to r the notifications and their bindings stay what they are. *)
Keeps(s, r) == /\ r.word = s.word /\ r.bound_tcb = s.bound_tcb
               /\ r.bound_notification = s.bound_notification

(* A queue of one. *)
LEMMA Single ==
  ASSUME NEW t
  PROVE  /\ Head(<<t>>) = t /\ Tail(<<t>>) = <<>> /\ <<t>> # <<>>
         /\ OnList(<<t>>, t) /\ \A x : OnList(<<t>>, x) => x = t
         /\ \A x : ~OnList(<<>>, x)
         /\ append_to_list(<<>>, t) = <<t>>
         /\ remove_from_list(<<t>>, t) = <<>>
         /\ \A x : remove_from_list(<<>>, x) = <<>>
<1>1. Head(<<t>>) = t /\ Tail(<<t>>) = <<>> /\ <<t>> # <<>>
  OBVIOUS
<1>2. OnList(<<t>>, t) /\ \A x : OnList(<<t>>, x) => x = t
  BY DEF OnList
<1>3. \A x : ~OnList(<<>>, x)
  BY DEF OnList
<1>4. append_to_list(<<>>, t) = <<t>>
  BY DEF append_to_list
<1>5. remove_from_list(<<t>>, t) = <<>>
  BY <1>2 DEF remove_from_list
<1>6. \A x : remove_from_list(<<>>, x) = <<>>
  BY <1>3 DEF remove_from_list
<1> QED BY <1>1, <1>2, <1>3, <1>4, <1>5, <1>6

-----------------------------------------------------------------------------
(* From s to r only the scheduler's members change. *)
Sched(s, r) ==
  /\ SameObjects(s, r) /\ r.panic = s.panic
  /\ r.sender_badge = s.sender_badge /\ r.endpoint_badge = s.endpoint_badge

(* t runs. *)
Cpu(r, t) == r.current_tcb = t /\ r.return_to_tcb = t

(* The thread that runs gives way to one that was woken. *)
LEMMA Preempts ==
  ASSUME NEW s \in KernelMemory, NEW t \in Threads, NEW u \in Threads, t # u,
         s.current_tcb = u, s.return_to_tcb = t,
         s.state[u] = "RUNNING", s.state[t] = "RUNNABLE", s.runnable_tcbs = <<>>
  PROVE  LET r == return_from_kernel_code(s)
         IN  /\ Sched(s, r) /\ Cpu(r, t) /\ r.runnable_tcbs = <<u>>
             /\ r.state = [s.state EXCEPT ![u] = "RUNNABLE", ![t] = "RUNNING"]
<1> DEFINE r == schedule_tcb(s, u)
           q == [r EXCEPT !.current_tcb = t, !.state[t] = "RUNNING"]
<1>0. /\ ~OnList(s.runnable_tcbs, u) /\ s.state[u] # "DEAD"
      /\ append_to_list(s.runnable_tcbs, u) = <<u>>
  BY Single
<1>1. /\ r \in KernelMemory /\ SameObjects(s, r) /\ r.panic = s.panic
      /\ r.current_tcb = u /\ r.return_to_tcb = t
      /\ r.runnable_tcbs = <<u>>
      /\ r.state = [s.state EXCEPT ![u] = "RUNNABLE"]
      /\ r.sender_badge = s.sender_badge
  BY <1>0, ScheduleTcbEffect
<1>2. r.endpoint_badge = s.endpoint_badge
  BY DEF schedule_tcb, Panic, KernelMemory
<1>3. WantsToContinue(s) /\ r.state[t] = "RUNNABLE"
  BY <1>1, MemoryTypes, ObjectsAssumption DEF WantsToContinue
<1>4. return_from_kernel_code(s) = q
  BY <1>3, ObjectsAssumption DEF return_from_kernel_code, switch_tcb_actual
<1> HIDE DEF r
<1>5. /\ SameObjects(r, q) /\ q.panic = r.panic
      /\ q.sender_badge = r.sender_badge /\ q.endpoint_badge = r.endpoint_badge
      /\ q.current_tcb = t /\ q.return_to_tcb = t /\ q.runnable_tcbs = <<u>>
      /\ q.state = [r.state EXCEPT ![t] = "RUNNING"]
  BY <1>1 DEF SameObjects, KernelMemory
<1> HIDE DEF q
<1> QED BY <1>1, <1>2, <1>4, <1>5 DEF Sched, Cpu, SameObjects

(* The CPU goes from a thread that blocked, or from nobody, to t. *)
LEMMA SwitchesTo ==
  ASSUME NEW s \in KernelMemory, NEW t \in Threads, s.current_tcb # t,
         s.return_to_tcb = t, s.state[t] = "RUNNABLE",
         s.current_tcb # Null => s.state[s.current_tcb] # "RUNNING"
  PROVE  LET r == return_from_kernel_code(s)
         IN  /\ Sched(s, r) /\ Cpu(r, t) /\ r.runnable_tcbs = s.runnable_tcbs
             /\ r.state = [s.state EXCEPT ![t] = "RUNNING"]
<1> DEFINE q == [s EXCEPT !.current_tcb = t, !.state[t] = "RUNNING"]
<1>1. ~WantsToContinue(s)
  BY DEF WantsToContinue
<1>2. return_from_kernel_code(s) = q
  BY <1>1, ObjectsAssumption DEF return_from_kernel_code, switch_tcb_actual
<1>3. /\ SameObjects(s, q) /\ q.panic = s.panic
      /\ q.sender_badge = s.sender_badge /\ q.endpoint_badge = s.endpoint_badge
      /\ q.current_tcb = t /\ q.return_to_tcb = t /\ q.runnable_tcbs = s.runnable_tcbs
      /\ q.state = [s.state EXCEPT ![t] = "RUNNING"]
  BY DEF SameObjects, KernelMemory
<1> HIDE DEF q
<1> QED BY <1>2, <1>3 DEF Sched, Cpu, SameObjects

(* A thread that blocks leaves the CPU to the only one that waits for it. *)
LEMMA BlocksForOther ==
  ASSUME NEW s \in KernelMemory, NEW t \in Threads, NEW u \in Threads, t # u,
         s.current_tcb = u, s.state[u] # "RUNNING", s.state[t] = "RUNNABLE",
         s.runnable_tcbs = <<t>>
  PROVE  LET r == return_from_kernel_code(schedule(s))
         IN  /\ schedule(s).panic = s.panic
             /\ Sched(s, r) /\ Cpu(r, t) /\ r.runnable_tcbs = <<>>
             /\ r.state = [s.state EXCEPT ![t] = "RUNNING"]
<1> DEFINE q == schedule(s)
<1>0. q \in KernelMemory
  BY ScheduleType
<1>1. /\ SameObjects(s, q) /\ q.panic = s.panic
      /\ q.sender_badge = s.sender_badge /\ q.endpoint_badge = s.endpoint_badge
      /\ q.current_tcb = u /\ q.return_to_tcb = t /\ q.runnable_tcbs = <<>>
      /\ q.state = [s.state EXCEPT ![t] = "RUNNABLE"]
  BY Single DEF schedule, switch_tcb, SameObjects, KernelMemory
<1>2. /\ q.state[t] = "RUNNABLE" /\ q.current_tcb # t
      /\ q.current_tcb # Null => q.state[q.current_tcb] # "RUNNING"
  BY <1>1, MemoryTypes
<1> HIDE DEF q
<1>3. LET r == return_from_kernel_code(q)
         IN  /\ Sched(q, r) /\ Cpu(r, t) /\ r.runnable_tcbs = <<>>
             /\ r.state = [q.state EXCEPT ![t] = "RUNNING"]
  BY <1>0, <1>1, <1>2, SwitchesTo
<1>4. [q.state EXCEPT ![t] = "RUNNING"] = [s.state EXCEPT ![t] = "RUNNING"]
  BY <1>1, MemoryTypes
<1> QED BY <1>1, <1>3, <1>4 DEF Sched, SameObjects, q

(* A thread that blocks when nobody waits for the CPU leaves it idle. *)
LEMMA BlocksForNobody ==
  ASSUME NEW s \in KernelMemory, NEW u \in Threads,
         s.current_tcb = u, s.state[u] # "RUNNING", s.runnable_tcbs = <<>>
  PROVE  LET r == return_from_kernel_code(schedule(s))
         IN  /\ schedule(s).panic = s.panic
             /\ Sched(s, r) /\ Cpu(r, Null) /\ r.runnable_tcbs = <<>>
             /\ r.state = s.state
<1> DEFINE q == [s EXCEPT !.return_to_tcb = Null]
           r == [q EXCEPT !.current_tcb = Null]
<1>1. schedule(s) = q
  BY DEF schedule, WantsToContinue
<1>2. q.return_to_tcb = Null /\ q.current_tcb = u /\ u # Null
  BY ObjectsAssumption DEF KernelMemory
<1>3. return_from_kernel_code(q) = r
  BY <1>2 DEF return_from_kernel_code
<1>4. q.panic = s.panic /\ Sched(s, r) /\ Cpu(r, Null) /\ r.runnable_tcbs = <<>> /\ r.state = s.state
  BY DEF Sched, SameObjects, Cpu, KernelMemory
<1> QED BY <1>1, <1>3, <1>4

(* A system call that neither stops the CPU nor is stopped on its way out. *)
LEMMA Leaves ==
  ASSUME NEW s, Leave(s), s.panic = NoPanic, return_from_kernel_code(s).panic = NoPanic
  PROVE  k' = return_from_kernel_code(s)
BY DEF Leave

(* A system call after which the same thread goes on. *)
LEMMA Stays ==
  ASSUME NEW s, Leave(s), s.panic = NoPanic, s.return_to_tcb = s.current_tcb
  PROVE  k' = s
BY DEF Leave, return_from_kernel_code

(* The facts about the constants and a mode that every step uses. *)
LEMMA Objects ==
  /\ driver \in Threads /\ client \in Threads /\ driver # client
  /\ driver # Null /\ client # Null
  /\ endpoint \in Queues /\ read_ntfn \in Queues /\ irq_ntfn \in Queues
  /\ endpoint \in Endpoints /\ read_ntfn \in Notifications /\ irq_ntfn \in Notifications
  /\ endpoint # read_ntfn /\ endpoint # irq_ntfn /\ irq_ntfn # read_ntfn
  /\ \A t \in Threads : t = driver \/ t = client
  /\ {} \in Badges
BY SerialAssumption, ObjectsAssumption DEF Queues, Badges

(* The types of the members that MemoryTypes leaves out. *)
LEMMA MemberTypes ==
  ASSUME NEW s \in KernelMemory
  PROVE  /\ s.expects_reply \in [Threads -> BOOLEAN]
         /\ s.reply_to \in [Threads -> ThreadOrNull]
         /\ s.endpoint_badge \in [Threads -> Badges]
         /\ s.bound_notification \in [Threads -> Notifications \cup {Null}]
         /\ s.sender_badge \in [Threads -> Badges]
         /\ s.word \in [Notifications -> Badges]
         /\ s.bound_tcb \in [Notifications -> ThreadOrNull]
         /\ s.server \in [Threads -> ThreadOrNull]
BY DEF KernelMemory

(* A send or a call finds the driver waiting: nobody blocks. *)
LEMMA SendToDriver ==
  ASSUME Quiet(k), k' \in KernelMemory, ClientRuns(k), SysSend(endpoint, {})
  PROVE  /\ Quiet(k') /\ Ready(k') /\ Keeps(k, k') /\ k'.sender_badge[driver] = {}
<1> DEFINE c == [k EXCEPT !.expects_reply[client] = FALSE]
           d == [c EXCEPT !.list[endpoint] = <<>>]
           m == transfer_message(d, client, driver, {})
           s == switch_tcb(m, driver)
<1>0. /\ k \in KernelMemory /\ k.current_tcb = client /\ k.list[endpoint] = <<driver>>
      /\ k.state[driver] = "RECEIVING" /\ k.state[client] = "RUNNING" /\ k.runnable_tcbs = <<>>
  BY DEF Quiet, ClientRuns, Mode, Linked
<1>1. /\ c \in KernelMemory /\ d \in KernelMemory /\ m \in KernelMemory /\ s \in KernelMemory
  <2>1. c \in KernelMemory
    BY <1>0, Objects DEF KernelMemory
  <2>2. d \in KernelMemory
    <3> HIDE DEF c
    <3>1. <<>> \in Seq(Threads)
      OBVIOUS
    <3> QED BY <2>1, <3>1, Objects DEF KernelMemory
  <2> QED BY <2>1, <2>2, Objects, TransferType, SwitchTcbType
<1>2. /\ c.list = k.list /\ c.state = k.state /\ c.current_tcb = client
      /\ c.expects_reply = [k.expects_reply EXCEPT ![client] = FALSE]
  BY <1>0 DEF KernelMemory
<1>3. ~send_will_block(c, endpoint) /\ Head(c.list[endpoint]) = driver /\ Tail(c.list[endpoint]) = <<>>
  <2> HIDE DEF c
  <2>1. c.list[endpoint] = <<driver>> /\ c.state[driver] = "RECEIVING"
    BY <1>0, <1>2
  <2> QED BY <2>1, Single DEF send_will_block, FirstState
<1>4. invoke_endpoint_send(k, endpoint, {}) = s
  <2>1. d.current_tcb = client
    BY <1>1, <1>2 DEF KernelMemory
  <2>2. invoke_endpoint_send(k, endpoint, {}) = endpoint_send(c, endpoint, {}, FALSE)
    BY <1>0 DEF invoke_endpoint_send
  <2> HIDE DEF c
  <2> QED BY <1>3, <2>1, <2>2
          DEF endpoint_send, send_message_to_blocked_receiver, send_message_directly
<1>5. /\ s.list = [k.list EXCEPT ![endpoint] = <<>>] /\ s.state = [k.state EXCEPT ![driver] = "RUNNABLE"]
      /\ s.expects_reply = [k.expects_reply EXCEPT ![client] = FALSE]
      /\ s.sender_badge = [k.sender_badge EXCEPT ![driver] = {}]
      /\ s.current_tcb = client /\ s.return_to_tcb = driver /\ s.runnable_tcbs = <<>>
      /\ s.server = k.server /\ s.reply_to = k.reply_to /\ s.endpoint_badge = k.endpoint_badge
      /\ s.word = k.word /\ s.bound_tcb = k.bound_tcb /\ s.bound_notification = k.bound_notification
      /\ s.panic = k.panic
  <2>1. ~d.expects_reply[client]
    BY <1>0, <1>1, <1>2, Objects, MemberTypes DEF KernelMemory
  <2>2. /\ d.list = [k.list EXCEPT ![endpoint] = <<>>] /\ d.state = k.state
        /\ d.expects_reply = c.expects_reply /\ d.sender_badge = k.sender_badge
        /\ d.current_tcb = client /\ d.runnable_tcbs = <<>>
        /\ d.server = k.server /\ d.reply_to = k.reply_to
        /\ d.endpoint_badge = k.endpoint_badge
        /\ d.word = k.word /\ d.bound_tcb = k.bound_tcb
        /\ d.bound_notification = k.bound_notification
        /\ d.panic = k.panic
    BY <1>0 DEF KernelMemory
  <2> HIDE DEF d, c
  <2>3. m = [d EXCEPT !.sender_badge[driver] = {}]
    BY <2>1 DEF transfer_message
  <2> HIDE DEF m
  <2>4. s = [m EXCEPT !.state[driver] = "RUNNABLE", !.return_to_tcb = driver]
    BY DEF switch_tcb
  <2> HIDE DEF s
  <2>5. d \in KernelMemory
    BY <1>1
  <2> QED BY ONLY <1>2, <2>2, <2>3, <2>4, <2>5 DEF KernelMemory
<1> HIDE DEF s, m, d, c
<1>6. LET r == return_from_kernel_code(s)
      IN  /\ Sched(s, r) /\ Cpu(r, driver) /\ r.runnable_tcbs = <<client>>
          /\ r.state = [s.state EXCEPT ![client] = "RUNNABLE", ![driver] = "RUNNING"]
  <2>1. /\ s.state[client] = "RUNNING" /\ s.state[driver] = "RUNNABLE"
        /\ s.current_tcb = client /\ s.return_to_tcb = driver /\ s.runnable_tcbs = <<>>
    BY <1>0, <1>5, Objects, MemoryTypes
  <2> QED BY ONLY <1>1, <2>1, Objects, Preempts
<1>7. k' = return_from_kernel_code(s)
  BY <1>4, <1>5, <1>6, Leaves DEF Quiet, Sched, SysSend, Syscall
<1>8. /\ Sched(s, k') /\ Cpu(k', driver) /\ k'.runnable_tcbs = <<client>>
      /\ k'.state = [s.state EXCEPT ![client] = "RUNNABLE", ![driver] = "RUNNING"]
  BY <1>6, <1>7
<1>9. Ready(k')
  BY <1>0, <1>1, <1>5, <1>8, Objects, MemoryTypes DEF ClientRuns, Ready, Mode, Linked, Cpu, Sched, SameObjects
<1>10. Quiet(k')
  BY <1>0, <1>1, <1>5, <1>8, Objects, MemoryTypes, MemberTypes DEF Quiet, Cpu, Sched, SameObjects
<1>11. Keeps(k, k') /\ k'.sender_badge[driver] = {}
  BY <1>0, <1>5, <1>8, Objects, MemberTypes DEF Keeps, Sched, SameObjects
<1> QED BY <1>9, <1>10, <1>11


(* A call finds the driver waiting: it is served at once. *)
LEMMA CallToDriver ==
  ASSUME Quiet(k), k' \in KernelMemory, ClientRuns(k), SysCall(endpoint, {})
  PROVE  Quiet(k') /\ Serving(k') /\ Keeps(k, k') /\ k'.sender_badge[driver] = {}
<1> DEFINE c == [k EXCEPT !.expects_reply[client] = TRUE, !.state[client] = "CALLING"]
           d == [c EXCEPT !.list[endpoint] = <<>>]
           m == transfer_message(d, client, driver, {})
           s == switch_tcb(m, driver)
<1>0. /\ k \in KernelMemory /\ k.current_tcb = client /\ k.list[endpoint] = <<driver>>
      /\ k.state[driver] = "RECEIVING" /\ k.state[client] = "RUNNING" /\ k.runnable_tcbs = <<>>
  BY DEF Quiet, ClientRuns, Mode, Linked
<1>1. /\ c \in KernelMemory /\ d \in KernelMemory /\ m \in KernelMemory /\ s \in KernelMemory
  <2>1. c \in KernelMemory
    BY <1>0, Objects DEF KernelMemory, TaskStates
  <2>2. d \in KernelMemory
    <3> HIDE DEF c
    <3>1. <<>> \in Seq(Threads)
      OBVIOUS
    <3> QED BY <2>1, <3>1, Objects DEF KernelMemory
  <2> QED BY <2>1, <2>2, Objects, TransferType, SwitchTcbType
<1>2. /\ c.list = k.list /\ c.state = [k.state EXCEPT ![client] = "CALLING"]
      /\ c.current_tcb = client
      /\ c.expects_reply = [k.expects_reply EXCEPT ![client] = TRUE]
  BY <1>0 DEF KernelMemory
<1>3. /\ ~send_will_block(c, endpoint)
      /\ Head(c.list[endpoint]) = driver /\ Tail(c.list[endpoint]) = <<>>
  <2> HIDE DEF c
  <2>1. c.list[endpoint] = <<driver>> /\ c.state[driver] = "RECEIVING"
    BY <1>0, <1>2, Objects, MemoryTypes
  <2> QED BY <2>1, Single DEF send_will_block, FirstState
<1>4. invoke_endpoint_call(k, endpoint, {}) = s
  <2>1. d.current_tcb = client
    BY <1>1, <1>2 DEF KernelMemory
  <2>2. invoke_endpoint_call(k, endpoint, {}) = endpoint_send(c, endpoint, {}, TRUE)
    BY <1>0 DEF invoke_endpoint_call
  <2> HIDE DEF c
  <2> QED BY <1>3, <2>1, <2>2
          DEF endpoint_send, send_message_to_blocked_receiver, send_message_directly
<1>5. /\ s.list = [k.list EXCEPT ![endpoint] = <<>>]
      /\ s.state = [c.state EXCEPT ![driver] = "RUNNABLE"]
      /\ s.expects_reply = [k.expects_reply EXCEPT ![client] = TRUE]
      /\ s.sender_badge = [k.sender_badge EXCEPT ![driver] = {}]
      /\ s.current_tcb = client /\ s.return_to_tcb = driver /\ s.runnable_tcbs = <<>>
      /\ s.server = [k.server EXCEPT ![client] = driver]
      /\ s.reply_to = [k.reply_to EXCEPT ![driver] = client]
      /\ s.endpoint_badge = k.endpoint_badge
      /\ s.word = k.word /\ s.bound_tcb = k.bound_tcb /\ s.bound_notification = k.bound_notification
      /\ s.panic = k.panic
  <2>1. d.expects_reply[client] /\ d.state[client] = "CALLING"
    BY <1>0, <1>1, <1>2, Objects, MemoryTypes, MemberTypes DEF KernelMemory
  <2>2. /\ d.list = [k.list EXCEPT ![endpoint] = <<>>] /\ d.state = c.state
        /\ d.expects_reply = c.expects_reply
        /\ d.sender_badge = k.sender_badge
        /\ d.current_tcb = client /\ d.runnable_tcbs = <<>>
        /\ d.server = k.server /\ d.reply_to = k.reply_to
        /\ d.endpoint_badge = k.endpoint_badge
        /\ d.word = k.word /\ d.bound_tcb = k.bound_tcb
        /\ d.bound_notification = k.bound_notification
        /\ d.panic = k.panic
    BY <1>0 DEF KernelMemory
  <2> HIDE DEF d, c
  <2>3. /\ m.list = d.list /\ m.state = d.state /\ m.expects_reply = d.expects_reply
        /\ m.sender_badge = [d.sender_badge EXCEPT ![driver] = {}]
        /\ m.current_tcb = client /\ m.runnable_tcbs = <<>>
        /\ m.server = [d.server EXCEPT ![client] = driver]
        /\ m.reply_to = [d.reply_to EXCEPT ![driver] = client]
        /\ m.endpoint_badge = d.endpoint_badge
        /\ m.word = d.word /\ m.bound_tcb = d.bound_tcb
        /\ m.bound_notification = d.bound_notification
        /\ m.panic = d.panic
    <3>1. m = [[d EXCEPT !.sender_badge[driver] = {}]
                 EXCEPT !.reply_to[driver] = client, !.server[client] = driver]
      BY <2>1 DEF transfer_message
    <3> HIDE DEF m
    <3>2. d \in KernelMemory
      BY <1>1
    <3> QED BY ONLY <2>2, <3>1, <3>2 DEF KernelMemory
  <2> HIDE DEF m
  <2> QED BY <1>1, <1>2, <2>2, <2>3 DEF switch_tcb, KernelMemory
<1> HIDE DEF s, m, d, c
<1>6. LET r == return_from_kernel_code(s)
      IN  /\ Sched(s, r) /\ Cpu(r, driver) /\ r.runnable_tcbs = s.runnable_tcbs
          /\ r.state = [s.state EXCEPT ![driver] = "RUNNING"]
  <2>1. /\ s.state[s.current_tcb] # "RUNNING" /\ s.state[driver] = "RUNNABLE"
        /\ s.current_tcb # driver /\ s.return_to_tcb = driver
    BY <1>0, <1>1, <1>2, <1>5, Objects, MemoryTypes
  <2> QED BY ONLY <1>1, <2>1, Objects, SwitchesTo
<1>7. k' = return_from_kernel_code(s)
  BY <1>4, <1>5, <1>6, Leaves DEF Quiet, Sched, SysCall, Syscall
<1>8. /\ Sched(s, k') /\ Cpu(k', driver) /\ k'.runnable_tcbs = s.runnable_tcbs
      /\ k'.state = [s.state EXCEPT ![driver] = "RUNNING"]
  BY <1>6, <1>7
<1>9. Serving(k')
  BY <1>0, <1>1, <1>2, <1>5, <1>8, Objects, MemoryTypes, MemberTypes
     DEF ClientRuns, Serving, Mode, Linked, Cpu, Sched, SameObjects
<1>10. Quiet(k')
  BY <1>0, <1>1, <1>5, <1>8, Objects, MemoryTypes, MemberTypes
     DEF Quiet, Cpu, Sched, SameObjects
<1>11. Keeps(k, k') /\ k'.sender_badge[driver] = {}
  BY <1>0, <1>5, <1>8, Objects, MemberTypes DEF Keeps, Sched, SameObjects
<1> QED BY <1>9, <1>10, <1>11

(* No receiver waits: the client is queued, and the driver runs. *)
LEMMA ClientQueues ==
  ASSUME Quiet(k), k' \in KernelMemory, ClientFirst(k),
         NEW is_call \in BOOLEAN, NEW c \in KernelMemory, Announces(k, c, is_call),
         c.endpoint_badge = k.endpoint_badge, c.sender_badge = k.sender_badge,
         Leave(endpoint_send(c, endpoint, {}, is_call))
  PROVE  /\ Quiet(k') /\ Keeps(k, k')
         /\ IF is_call THEN Calling(k') ELSE Sending(k')
<1> DEFINE st == IF is_call THEN "CALLING" ELSE "SENDING"
           b == [c EXCEPT !.list[endpoint] = <<client>>,
                          !.state[client] = st,
                          !.endpoint_badge[client] = {}]
<1>0. /\ k \in KernelMemory /\ k.current_tcb = client /\ k.list[endpoint] = <<>>
      /\ k.state[driver] = "RUNNABLE" /\ k.state[client] = "RUNNING"
      /\ k.runnable_tcbs = <<driver>> /\ k.panic = NoPanic
      /\ \A o \in Queues : k.list[o] = <<>>
  BY DEF Quiet, ClientFirst, Mode, Linked
<1>1. /\ c.current_tcb = client /\ c.list[endpoint] = <<>> /\ ~Queued(c, client)
      /\ append_to_list(c.list[endpoint], client) = <<client>>
  <2>1. c.current_tcb = client /\ c.list = k.list
    BY <1>0 DEF Announces
  <2>2. ~Queued(c, client)
    BY <1>0, <2>1, NobodyQueued
  <2> QED BY <1>0, <2>1, <2>2, Single
<1>2. endpoint_send(c, endpoint, {}, is_call) = schedule(b)
  BY <1>1 DEF endpoint_send, send_will_block, queue_message_on_endpoint
<1>3. b \in KernelMemory
  <2>1. <<client>> \in Seq(Threads) /\ st \in TaskStates
    BY Objects DEF TaskStates
  <2> QED BY <2>1, Objects DEF KernelMemory
<1>4. /\ b.list = [k.list EXCEPT ![endpoint] = <<client>>]
      /\ b.state = [c.state EXCEPT ![client] = st]
      /\ b.expects_reply = [k.expects_reply EXCEPT ![client] = is_call]
      /\ b.endpoint_badge = [k.endpoint_badge EXCEPT ![client] = {}]
      /\ b.current_tcb = client /\ b.runnable_tcbs = <<driver>>
      /\ b.server = k.server /\ b.reply_to = k.reply_to
      /\ b.word = k.word /\ b.bound_tcb = k.bound_tcb /\ b.bound_notification = k.bound_notification
      /\ b.panic = NoPanic
  BY <1>0 DEF Announces, KernelMemory
<1> HIDE DEF b
<1>5. b.state[client] = st /\ b.state[driver] = "RUNNABLE"
  BY <1>0, <1>4, Objects, MemoryTypes DEF Announces
<1>6. LET r == return_from_kernel_code(schedule(b))
      IN  /\ schedule(b).panic = b.panic
          /\ Sched(b, r) /\ Cpu(r, driver) /\ r.runnable_tcbs = <<>>
          /\ r.state = [b.state EXCEPT ![driver] = "RUNNING"]
  <2>1. b.state[client] # "RUNNING" /\ b.current_tcb = client /\ b.runnable_tcbs = <<driver>>
    BY <1>4, <1>5
  <2> QED BY ONLY <1>3, <1>5, <2>1, Objects, BlocksForOther
<1>7. k' = return_from_kernel_code(schedule(b))
  BY <1>2, <1>4, <1>6, Leaves DEF Sched
<1>8. /\ Sched(b, k') /\ Cpu(k', driver) /\ k'.runnable_tcbs = <<>>
      /\ k'.state = [b.state EXCEPT ![driver] = "RUNNING"]
  BY <1>6, <1>7
<1> HIDE DEF st
<1>9. /\ Mode(k', driver, "RUNNING", st) /\ Linked(k', <<>>, <<client>>, <<>>)
      /\ k'.server[client] = Null
      /\ k'.expects_reply[client] = is_call
  BY <1>0, <1>3, <1>4, <1>5, <1>8, Objects, MemoryTypes, MemberTypes
     DEF ClientFirst, Mode, Linked, Cpu, Sched, SameObjects
<1>10. Quiet(k')
  BY <1>0, <1>3, <1>4, <1>8, Objects, MemoryTypes, MemberTypes
     DEF Quiet, Cpu, Sched, SameObjects
<1>11. Keeps(k, k')
  BY <1>0, <1>4, <1>8 DEF Keeps, Sched, SameObjects
<1>12. IF is_call THEN Calling(k') ELSE Sending(k')
  BY <1>9 DEF st, Calling, Sending
<1> QED BY <1>10, <1>11, <1>12


(* A send and a call, told apart by what they announce. *)
LEMMA SendOrCall ==
  ASSUME Quiet(k), k.current_tcb = client, k' \in KernelMemory, ClientFirst(k)
  PROVE  /\ SysSend(endpoint, {}) => Quiet(k') /\ Keeps(k, k') /\ Sending(k')
         /\ SysCall(endpoint, {}) => Quiet(k') /\ Keeps(k, k') /\ Calling(k')
<1> DEFINE c(is_call) ==
             IF is_call THEN [k EXCEPT !.expects_reply[client] = TRUE,
                                       !.state[client] = "CALLING"]
             ELSE [k EXCEPT !.expects_reply[client] = FALSE]
<1>0. k \in KernelMemory
  BY DEF Quiet
<1>1. ASSUME NEW is_call \in BOOLEAN
      PROVE  /\ c(is_call) \in KernelMemory /\ Announces(k, c(is_call), is_call)
             /\ c(is_call).endpoint_badge = k.endpoint_badge
             /\ c(is_call).sender_badge = k.sender_badge
  <2>1. CASE is_call
    BY <1>0, <2>1, Objects DEF Announces, KernelMemory, TaskStates
  <2>2. CASE ~is_call
    BY <1>0, <2>2, Objects DEF Announces, KernelMemory
  <2> QED BY <2>1, <2>2
<1>2. /\ invoke_endpoint_send(k, endpoint, {}) = endpoint_send(c(FALSE), endpoint, {}, FALSE)
      /\ invoke_endpoint_call(k, endpoint, {}) = endpoint_send(c(TRUE), endpoint, {}, TRUE)
  BY DEF invoke_endpoint_send, invoke_endpoint_call
<1> HIDE DEF c
<1>3. SysSend(endpoint, {}) => Leave(endpoint_send(c(FALSE), endpoint, {}, FALSE))
  BY <1>2 DEF SysSend, Syscall
<1>4. SysCall(endpoint, {}) => Leave(endpoint_send(c(TRUE), endpoint, {}, TRUE))
  BY <1>2 DEF SysCall, Syscall
<1> QED BY <1>1, <1>3, <1>4, ClientQueues

(* The client waits for something to read, and the CPU idles. *)
LEMMA ClientWaits ==
  ASSUME Quiet(k), k' \in KernelMemory, ClientRuns(k), SysWait(read_ntfn)
  PROVE  Quiet(k') /\ Idle(k') /\ Keeps(k, k')
<1> DEFINE b == [k EXCEPT !.list[read_ntfn] = <<client>>, !.state[client] = "RECEIVING"]
<1>0. /\ k \in KernelMemory /\ k.current_tcb = client /\ k.list[endpoint] = <<driver>>
      /\ k.state[driver] = "RECEIVING" /\ k.runnable_tcbs = <<>> /\ k.panic = NoPanic
      /\ k.list[read_ntfn] = <<>> /\ \A o \in Queues \ {endpoint} : k.list[o] = <<>>
      /\ k.word[read_ntfn] = {} /\ k.bound_tcb[read_ntfn] = Null
  BY Objects DEF Quiet, ClientRuns, Mode, Linked
<1>1. ~Queued(k, client)
  BY <1>0, Objects, OtherQueued
<1>2. append_to_list(k.list[read_ntfn], client) = <<client>>
  BY <1>0, Single
<1>3. invoke_notification_recv(k, read_ntfn) = schedule(b)
  BY <1>0, <1>1, <1>2 DEF invoke_notification_recv, queue_receiver_on_notification
<1>4. b \in KernelMemory
  <2>1. <<client>> \in Seq(Threads) /\ "RECEIVING" \in TaskStates
    BY Objects DEF TaskStates
  <2> QED BY <1>0, <2>1, Objects DEF KernelMemory
<1>5. /\ b.list = [k.list EXCEPT ![read_ntfn] = <<client>>]
      /\ b.state = [k.state EXCEPT ![client] = "RECEIVING"]
      /\ b.expects_reply = k.expects_reply /\ b.endpoint_badge = k.endpoint_badge
      /\ b.current_tcb = client /\ b.runnable_tcbs = <<>>
      /\ b.server = k.server
      /\ b.word = k.word /\ b.bound_tcb = k.bound_tcb /\ b.bound_notification = k.bound_notification
      /\ b.panic = NoPanic
  BY <1>0 DEF KernelMemory
<1> HIDE DEF b
<1>6. LET r == return_from_kernel_code(schedule(b))
      IN  /\ schedule(b).panic = b.panic
          /\ Sched(b, r) /\ Cpu(r, Null) /\ r.runnable_tcbs = <<>>
          /\ r.state = b.state
  <2>1. b.state[client] # "RUNNING" /\ b.current_tcb = client /\ b.runnable_tcbs = <<>>
    BY <1>0, <1>5, Objects, MemoryTypes
  <2> QED BY ONLY <1>4, <2>1, Objects, BlocksForNobody
<1>7. k' = return_from_kernel_code(schedule(b))
  BY <1>3, <1>5, <1>6, Leaves DEF Sched, SysWait, Syscall
<1>8. /\ Sched(b, k') /\ Cpu(k', Null) /\ k'.runnable_tcbs = <<>>
      /\ k'.state = b.state
  BY <1>6, <1>7
<1>9. Idle(k')
  BY <1>0, <1>5, <1>8, Objects, MemoryTypes
     DEF ClientRuns, Idle, Mode, Linked, Cpu, Sched, SameObjects
<1>10. Quiet(k')
  BY <1>0, <1>5, <1>8, Objects, MemoryTypes DEF Quiet, Cpu, Sched, SameObjects
<1>11. Keeps(k, k')
  BY <1>5, <1>8 DEF Keeps, Sched, SameObjects
<1> QED BY <1>9, <1>10, <1>11

(* The first program starts the driver. *)
LEMMA DriverStarts ==
  ASSUME Quiet(k), k' \in KernelMemory, Booting(k), TcbResume(driver)
  PROVE  Quiet(k') /\ ClientFirst(k') /\ Keeps(k, k')
<1> DEFINE s == schedule_tcb(k, driver)
<1>0. /\ k \in KernelMemory /\ k.current_tcb = client /\ k.return_to_tcb = client
      /\ k.state[driver] = "RUNNABLE" /\ k.runnable_tcbs = <<>> /\ k.panic = NoPanic
  BY DEF Quiet, Booting, Mode, Linked
<1>1. /\ ~OnList(k.runnable_tcbs, driver) /\ k.state[driver] # "DEAD"
      /\ append_to_list(k.runnable_tcbs, driver) = <<driver>>
  BY <1>0, Single
<1>2. /\ SameObjects(k, s) /\ s.panic = NoPanic
      /\ s.current_tcb = client /\ s.return_to_tcb = client
      /\ s.runnable_tcbs = <<driver>>
      /\ s.state = [k.state EXCEPT ![driver] = "RUNNABLE"]
      /\ s.sender_badge = k.sender_badge
  BY <1>0, <1>1, Objects, ScheduleTcbEffect
<1>3. s.endpoint_badge = k.endpoint_badge
  BY <1>0 DEF schedule_tcb, Panic, KernelMemory
<1> HIDE DEF s
<1>4. k' = s
  BY <1>2, Stays DEF TcbResume, tcb_resume, Syscall, s
<1> QED BY <1>0, <1>2, <1>3, <1>4, Objects, MemoryTypes
        DEF Quiet, Booting, ClientFirst, Mode, Linked, Keeps, SameObjects


-----------------------------------------------------------------------------
(* From s to r neither the scheduler nor the endpoint changes anything. *)
SameMode(s, r) ==
  /\ r.current_tcb = s.current_tcb /\ r.return_to_tcb = s.return_to_tcb
  /\ r.state = s.state /\ r.runnable_tcbs = s.runnable_tcbs /\ r.list = s.list
  /\ r.server = s.server /\ r.reply_to = s.reply_to
  /\ r.expects_reply = s.expects_reply /\ r.endpoint_badge = s.endpoint_badge
  /\ r.panic = s.panic

(* A step that keeps these members keeps the mode. *)
LEMMA ModeKept ==
  ASSUME NEW s, NEW r, SameMode(s, r)
  PROVE  /\ Booting(r) <=> Booting(s)
         /\ ClientFirst(r) <=> ClientFirst(s)
         /\ ClientRuns(r) <=> ClientRuns(s)
         /\ Sending(r) <=> Sending(s)
         /\ Calling(r) <=> Calling(s)
         /\ Serving(r) <=> Serving(s)
         /\ Waiting(r) <=> Waiting(s)
         /\ Ready(r) <=> Ready(s)
         /\ Idle(r) <=> Idle(s)
BY DEF SameMode, Booting, ClientFirst, ClientRuns, Sending, Calling, Serving, Waiting,
       Ready, Idle, Mode, Linked

(* The driver's receive finds an interrupt pending: the word is the answer. *)
LEMMA RecvPending ==
  ASSUME Quiet(k), k' \in KernelMemory, k.current_tcb = driver,
         k.bound_notification[driver] = irq_ntfn, k.word[irq_ntfn] # {},
         SysRecv(endpoint)
  PROVE  /\ Quiet(k') /\ SameMode(k, k')
         /\ k'.bound_tcb = k.bound_tcb /\ k'.bound_notification = k.bound_notification
         /\ k'.word = [k.word EXCEPT ![irq_ntfn] = {}]
         /\ k'.sender_badge[driver] = k.word[irq_ntfn]
<1> DEFINE s == [k EXCEPT !.sender_badge[driver] = k.word[irq_ntfn], !.word[irq_ntfn] = {}]
<1>0. k \in KernelMemory /\ k.panic = NoPanic /\ k.return_to_tcb = driver
  BY DEF Quiet
<1>1. HasPendingNotification(k)
  BY Objects, ObjectsAssumption DEF HasPendingNotification
<1>2. invoke_endpoint_recv(k, endpoint) = s
  BY <1>1 DEF invoke_endpoint_recv, handle_recv_with_pending_notification
<1>3. /\ SameMode(k, s)
      /\ s.bound_tcb = k.bound_tcb /\ s.bound_notification = k.bound_notification
      /\ s.word = [k.word EXCEPT ![irq_ntfn] = {}]
      /\ s.sender_badge = [k.sender_badge EXCEPT ![driver] = k.word[irq_ntfn]]
  BY <1>0 DEF SameMode, KernelMemory
<1> HIDE DEF s
<1>4. k' = s
  BY <1>0, <1>2, <1>3, Stays DEF SysRecv, Syscall, SameMode
<1>5. k'.sender_badge[driver] = k.word[irq_ntfn]
  BY <1>0, <1>3, <1>4, Objects, MemberTypes
<1>6. Quiet(k')
  BY <1>0, <1>3, <1>4, Objects, MemberTypes DEF Quiet, SameMode
<1> QED BY <1>3, <1>4, <1>5, <1>6

(* What the driver's receive does when no interrupt is pending. *)
LEMMA RecvIdle ==
  ASSUME Quiet(k), k.current_tcb = driver,
         k.bound_notification[driver] = Null \/ k.word[irq_ntfn] = {},
         k.bound_notification[driver] \in {Null, irq_ntfn}
  PROVE  ~HasPendingNotification(k) /\ invoke_endpoint_recv(k, endpoint) = endpoint_recv(k, endpoint)
BY DEF HasPendingNotification, invoke_endpoint_recv

(* Nothing to receive, nobody waits for the CPU: it idles. *)
LEMMA RecvBlocksIdle ==
  ASSUME Quiet(k), k' \in KernelMemory, Waiting(k), ~HasPendingNotification(k),
         SysRecv(endpoint)
  PROVE  Quiet(k') /\ Idle(k') /\ Keeps(k, k')
<1> DEFINE b == [k EXCEPT !.list[endpoint] = <<driver>>, !.state[driver] = "RECEIVING"]
<1>0. /\ k \in KernelMemory /\ k.current_tcb = driver /\ k.list[endpoint] = <<>>
      /\ k.list[read_ntfn] = <<client>>
      /\ k.state[client] = "RECEIVING" /\ k.runnable_tcbs = <<>> /\ k.panic = NoPanic
      /\ \A o \in Queues : k.list[o] \in {<<>>, <<client>>}
  BY Objects DEF Quiet, Waiting, Mode, Linked
<1>1. ~Queued(k, driver)
  BY <1>0, Objects, OtherQueued
<1>2. append_to_list(k.list[endpoint], driver) = <<driver>>
  BY <1>0, Single
<1>3. invoke_endpoint_recv(k, endpoint) = schedule(b)
  BY <1>0, <1>1, <1>2
     DEF invoke_endpoint_recv, endpoint_recv, recv_will_block, queue_receiver_on_endpoint
<1>4. b \in KernelMemory
  <2>1. <<driver>> \in Seq(Threads) /\ "RECEIVING" \in TaskStates
    BY Objects DEF TaskStates
  <2> QED BY <1>0, <2>1, Objects DEF KernelMemory
<1>5. /\ b.list = [k.list EXCEPT ![endpoint] = <<driver>>]
      /\ b.state = [k.state EXCEPT ![driver] = "RECEIVING"]
      /\ b.expects_reply = k.expects_reply /\ b.endpoint_badge = k.endpoint_badge
      /\ b.current_tcb = driver /\ b.runnable_tcbs = <<>>
      /\ b.server = k.server
      /\ b.word = k.word /\ b.bound_tcb = k.bound_tcb /\ b.bound_notification = k.bound_notification
      /\ b.panic = NoPanic
  BY <1>0 DEF KernelMemory
<1> HIDE DEF b
<1>6. LET r == return_from_kernel_code(schedule(b))
      IN  /\ schedule(b).panic = b.panic
          /\ Sched(b, r) /\ Cpu(r, Null) /\ r.runnable_tcbs = <<>>
          /\ r.state = b.state
  <2>1. b.state[driver] # "RUNNING" /\ b.current_tcb = driver /\ b.runnable_tcbs = <<>>
    BY <1>0, <1>5, Objects, MemoryTypes
  <2> QED BY ONLY <1>4, <2>1, Objects, BlocksForNobody
<1>7. k' = return_from_kernel_code(schedule(b))
  BY <1>3, <1>5, <1>6, Leaves DEF Sched, SysRecv, Syscall
<1>8. /\ Sched(b, k') /\ Cpu(k', Null) /\ k'.runnable_tcbs = <<>>
      /\ k'.state = b.state
  BY <1>6, <1>7
<1>9. Idle(k')
  BY <1>0, <1>5, <1>8, Objects, MemoryTypes
     DEF Waiting, Idle, Mode, Linked, Cpu, Sched, SameObjects
<1>10. Quiet(k')
  BY <1>0, <1>5, <1>8, Objects, MemoryTypes DEF Quiet, Cpu, Sched, SameObjects
<1>11. Keeps(k, k')
  BY <1>5, <1>8 DEF Keeps, Sched, SameObjects
<1> QED BY <1>9, <1>10, <1>11

(* Nothing to receive, but the client waits for the CPU. *)
LEMMA RecvBlocksReady ==
  ASSUME Quiet(k), k' \in KernelMemory, Ready(k), ~HasPendingNotification(k),
         SysRecv(endpoint)
  PROVE  Quiet(k') /\ ClientRuns(k') /\ Keeps(k, k')
<1> DEFINE b == [k EXCEPT !.list[endpoint] = <<driver>>, !.state[driver] = "RECEIVING"]
<1>0. /\ k \in KernelMemory /\ k.current_tcb = driver /\ k.list[endpoint] = <<>>
      /\ k.list[read_ntfn] = <<>>
      /\ k.state[client] = "RUNNABLE" /\ k.runnable_tcbs = <<client>> /\ k.panic = NoPanic
      /\ \A o \in Queues : k.list[o] = <<>>
  BY Objects DEF Quiet, Ready, Mode, Linked
<1>1. ~Queued(k, driver)
  BY <1>0, NobodyQueued
<1>2. append_to_list(k.list[endpoint], driver) = <<driver>>
  BY <1>0, Single
<1>3. invoke_endpoint_recv(k, endpoint) = schedule(b)
  BY <1>0, <1>1, <1>2
     DEF invoke_endpoint_recv, endpoint_recv, recv_will_block, queue_receiver_on_endpoint
<1>4. b \in KernelMemory
  <2>1. <<driver>> \in Seq(Threads) /\ "RECEIVING" \in TaskStates
    BY Objects DEF TaskStates
  <2> QED BY <1>0, <2>1, Objects DEF KernelMemory
<1>5. /\ b.list = [k.list EXCEPT ![endpoint] = <<driver>>]
      /\ b.state = [k.state EXCEPT ![driver] = "RECEIVING"]
      /\ b.expects_reply = k.expects_reply /\ b.endpoint_badge = k.endpoint_badge
      /\ b.current_tcb = driver /\ b.runnable_tcbs = <<client>>
      /\ b.server = k.server
      /\ b.word = k.word /\ b.bound_tcb = k.bound_tcb /\ b.bound_notification = k.bound_notification
      /\ b.panic = NoPanic
  BY <1>0 DEF KernelMemory
<1> HIDE DEF b
<1>6. LET r == return_from_kernel_code(schedule(b))
      IN  /\ schedule(b).panic = b.panic
          /\ Sched(b, r) /\ Cpu(r, client) /\ r.runnable_tcbs = <<>>
          /\ r.state = [b.state EXCEPT ![client] = "RUNNING"]
  <2>1. /\ b.state[driver] # "RUNNING" /\ b.current_tcb = driver
        /\ b.runnable_tcbs = <<client>> /\ b.state[client] = "RUNNABLE"
    BY <1>0, <1>5, Objects, MemoryTypes
  <2> QED BY ONLY <1>4, <2>1, Objects, BlocksForOther
<1>7. k' = return_from_kernel_code(schedule(b))
  BY <1>3, <1>5, <1>6, Leaves DEF Sched, SysRecv, Syscall
<1>8. /\ Sched(b, k') /\ Cpu(k', client) /\ k'.runnable_tcbs = <<>>
      /\ k'.state = [b.state EXCEPT ![client] = "RUNNING"]
  BY <1>6, <1>7
<1>9. ClientRuns(k')
  BY <1>0, <1>5, <1>8, Objects, MemoryTypes
     DEF ClientRuns, Ready, Mode, Linked, Cpu, Sched, SameObjects
<1>10. Quiet(k')
  BY <1>0, <1>5, <1>8, Objects, MemoryTypes DEF Quiet, Cpu, Sched, SameObjects
<1>11. Keeps(k, k')
  BY <1>5, <1>8 DEF Keeps, Sched, SameObjects
<1> QED BY <1>9, <1>10, <1>11


(* The driver takes the message of a queued sender, who may go on. *)
LEMMA RecvSent ==
  ASSUME Quiet(k), k' \in KernelMemory, Sending(k), ~HasPendingNotification(k),
         SysRecv(endpoint)
  PROVE  Quiet(k') /\ Ready(k') /\ Keeps(k, k') /\ k'.sender_badge[driver] = {}
<1> DEFINE d == [k EXCEPT !.list[endpoint] = <<>>]
           m == transfer_message(d, client, driver, {})
           s == schedule_tcb(m, client)
<1>0. /\ k \in KernelMemory /\ k.current_tcb = driver /\ k.return_to_tcb = driver
      /\ k.list[endpoint] = <<client>>
      /\ k.state[client] = "SENDING" /\ k.state[driver] = "RUNNING" /\ k.runnable_tcbs = <<>>
      /\ k.panic = NoPanic /\ ~k.expects_reply[client] /\ k.endpoint_badge[client] = {}
  BY DEF Quiet, Sending, Mode, Linked
<1>1. d \in KernelMemory /\ m \in KernelMemory
  <2>1. <<>> \in Seq(Threads)
    OBVIOUS
  <2>2. d \in KernelMemory
    BY <1>0, <2>1, Objects DEF KernelMemory
  <2> QED BY <2>2, Objects, TransferType
<1>2. invoke_endpoint_recv(k, endpoint) = s
  <2>1. ~recv_will_block(k, endpoint) /\ Head(k.list[endpoint]) = client /\ Tail(k.list[endpoint]) = <<>>
    BY <1>0, Single DEF recv_will_block, FirstState
  <2> QED BY <1>0, <2>1
          DEF invoke_endpoint_recv, endpoint_recv, receive_message_from_blocked_sender
<1>3. /\ m.list = [k.list EXCEPT ![endpoint] = <<>>] /\ m.state = k.state
      /\ m.expects_reply = k.expects_reply
      /\ m.sender_badge = [k.sender_badge EXCEPT ![driver] = {}]
      /\ m.current_tcb = driver /\ m.return_to_tcb = driver /\ m.runnable_tcbs = <<>>
      /\ m.server = k.server /\ m.reply_to = k.reply_to /\ m.endpoint_badge = k.endpoint_badge
      /\ m.word = k.word /\ m.bound_tcb = k.bound_tcb /\ m.bound_notification = k.bound_notification
      /\ m.panic = NoPanic
  <2>1. ~d.expects_reply[client]
    BY <1>0 DEF KernelMemory
  <2> QED BY <1>0, <2>1 DEF transfer_message, KernelMemory
<1> HIDE DEF m, d
<1>4. /\ ~OnList(m.runnable_tcbs, client) /\ m.state[client] # "DEAD"
      /\ append_to_list(m.runnable_tcbs, client) = <<client>>
  BY <1>0, <1>3, Single
<1>5. /\ SameObjects(m, s) /\ s.panic = NoPanic
      /\ s.current_tcb = driver /\ s.return_to_tcb = driver
      /\ s.runnable_tcbs = <<client>>
      /\ s.state = [k.state EXCEPT ![client] = "RUNNABLE"]
      /\ s.sender_badge = m.sender_badge
  <2>1. /\ s \in KernelMemory /\ SameObjects(m, s) /\ s.panic = m.panic
        /\ s.current_tcb = m.current_tcb /\ s.return_to_tcb = m.return_to_tcb
        /\ s.runnable_tcbs = <<client>>
        /\ s.state = [m.state EXCEPT ![client] = "RUNNABLE"]
        /\ s.sender_badge = m.sender_badge
    BY ONLY <1>1, <1>4, Objects, ScheduleTcbEffect
  <2> QED BY <1>3, <2>1
<1>6. s.endpoint_badge = m.endpoint_badge
  BY <1>1 DEF schedule_tcb, Panic, KernelMemory
<1> HIDE DEF s
<1>7. k' = s
  BY <1>2, <1>5, Stays DEF SysRecv, Syscall
<1>8. Ready(k')
  BY <1>0, <1>3, <1>5, <1>7, Objects, MemoryTypes DEF Sending, Ready, Mode, Linked, SameObjects
<1>9. Quiet(k')
  BY <1>0, <1>3, <1>5, <1>6, <1>7, Objects, MemoryTypes DEF Quiet, SameObjects
<1>10. Keeps(k, k') /\ k'.sender_badge[driver] = {}
  BY <1>0, <1>3, <1>5, <1>7, Objects, MemberTypes DEF Keeps, SameObjects
<1> QED BY <1>8, <1>9, <1>10

(* The driver takes the message of a queued caller, and owes it an answer. *)
LEMMA RecvCalled ==
  ASSUME Quiet(k), k' \in KernelMemory, Calling(k), ~HasPendingNotification(k),
         SysRecv(endpoint)
  PROVE  Quiet(k') /\ Serving(k') /\ Keeps(k, k') /\ k'.sender_badge[driver] = {}
<1> DEFINE d == [k EXCEPT !.list[endpoint] = <<>>]
           m == transfer_message(d, client, driver, {})
<1>0. /\ k \in KernelMemory /\ k.current_tcb = driver /\ k.return_to_tcb = driver
      /\ k.list[endpoint] = <<client>>
      /\ k.state[client] = "CALLING" /\ k.state[driver] = "RUNNING" /\ k.runnable_tcbs = <<>>
      /\ k.panic = NoPanic /\ k.expects_reply[client] /\ k.endpoint_badge[client] = {}
  BY DEF Quiet, Calling, Mode, Linked
<1>2. invoke_endpoint_recv(k, endpoint) = m
  <2>1. ~recv_will_block(k, endpoint) /\ Head(k.list[endpoint]) = client /\ Tail(k.list[endpoint]) = <<>>
    BY <1>0, Single DEF recv_will_block, FirstState
  <2> QED BY <1>0, <2>1
          DEF invoke_endpoint_recv, endpoint_recv, receive_message_from_blocked_sender
<1>3. /\ m.list = [k.list EXCEPT ![endpoint] = <<>>] /\ m.state = k.state
      /\ m.expects_reply = k.expects_reply
      /\ m.sender_badge = [k.sender_badge EXCEPT ![driver] = {}]
      /\ m.current_tcb = driver /\ m.return_to_tcb = driver /\ m.runnable_tcbs = <<>>
      /\ m.server = [k.server EXCEPT ![client] = driver]
      /\ m.reply_to = [k.reply_to EXCEPT ![driver] = client]
      /\ m.endpoint_badge = k.endpoint_badge
      /\ m.word = k.word /\ m.bound_tcb = k.bound_tcb /\ m.bound_notification = k.bound_notification
      /\ m.panic = NoPanic
  <2>1. d.expects_reply[client] /\ d.state[client] = "CALLING"
    BY <1>0 DEF KernelMemory
  <2> QED BY <1>0, <2>1 DEF transfer_message, KernelMemory
<1> HIDE DEF m, d
<1>7. k' = m
  BY <1>2, <1>3, Stays DEF SysRecv, Syscall
<1>8. Serving(k')
  BY <1>0, <1>3, <1>7, Objects, MemoryTypes, MemberTypes DEF Calling, Serving, Mode, Linked
<1>9. Quiet(k')
  BY <1>0, <1>3, <1>7, Objects, MemoryTypes, MemberTypes DEF Quiet
<1>10. Keeps(k, k') /\ k'.sender_badge[driver] = {}
  BY <1>0, <1>3, <1>7, Objects, MemberTypes DEF Keeps
<1> QED BY <1>8, <1>9, <1>10

(* The driver answers the call. *)
LEMMA ReplyToClient ==
  ASSUME Quiet(k), k' \in KernelMemory, Serving(k), SysReply
  PROVE  Quiet(k') /\ Ready(k') /\ Keeps(k, k')
         /\ k'.sender_badge[driver] = k.sender_badge[driver]
<1> DEFINE m == transfer_message(k, driver, client, {})
           q == schedule_tcb(m, client)
           s == [q EXCEPT !.server[client] = Null]
<1>0. /\ k \in KernelMemory /\ k.current_tcb = driver /\ k.return_to_tcb = driver
      /\ k.reply_to[driver] = client
      /\ k.state[client] = "CALLING" /\ k.state[driver] = "RUNNING" /\ k.runnable_tcbs = <<>>
      /\ k.panic = NoPanic /\ ~k.expects_reply[driver]
  BY DEF Quiet, Serving, Mode, Linked
<1>1. m \in KernelMemory
  BY <1>0, Objects, TransferType
<1>2. invoke_reply(k) = s
  BY <1>0, Objects DEF invoke_reply, send_message_directly
<1>3. /\ m.list = k.list /\ m.state = k.state
      /\ m.expects_reply = k.expects_reply
      /\ m.sender_badge = [k.sender_badge EXCEPT ![client] = {}]
      /\ m.current_tcb = driver /\ m.return_to_tcb = driver /\ m.runnable_tcbs = <<>>
      /\ m.server = k.server /\ m.endpoint_badge = k.endpoint_badge
      /\ m.word = k.word /\ m.bound_tcb = k.bound_tcb /\ m.bound_notification = k.bound_notification
      /\ m.panic = NoPanic
  BY <1>0 DEF transfer_message, KernelMemory
<1> HIDE DEF m
<1>4. /\ ~OnList(m.runnable_tcbs, client) /\ m.state[client] # "DEAD"
      /\ append_to_list(m.runnable_tcbs, client) = <<client>>
  <2>1. m.state[client] = "CALLING" /\ m.runnable_tcbs = <<>>
    BY <1>0, <1>3
  <2> QED BY <2>1, Single
<1>5. /\ q \in KernelMemory
      /\ SameObjects(m, q) /\ q.panic = NoPanic
      /\ q.current_tcb = driver /\ q.return_to_tcb = driver
      /\ q.runnable_tcbs = <<client>>
      /\ q.state = [k.state EXCEPT ![client] = "RUNNABLE"]
      /\ q.sender_badge = m.sender_badge
  <2>1. /\ q \in KernelMemory /\ SameObjects(m, q) /\ q.panic = m.panic
        /\ q.current_tcb = m.current_tcb /\ q.return_to_tcb = m.return_to_tcb
        /\ q.runnable_tcbs = <<client>>
        /\ q.state = [m.state EXCEPT ![client] = "RUNNABLE"]
        /\ q.sender_badge = m.sender_badge
    BY ONLY <1>1, <1>4, Objects, ScheduleTcbEffect
  <2> QED BY <1>3, <2>1
<1>6. q.endpoint_badge = m.endpoint_badge
  BY <1>1 DEF schedule_tcb, Panic, KernelMemory
<1> HIDE DEF q
<1>7. /\ s.list = q.list /\ s.state = q.state /\ s.expects_reply = q.expects_reply
      /\ s.sender_badge = q.sender_badge /\ s.current_tcb = driver
      /\ s.return_to_tcb = driver /\ s.runnable_tcbs = <<client>>
      /\ s.server = [q.server EXCEPT ![client] = Null] /\ s.endpoint_badge = q.endpoint_badge
      /\ s.word = q.word /\ s.bound_tcb = q.bound_tcb
      /\ s.bound_notification = q.bound_notification /\ s.panic = NoPanic
  BY <1>5 DEF KernelMemory
<1> HIDE DEF s
<1>8. k' = s
  BY <1>2, <1>7, Stays DEF SysReply, Syscall
<1>9. Ready(k')
  BY <1>0, <1>3, <1>5, <1>7, <1>8, Objects, MemoryTypes, MemberTypes
     DEF Serving, Ready, Mode, Linked, SameObjects
<1>10. Quiet(k')
  BY <1>0, <1>3, <1>5, <1>6, <1>7, <1>8, Objects, MemoryTypes, MemberTypes
     DEF Quiet, SameObjects
<1>11. Keeps(k, k') /\ k'.sender_badge[driver] = k.sender_badge[driver]
  BY <1>0, <1>3, <1>5, <1>7, <1>8, Objects, MemberTypes DEF Keeps, SameObjects
<1> QED BY <1>9, <1>10, <1>11

(* The driver tells the waiting client that there is something to read: it *)
(* runs at once.                                                           *)
LEMMA SignalWakes ==
  ASSUME Quiet(k), k' \in KernelMemory, Waiting(k), SysSignal(read_ntfn, {})
  PROVE  Quiet(k') /\ ClientFirst(k') /\ Keeps(k, k')
         /\ k'.sender_badge[driver] = k.sender_badge[driver]
<1> DEFINE c == [k EXCEPT !.word[read_ntfn] = {}]
           d == [c EXCEPT !.list[read_ntfn] = <<>>]
           s == signal_waiting_receiver(d, client, {})
<1>0. /\ k \in KernelMemory /\ k.current_tcb = driver /\ k.return_to_tcb = driver
      /\ k.list[read_ntfn] = <<client>> /\ k.word[read_ntfn] = {}
      /\ k.state[client] = "RECEIVING" /\ k.state[driver] = "RUNNING" /\ k.runnable_tcbs = <<>>
      /\ k.panic = NoPanic
  BY Objects DEF Quiet, Waiting, Mode, Linked
<1>1. notification_signal(k, read_ntfn, {}) = s
  <2>1. /\ Head(k.list[read_ntfn]) = client /\ k.list[read_ntfn] # <<>>
        /\ remove_from_list(k.list[read_ntfn], client) = <<>>
    BY <1>0, Single
  <2>2. k.word[read_ntfn] \cup {} = {}
    BY <1>0
  <2> QED BY <2>1, <2>2 DEF notification_signal
<1>2. c \in KernelMemory /\ d \in KernelMemory
  <2>1. <<>> \in Seq(Threads)
    OBVIOUS
  <2>2. c \in KernelMemory
    BY <1>0, Objects DEF KernelMemory
  <2> HIDE DEF c
  <2> QED BY <2>1, <2>2, Objects DEF KernelMemory
<1>3. s \in KernelMemory
  BY <1>2, Objects, SignalWaitingType
<1>4. /\ s.list = [k.list EXCEPT ![read_ntfn] = <<>>] /\ s.state = [k.state EXCEPT ![client] = "RUNNABLE"]
      /\ s.expects_reply = k.expects_reply
      /\ s.sender_badge = [k.sender_badge EXCEPT ![client] = {}]
      /\ s.current_tcb = driver /\ s.return_to_tcb = client /\ s.runnable_tcbs = <<>>
      /\ s.server = k.server /\ s.reply_to = k.reply_to /\ s.endpoint_badge = k.endpoint_badge
      /\ s.word = [k.word EXCEPT ![read_ntfn] = {}] /\ s.bound_tcb = k.bound_tcb
      /\ s.bound_notification = k.bound_notification /\ s.panic = NoPanic
  BY <1>0 DEF signal_waiting_receiver, switch_tcb, KernelMemory
<1>5. s.word = k.word
  <2>1. [k.word EXCEPT ![read_ntfn] = {}] = k.word
    BY <1>0, MemberTypes
  <2> QED BY <1>4, <2>1
<1> HIDE DEF s, d, c
<1>6. LET r == return_from_kernel_code(s)
      IN  /\ Sched(s, r) /\ Cpu(r, client) /\ r.runnable_tcbs = <<driver>>
          /\ r.state = [s.state EXCEPT ![driver] = "RUNNABLE", ![client] = "RUNNING"]
  <2>1. /\ s.state[driver] = "RUNNING" /\ s.state[client] = "RUNNABLE"
        /\ s.current_tcb = driver /\ s.return_to_tcb = client /\ s.runnable_tcbs = <<>>
    BY <1>0, <1>4, Objects, MemoryTypes
  <2> QED BY ONLY <1>3, <2>1, Objects, Preempts
<1>7. k' = return_from_kernel_code(s)
  BY <1>1, <1>4, <1>6, Leaves DEF Sched, SysSignal, Syscall
<1>8. /\ Sched(s, k') /\ Cpu(k', client) /\ k'.runnable_tcbs = <<driver>>
      /\ k'.state = [s.state EXCEPT ![driver] = "RUNNABLE", ![client] = "RUNNING"]
  BY <1>6, <1>7
<1>9. ClientFirst(k')
  BY <1>0, <1>3, <1>4, <1>8, Objects, MemoryTypes
     DEF ClientFirst, Waiting, Mode, Linked, Cpu, Sched, SameObjects
<1>10. Quiet(k')
  BY <1>0, <1>4, <1>5, <1>8, Objects, MemoryTypes DEF Quiet, Cpu, Sched, SameObjects
<1>11. Keeps(k, k') /\ k'.sender_badge[driver] = k.sender_badge[driver]
  BY <1>0, <1>4, <1>5, <1>8, Objects, MemberTypes DEF Keeps, Sched, SameObjects
<1> QED BY <1>9, <1>10, <1>11


(* A signal that finds nobody waiting leaves no trace: the word it is      *)
(* or-ed to stays zero.                                                    *)
LEMMA SignalLost ==
  ASSUME Quiet(k), k' \in KernelMemory, k.list[read_ntfn] = <<>>, SysSignal(read_ntfn, {})
  PROVE  Quiet(k') /\ SameMode(k, k') /\ Keeps(k, k')
         /\ k'.sender_badge[driver] = k.sender_badge[driver]
<1> DEFINE s == [k EXCEPT !.word[read_ntfn] = {}]
<1>0. /\ k \in KernelMemory /\ k.word[read_ntfn] = {} /\ k.bound_tcb[read_ntfn] = Null
      /\ k.panic = NoPanic /\ k.return_to_tcb = k.current_tcb
  BY Objects DEF Quiet
<1>1. notification_signal(k, read_ntfn, {}) = s
  BY <1>0 DEF notification_signal
<1>2. [k.word EXCEPT ![read_ntfn] = {}] = k.word
  BY <1>0, MemberTypes
<1>3. /\ SameMode(k, s)
      /\ s.bound_tcb = k.bound_tcb /\ s.bound_notification = k.bound_notification
      /\ s.word = [k.word EXCEPT ![read_ntfn] = {}] /\ s.sender_badge = k.sender_badge
  BY <1>0 DEF SameMode, KernelMemory
<1> HIDE DEF s
<1>4. k' = s
  BY <1>0, <1>1, <1>3, Stays DEF SysSignal, Syscall, SameMode
<1> QED BY <1>2, <1>3, <1>4 DEF Quiet, SameMode, Keeps

(* The driver is bound to the notification of its interrupt. *)
LEMMA DriverBinds ==
  ASSUME Quiet(k), k' \in KernelMemory, k.bound_tcb[irq_ntfn] = Null,
         TcbBindNotification(driver, irq_ntfn)
  PROVE  /\ Quiet(k') /\ SameMode(k, k') /\ k'.word = k.word
         /\ k'.bound_tcb[irq_ntfn] = driver /\ k'.bound_notification[driver] = irq_ntfn
         /\ k'.sender_badge[driver] = k.sender_badge[driver]
<1> DEFINE s == [k EXCEPT !.bound_notification[driver] = irq_ntfn,
                          !.bound_tcb[irq_ntfn] = driver]
<1>0. k \in KernelMemory /\ k.panic = NoPanic /\ k.return_to_tcb = k.current_tcb
  BY DEF Quiet
<1>1. tcb_bind_notification(k, driver, irq_ntfn) = s
  BY DEF tcb_bind_notification
<1>2. /\ SameMode(k, s) /\ s.word = k.word /\ s.sender_badge = k.sender_badge
      /\ s.bound_notification = [k.bound_notification EXCEPT ![driver] = irq_ntfn]
      /\ s.bound_tcb = [k.bound_tcb EXCEPT ![irq_ntfn] = driver]
  BY <1>0 DEF SameMode, KernelMemory
<1> HIDE DEF s
<1>3. k' = s
  BY <1>0, <1>1, <1>2, Stays DEF TcbBindNotification, Syscall, SameMode
<1>4. Quiet(k')
  BY <1>0, <1>2, <1>3, Objects, MemberTypes DEF Quiet, SameMode
<1> QED BY <1>0, <1>2, <1>3, <1>4, Objects, MemberTypes

-----------------------------------------------------------------------------
(* The driver does not wait: the interrupt is remembered in the word. *)
LEMMA IrqRemembered ==
  ASSUME Quiet(k), k' \in KernelMemory, k.state[driver] # "RECEIVING",
         k.bound_tcb[irq_ntfn] \in {Null, driver},
         Leave(notification_signal(k, irq_ntfn, irq_badge))
  PROVE  /\ Quiet(k') /\ SameMode(k, k')
         /\ k'.bound_tcb = k.bound_tcb /\ k'.bound_notification = k.bound_notification
         /\ k'.word[irq_ntfn] = k.word[irq_ntfn] \cup irq_badge
         /\ k'.sender_badge[driver] = k.sender_badge[driver]
<1> DEFINE w == k.word[irq_ntfn] \cup irq_badge
           s == [k EXCEPT !.word[irq_ntfn] = w]
<1>0. /\ k \in KernelMemory /\ k.panic = NoPanic /\ k.return_to_tcb = k.current_tcb
      /\ k.list[irq_ntfn] = <<>>
  BY Objects DEF Quiet
<1>1. notification_signal(k, irq_ntfn, irq_badge) = s
  BY <1>0 DEF notification_signal
<1>2. /\ SameMode(k, s)
      /\ s.bound_tcb = k.bound_tcb /\ s.bound_notification = k.bound_notification
      /\ s.word = [k.word EXCEPT ![irq_ntfn] = w] /\ s.sender_badge = k.sender_badge
  BY <1>0 DEF SameMode, KernelMemory
<1> HIDE DEF s, w
<1>3. k' = s
  BY <1>0, <1>1, <1>2, Stays DEF SameMode
<1>4. Quiet(k') /\ k'.word[irq_ntfn] = w
  BY <1>0, <1>2, <1>3, Objects, MemberTypes DEF Quiet, SameMode
<1> QED BY <1>2, <1>3, <1>4 DEF w

(* The driver waits at its endpoint, which it leaves; nobody else does. *)
LEMMA IrqWakes ==
  ASSUME Quiet(k), k' \in KernelMemory, ClientRuns(k) \/ Idle(k),
         k.bound_tcb[irq_ntfn] = driver, k.word[irq_ntfn] = {},
         Leave(notification_signal(k, irq_ntfn, irq_badge))
  PROVE  /\ Quiet(k') /\ Keeps(k, k')
         /\ ClientRuns(k) => Ready(k')
         /\ Idle(k) => Waiting(k')
         /\ k'.sender_badge[driver] = irq_badge
<1> DEFINE c == [k EXCEPT !.word[irq_ntfn] = {}]
           l == [o \in Queues |-> remove_from_list(c.list[o], driver)]
           d == [c EXCEPT !.list = l]
           s == signal_waiting_receiver(d, driver, irq_badge)
<1>0. /\ k \in KernelMemory /\ k.panic = NoPanic
      /\ k.current_tcb \in {client, Null}
      /\ k.list[irq_ntfn] = <<>> /\ k.list[endpoint] = <<driver>>
      /\ k.state[driver] = "RECEIVING" /\ k.runnable_tcbs = <<>>
      /\ k.current_tcb = client => k.state[client] = "RUNNING"
  BY Objects DEF Quiet, ClientRuns, Idle, Mode, Linked
<1>1. notification_signal(k, irq_ntfn, irq_badge) = s
  <2>1. k.word[irq_ntfn] \cup irq_badge = irq_badge
    OBVIOUS
  <2> QED BY <1>0, <2>1, Objects
          DEF notification_signal, signal_bound_receiver_waiting_on_something_else
<1>2. c \in KernelMemory /\ c.list = k.list
  BY <1>0, Objects DEF KernelMemory
<1>3. l = [k.list EXCEPT ![endpoint] = <<>>]
  <2> HIDE DEF c
  <2>1. \A o \in Queues : k.list[o] = IF o = endpoint THEN <<driver>>
                                     ELSE IF o = read_ntfn /\ k.current_tcb = Null THEN <<client>>
                                     ELSE <<>>
    BY Objects DEF Quiet, ClientRuns, Idle, Mode, Linked
  <2>2. /\ remove_from_list(<<driver>>, driver) = <<>>
        /\ remove_from_list(<<>>, driver) = <<>>
        /\ remove_from_list(<<client>>, driver) = <<client>>
    <3>1. ~OnList(<<client>>, driver)
      BY Objects DEF OnList
    <3>2. remove_from_list(<<driver>>, driver) = <<>> /\ remove_from_list(<<>>, driver) = <<>>
      BY Single
    <3> QED BY <3>1, <3>2 DEF remove_from_list
  <2>3. \A o \in Queues : l[o] = [k.list EXCEPT ![endpoint] = <<>>][o]
    BY <1>0, <1>2, <2>1, <2>2, MemoryTypes
  <2> QED BY <1>0, <2>3, MemoryTypes
<1> HIDE DEF l
<1>4. d \in KernelMemory /\ s \in KernelMemory
  <2>1. l \in [Queues -> Seq(Threads)]
    <3>1. <<>> \in Seq(Threads)
      OBVIOUS
    <3> QED BY <1>0, <1>3, <3>1, MemoryTypes
  <2>2. d \in KernelMemory
    <3> HIDE DEF c
    <3> QED BY <1>2, <2>1 DEF KernelMemory
  <2> QED BY <2>2, Objects, SerialAssumption, SignalWaitingType
<1>5. /\ s.list = [k.list EXCEPT ![endpoint] = <<>>]
      /\ s.state = [k.state EXCEPT ![driver] = "RUNNABLE"]
      /\ s.expects_reply = k.expects_reply
      /\ s.sender_badge = [k.sender_badge EXCEPT ![driver] = irq_badge]
      /\ s.current_tcb = k.current_tcb /\ s.return_to_tcb = driver /\ s.runnable_tcbs = <<>>
      /\ s.server = k.server /\ s.reply_to = k.reply_to /\ s.endpoint_badge = k.endpoint_badge
      /\ s.word = [k.word EXCEPT ![irq_ntfn] = {}] /\ s.bound_tcb = k.bound_tcb
      /\ s.bound_notification = k.bound_notification /\ s.panic = NoPanic
  BY <1>0, <1>3 DEF signal_waiting_receiver, switch_tcb, KernelMemory
<1>6. s.word = k.word
  <2>1. [k.word EXCEPT ![irq_ntfn] = {}] = k.word
    BY <1>0, MemberTypes
  <2> QED BY <1>5, <2>1
<1> HIDE DEF s, d, c
<1>7. s.state[driver] = "RUNNABLE" /\ s.state[client] = k.state[client]
  BY <1>0, <1>5, Objects, MemoryTypes
<1>8. CASE ClientRuns(k)
  <2>1. /\ k.current_tcb = client /\ k.state[client] = "RUNNING"
    BY <1>8 DEF ClientRuns, Mode
  <2>2. LET r == return_from_kernel_code(s)
        IN  /\ Sched(s, r) /\ Cpu(r, driver) /\ r.runnable_tcbs = <<client>>
            /\ r.state = [s.state EXCEPT ![client] = "RUNNABLE", ![driver] = "RUNNING"]
    <3>1. /\ s.state[client] = "RUNNING" /\ s.state[driver] = "RUNNABLE"
          /\ s.current_tcb = client /\ s.return_to_tcb = driver /\ s.runnable_tcbs = <<>>
      BY <1>5, <1>7, <2>1
    <3> QED BY ONLY <1>4, <3>1, Objects, Preempts
  <2>3. k' = return_from_kernel_code(s)
    BY <1>1, <1>5, <2>2, Leaves DEF Sched
  <2>4. /\ Sched(s, k') /\ Cpu(k', driver) /\ k'.runnable_tcbs = <<client>>
        /\ k'.state = [s.state EXCEPT ![client] = "RUNNABLE", ![driver] = "RUNNING"]
    BY <2>2, <2>3
  <2>5. Ready(k') /\ ~Idle(k)
    BY <1>0, <1>4, <1>5, <1>8, <2>1, <2>4, Objects, MemoryTypes
       DEF ClientRuns, Ready, Idle, Mode, Linked, Cpu, Sched, SameObjects
  <2>6. Quiet(k')
    BY <1>0, <1>5, <1>6, <2>4, Objects, MemoryTypes DEF Quiet, Cpu, Sched, SameObjects
  <2>7. Keeps(k, k') /\ k'.sender_badge[driver] = irq_badge
    BY <1>0, <1>5, <1>6, <2>4, Objects, MemberTypes DEF Keeps, Sched, SameObjects
  <2> QED BY <2>5, <2>6, <2>7
<1>9. CASE Idle(k)
  <2>1. k.current_tcb = Null
    BY <1>9 DEF Idle, Mode
  <2>2. LET r == return_from_kernel_code(s)
        IN  /\ Sched(s, r) /\ Cpu(r, driver) /\ r.runnable_tcbs = s.runnable_tcbs
            /\ r.state = [s.state EXCEPT ![driver] = "RUNNING"]
    <3>1. /\ s.state[driver] = "RUNNABLE" /\ s.current_tcb = Null
          /\ s.current_tcb # driver /\ s.return_to_tcb = driver
      BY <1>5, <1>7, <2>1, Objects
    <3> QED BY ONLY <1>4, <3>1, Objects, SwitchesTo
  <2>3. k' = return_from_kernel_code(s)
    BY <1>1, <1>5, <2>2, Leaves DEF Sched
  <2>4. /\ Sched(s, k') /\ Cpu(k', driver) /\ k'.runnable_tcbs = s.runnable_tcbs
        /\ k'.state = [s.state EXCEPT ![driver] = "RUNNING"]
    BY <2>2, <2>3
  <2>5. Waiting(k') /\ ~ClientRuns(k)
    BY <1>0, <1>4, <1>5, <1>9, <2>1, <2>4, Objects, MemoryTypes
       DEF ClientRuns, Waiting, Idle, Mode, Linked, Cpu, Sched, SameObjects
  <2>6. Quiet(k')
    BY <1>0, <1>5, <1>6, <2>4, Objects, MemoryTypes DEF Quiet, Cpu, Sched, SameObjects
  <2>7. Keeps(k, k') /\ k'.sender_badge[driver] = irq_badge
    BY <1>0, <1>5, <1>6, <2>4, Objects, MemberTypes DEF Keeps, Sched, SameObjects
  <2> QED BY <2>5, <2>6, <2>7
<1> QED BY <1>8, <1>9


-----------------------------------------------------------------------------
(* What holds when the driver runs, and when the client does. *)
LEMMA DriverCases ==
  ASSUME ModeInv, this_tcb = driver
  PROVE  /\ k.state[driver] = "RUNNING"
         /\ \/ /\ Sending(k) /\ DriverBusy /\ Reading
               /\ mr[client].label = WRITE /\ mr[client].regs # <<>>
            \/ Calling(k) /\ DriverBusy /\ pc[client] = "answer" /\ mr[client].label = READ
            \/ Serving(k) /\ HasMessage(READ) /\ pc[client] = "answer"
            \/ Waiting(k) /\ DriverBusy /\ pc[client] = "read"
            \/ Ready(k) /\ DriverBusy /\ (Reading \/ pc[client] = "answer") /\ Answered
            \/ Ready(k) /\ HasMessage(WRITE) /\ Reading /\ mr[driver].regs # <<>>
            \/ Ready(k) /\ pc[driver] = "write" /\ Reading /\ local # <<>>
<1>1. ~Booting(k) /\ ~ClientFirst(k) /\ ~ClientRuns(k) /\ ~Idle(k)
  BY Objects DEF Booting, ClientFirst, ClientRuns, Idle, Mode, this_tcb
<1>2. Sending(k) \/ Calling(k) \/ Serving(k) \/ Waiting(k) \/ Ready(k) => k.state[driver] = "RUNNING"
  BY DEF Sending, Calling, Serving, Waiting, Ready, Mode
<1> QED BY <1>1, <1>2 DEF ModeInv

(* Where the client can be while it runs. *)
LEMMA ClientCases ==
  ASSUME ModeInv, this_tcb = client
  PROVE  \/ Booting(k) /\ pc[driver] = "uart" /\ pc[client] \in {"issue", "spawn"}
         \/ ClientFirst(k) /\ pc[driver] \in {"uart", "outer"} /\ Reading
         \/ /\ ClientRuns(k) /\ pc[driver] = "dispatch"
            /\ (Reading \/ pc[client] = "answer") /\ Answered
<1>1. /\ ~Sending(k) /\ ~Calling(k) /\ ~Serving(k) /\ ~Waiting(k) /\ ~Ready(k) /\ ~Idle(k)
  BY Objects DEF Sending, Calling, Serving, Waiting, Ready, Idle, Mode, this_tcb
<1> QED BY <1>1 DEF ModeInv

(* The driver at its receive has answered every call it took. *)
LEMMA DriverFree ==
  ASSUME Quiet(k), ModeInv, Runs(driver, "recv")
  PROVE  OwesNothing
<1>2. k.server[client] = Null
  BY DriverCases DEF Runs, HasMessage, Sending, Calling, Waiting, Ready
<1> QED BY <1>2, Objects DEF OwesNothing, Owes, Quiet, Runs

(* Each step of the two programs keeps to the kernel's contract, or does   *)
(* not concern the kernel.                                                 *)
LEMMA ContractStep ==
  ASSUME SerialInv, [SerialNext]_allvars
  PROVE  [ClientNext]_vars
<1>0. Quiet(k) /\ ModeInv /\ LineInv
  BY DEF SerialInv
<1>1. CASE Driver
  <2>1. CASE InitializeUart \/ OuterLoop \/ InnerLoop \/ ReadData \/ WriteFirst \/ WriteRest
    BY <2>1 DEF InitializeUart, OuterLoop, InnerLoop, ReadData, WriteFirst, WriteRest,
                WriteBytes, PortCall, vars
  <2>2. CASE Attach
    <3>1. MayAttach(irq) /\ IrqHandlerSetNotification(irq, irq_ntfn, irq_badge)
      BY <1>0, <2>2 DEF Attach, MayAttach, LineInv, Runs
    <3> QED BY <3>1, Objects, SerialAssumption DEF ClientNext
  <2>3. CASE Bind
    <3>1. MayBind(driver, irq_ntfn) /\ TcbBindNotification(driver, irq_ntfn)
      BY <1>0, <2>3, Objects, DriverCases DEF Bind, MayBind, LineInv, Runs, Setup, Quiet
    <3> QED BY <3>1, Objects DEF ClientNext
  <2>4. CASE Recv
    BY <1>0, <2>4, Objects, DriverFree DEF Recv, ClientNext
  <2>5. CASE SignalReader
    BY <2>5, Objects DEF SignalReader, ClientNext
  <2>6. CASE Ack
    BY <2>6, SerialAssumption DEF Ack, ClientNext
  <2>7. CASE ReadUart
    <3>1. SysReply /\ InUserMode /\ this_tcb = driver /\ Received(READ)
      BY <2>7 DEF ReadUart, SysReply, Syscall, Received, Runs
    <3>2. Serving(k)
      BY <1>0, <3>1, DriverCases DEF Received, Runs, DriverBusy, HasMessage, READ, WRITE,
         Setup, Loop
    <3>3. OwesReply
      BY <3>1, <3>2, Objects DEF OwesReply, OwesNothing, Owes, Serving, Mode
    <3> QED BY <3>1, <3>3 DEF ClientNext
  <2> QED BY <1>1, <2>1, <2>2, <2>3, <2>4, <2>5, <2>6, <2>7 DEF Driver
<1>2. CASE Client
  <2>1. CASE IssueIrq
    BY <2>1, SerialAssumption DEF IssueIrq, ClientNext
  <2>2. CASE SpawnDriver
    <3>1. Booting(k)
      BY <1>0, <2>2, ClientCases DEF SpawnDriver, Runs, Reading
    <3>2. \A o \in Queues : k.list[o] = <<>>
      BY <1>0, <3>1 DEF Quiet, Booting, Linked
    <3>3. Inactive(driver)
      BY <3>1, <3>2, Objects, NobodyQueued, Single
         DEF Inactive, Booting, Mode, Linked, this_tcb
    <3> QED BY <2>2, <3>3, Objects DEF SpawnDriver, ClientNext
  <2>3. CASE PrintToSerial \/ SendBack
    BY <2>3, Objects DEF PrintToSerial, SendBack, Send, ClientNext
  <2>4. CASE ReadSerial \/ WaitForData
    <3>1. this_tcb = client /\ InUserMode
      BY <2>4 DEF ReadSerial, WaitForData, SysCall, SysWait, Syscall, Runs
    <3>2. k.server[client] = Null /\ k.server[driver] = Null
      BY <1>0, <3>1, ClientCases DEF Quiet, Booting, ClientFirst, ClientRuns
    <3>3. OwesNothing
      BY <3>1, <3>2, Objects DEF OwesNothing, Owes
    <3>4. MayWaitOn(read_ntfn)
      BY <1>0, <3>1, Objects DEF MayWaitOn, Quiet
    <3> QED BY <2>4, <3>1, <3>3, <3>4, Objects DEF ReadSerial, WaitForData, ClientNext
  <2> QED BY <1>2, <2>1, <2>2, <2>3, <2>4 DEF Client
<1>3. CASE \E b \in Bytes : TypeByte(b)
  BY <1>3 DEF TypeByte, vars
<1>4. CASE RaiseInterrupt
  BY <1>4, SerialAssumption DEF RaiseInterrupt, ClientNext
<1>5. CASE Timeout \/ RaiseAgain
  BY <1>5 DEF Timeout, RaiseAgain, vars
<1>6. CASE UNCHANGED allvars
  BY <1>6 DEF allvars, vars
<1> QED BY <1>1, <1>2, <1>3, <1>4, <1>5, <1>6 DEF SerialNext


-----------------------------------------------------------------------------
(* The bytes. *)

(* The stream that is due: the greeting, then the capitals. *)
LEMMA DueFacts ==
  ASSUME NEW ty \in Seq(Chars)
  PROVE  /\ Len(Greeting) \in Nat /\ Len(ty) \in Nat
         /\ DueOf(ty) \in Seq(Chars) /\ Len(DueOf(ty)) = Len(Greeting) + Len(ty)
         /\ \A i \in 1..Len(Greeting) : DueOf(ty)[i] = Greeting[i]
         /\ \A i \in 1..Len(ty) : DueOf(ty)[Len(Greeting) + i] = Capital[ty[i]]
<1> DEFINE c == [i \in DOMAIN ty |-> Capital[ty[i]]]
<1>1. Greeting \in Seq(Chars) /\ Capital \in [Chars -> Chars]
  BY SerialAssumption DEF Chars
<1>2. c \in Seq(Chars) /\ Len(c) = Len(ty) /\ \A i \in 1..Len(ty) : c[i] = Capital[ty[i]]
  BY <1>1
<1> DEFINE D == Greeting \o c
<1>3. D = DueOf(ty)
  BY DEF DueOf
<1> HIDE DEF c
<1>4. /\ D \in Seq(Chars) /\ Len(D) = Len(Greeting) + Len(c)
      /\ \A i \in 1..Len(Greeting) : D[i] = Greeting[i]
  BY <1>1, <1>2
<1>5. Len(Greeting) \in Nat /\ Len(ty) \in Nat
  BY <1>1
<1>6. \A i \in 1..Len(c) : D[Len(Greeting) + i] = c[i]
  BY <1>1, <1>2
<1> HIDE DEF D
<1> QED BY <1>2, <1>3, <1>4, <1>5, <1>6

(* One byte leaves: it is the one that is due. *)
LEMMA FlowEmits ==
  ASSUME NEW out \in Seq(Chars), NEW p \in Seq(Chars), NEW a \in Seq(Chars),
         NEW buf \in Seq(Chars), NEW ff \in Seq(Chars), NEW ty \in Seq(Chars), NEW n,
         Flow(out, p, a, buf, ff, ty, n), p # <<>>
  PROVE  /\ Flow(Append(out, Head(p)), Tail(p), a, buf, ff, ty, n)
         /\ Len(out) < Len(DueOf(ty)) /\ Head(p) = DueOf(ty)[Len(out) + 1]
<1> DEFINE D == DueOf(ty)
           q == Tail(p)
           o == Append(out, Head(p))
<1>1. D \in Seq(Chars) /\ Len(D) = Len(Greeting) + Len(ty) /\ Len(Greeting) \in Nat
  BY DueFacts
<1>2. /\ Head(p) = p[1] /\ q \in Seq(Chars) /\ Len(q) = Len(p) - 1 /\ Len(p) >= 1
      /\ \A i \in 1..Len(q) : q[i] = p[i + 1]
      /\ Head(p) \in Chars
  OBVIOUS
<1>3. /\ o \in Seq(Chars) /\ Len(o) = Len(out) + 1
      /\ \A i \in 1..Len(out) : o[i] = out[i]
      /\ o[Len(out) + 1] = Head(p)
  BY <1>2
<1> HIDE DEF D, o, q
<1>4. Head(p) = D[Len(out) + 1]
  BY <1>2 DEF Flow, Window, D
<1>5. Len(out) < Len(D)
  BY <1>1, <1>2 DEF Flow
<1>6. Window(o, D, 0)
  <2> SUFFICES ASSUME NEW i \in 1..Len(o) PROVE o[i] = D[0 + i]
    BY DEF Window
  <2>1. CASE i \in 1..Len(out)
    BY <1>3, <2>1 DEF Flow, Window, D
  <2>2. CASE i = Len(out) + 1
    BY <1>3, <1>4, <2>2
  <2> QED BY <1>3, <2>1, <2>2
<1>7. Window(q, D, Len(o))
  <2> SUFFICES ASSUME NEW i \in 1..Len(q) PROVE q[i] = D[Len(o) + i]
    BY DEF Window
  <2>1. \A j \in 1..Len(p) : p[j] = D[Len(out) + j]
    BY DEF Flow, Window, D
  <2>2. i + 1 \in 1..Len(p) /\ Len(out) + (i + 1) = Len(o) + i
    BY <1>2, <1>3
  <2> QED BY <1>2, <2>1, <2>2
<1>8. Flow(o, q, a, buf, ff, ty, n)
  <2>1. Len(o) + Len(q) = Len(out) + Len(p)
    BY <1>2, <1>3
  <2> QED BY <1>2, <1>6, <1>7, <2>1 DEF Flow, D
<1> QED BY <1>4, <1>5, <1>8 DEF D, o, q

(* handle_irq moves one byte from the UART to the buffer. *)
LEMMA FlowReads ==
  ASSUME NEW out \in Seq(Chars), NEW p \in Seq(Chars), NEW a \in Seq(Chars),
         NEW buf \in Seq(Chars), NEW ff \in Seq(Chars), NEW ty \in Seq(Chars), NEW n,
         Flow(out, p, a, buf, ff, ty, n), ff # <<>>
  PROVE  Flow(out, p, a, Append(buf, Head(ff)), Tail(ff), ty, n)
<1> DEFINE h == Len(ty) - (Len(a) + Len(buf) + Len(ff))
           q == Tail(ff)
           c == Append(buf, Head(ff))
<1>1. /\ Len(ty) \in Nat /\ Len(a) \in Nat /\ Len(buf) \in Nat /\ Len(ff) \in Nat
  OBVIOUS
<1>2. /\ Head(ff) = ff[1] /\ q \in Seq(Chars) /\ Len(q) = Len(ff) - 1 /\ Len(ff) >= 1
      /\ \A i \in 1..Len(q) : q[i] = ff[i + 1]
      /\ Head(ff) \in Chars
  OBVIOUS
<1>3. /\ c \in Seq(Chars) /\ Len(c) = Len(buf) + 1
      /\ \A i \in 1..Len(buf) : c[i] = buf[i]
      /\ c[Len(buf) + 1] = Head(ff)
  BY <1>2
<1> HIDE DEF q, c
<1>4. h \in Nat /\ h = Len(ty) - (Len(a) + Len(c) + Len(q))
  BY <1>1, <1>2, <1>3 DEF Flow
<1>5. Window(buf, ty, h + Len(a)) /\ Window(ff, ty, h + Len(a) + Len(buf))
  BY DEF Flow
<1> HIDE DEF h
<1>6. Window(c, ty, h + Len(a))
  <2> SUFFICES ASSUME NEW i \in 1..Len(c) PROVE c[i] = ty[h + Len(a) + i]
    BY DEF Window
  <2>1. CASE i \in 1..Len(buf)
    BY <1>3, <1>5, <2>1 DEF Window
  <2>2. CASE i = Len(buf) + 1
    <3>1. h + Len(a) + Len(buf) + 1 = h + Len(a) + i /\ 1 \in 1..Len(ff)
      BY <1>1, <1>2, <1>4, <2>2
    <3>2. ff[1] = ty[h + Len(a) + Len(buf) + 1]
      BY <1>5, <3>1 DEF Window
    <3> QED BY <1>2, <1>3, <2>2, <3>1, <3>2
  <2> QED BY <1>1, <1>3, <2>1, <2>2
<1>7. Window(q, ty, h + Len(a) + Len(c))
  <2> SUFFICES ASSUME NEW i \in 1..Len(q) PROVE q[i] = ty[h + Len(a) + Len(c) + i]
    BY DEF Window
  <2>1. i + 1 \in 1..Len(ff) /\ h + Len(a) + Len(buf) + (i + 1) = h + Len(a) + Len(c) + i
    BY <1>1, <1>2, <1>3, <1>4
  <2>2. ff[i + 1] = ty[h + Len(a) + Len(buf) + (i + 1)]
    BY <1>5, <2>1 DEF Window
  <2> QED BY <1>2, <2>1, <2>2
<1>8. Flow(out, p, a, c, q, ty, n)
  BY <1>4, <1>6, <1>7 DEF Flow, h
<1> QED BY <1>8 DEF c, q

(* read_uart hands the whole buffer to the client. *)
LEMMA FlowAnswers ==
  ASSUME NEW out \in Seq(Chars), NEW p \in Seq(Chars),
         NEW buf \in Seq(Chars), NEW ff \in Seq(Chars), NEW ty \in Seq(Chars), NEW n,
         Flow(out, p, <<>>, buf, ff, ty, n)
  PROVE  Flow(out, p, buf, <<>>, ff, ty, n)
<1>1. Len(<<>>) = 0 /\ <<>> \in Seq(Chars) /\ Len(buf) \in Nat /\ Len(ff) \in Nat /\ Len(ty) \in Nat
  OBVIOUS
<1> QED BY <1>1 DEF Flow, Window

(* print_to_serial sends the next byte of the greeting. *)
LEMMA FlowPrints ==
  ASSUME NEW out \in Seq(Chars),
         NEW buf \in Seq(Chars), NEW ff \in Seq(Chars), NEW ty \in Seq(Chars), NEW n,
         Flow(out, <<>>, <<>>, buf, ff, ty, n), n < Len(Greeting)
  PROVE  Flow(out, <<Greeting[n + 1]>>, <<>>, buf, ff, ty, n + 1)
<1>1. Len(<<>>) = 0 /\ <<>> \in Seq(Chars) /\ Len(buf) \in Nat /\ Len(ff) \in Nat /\ Len(ty) \in Nat
      /\ Len(out) \in Nat
  OBVIOUS
<1>2. /\ Len(Greeting) \in Nat /\ Greeting \in Seq(Chars)
      /\ \A i \in 1..Len(Greeting) : DueOf(ty)[i] = Greeting[i]
  BY DueFacts, SerialAssumption DEF Chars
<1>3. n \in Nat /\ Len(out) = n /\ Len(ty) = Len(<<>>) + Len(buf) + Len(ff)
  BY <1>1, <1>2 DEF Flow
<1>4. DueOf(ty)[n + 1] = Greeting[n + 1] /\ Greeting[n + 1] \in Chars
  BY <1>2, <1>3
<1>5. /\ <<Greeting[n + 1]>> \in Seq(Chars) /\ Len(<<Greeting[n + 1]>>) = 1
      /\ <<Greeting[n + 1]>>[1] = Greeting[n + 1]
  BY <1>4
<1>6. Window(<<Greeting[n + 1]>>, DueOf(ty), Len(out))
  BY <1>3, <1>4, <1>5 DEF Window
<1> QED BY <1>1, <1>2, <1>3, <1>5, <1>6 DEF Flow

(* The client sends the capitals of the bytes it read. *)
LEMMA FlowSendsBack ==
  ASSUME NEW out \in Seq(Chars), NEW a \in Seq(Chars),
         NEW buf \in Seq(Chars), NEW ff \in Seq(Chars), NEW ty \in Seq(Chars),
         Flow(out, <<>>, a, buf, ff, ty, Len(Greeting))
  PROVE  /\ Flow(out, Capitalize(a), <<>>, buf, ff, ty, Len(Greeting))
         /\ Capitalize(a) \in Seq(Chars) /\ Len(Capitalize(a)) = Len(a)
<1> DEFINE g == Len(Greeting)
           h == Len(ty) - (Len(a) + Len(buf) + Len(ff))
<1>1. Len(<<>>) = 0 /\ <<>> \in Seq(Chars) /\ Len(buf) \in Nat /\ Len(ff) \in Nat /\ Len(ty) \in Nat
      /\ Len(out) \in Nat /\ Len(a) \in Nat
  OBVIOUS
<1>2. /\ g \in Nat
      /\ \A i \in 1..Len(ty) : DueOf(ty)[g + i] = Capital[ty[i]]
  BY DueFacts
<1>3. /\ Capitalize(a) \in Seq(Chars) /\ Len(Capitalize(a)) = Len(a)
      /\ \A i \in 1..Len(a) : Capitalize(a)[i] = Capital[a[i]]
  <2>1. Capital \in [Chars -> Chars]
    BY SerialAssumption DEF Chars
  <2> QED BY <2>1 DEF Capitalize
<1>4. h >= 0 /\ Len(out) = g + h /\ Window(a, ty, h)
  BY <1>1, <1>2 DEF Flow
<1>5. Window(Capitalize(a), DueOf(ty), Len(out))
  <2> SUFFICES ASSUME NEW i \in 1..Len(a) PROVE Capitalize(a)[i] = DueOf(ty)[Len(out) + i]
    BY <1>3 DEF Window
  <2>1. h + i \in 1..Len(ty) /\ h + i \in Nat
    BY <1>1, <1>4
  <2>2. a[i] = ty[h + i]
    BY <1>4 DEF Window
  <2>3. Len(out) + i = g + (h + i)
    BY <1>1, <1>2, <1>4
  <2> HIDE DEF g, h
  <2>4. DueOf(ty)[g + (h + i)] = Capital[ty[h + i]]
    BY <1>2, <2>1
  <2> QED BY <1>3, <2>2, <2>3, <2>4
<1>6. Window(buf, ty, h + Len(a)) /\ Window(ff, ty, h + Len(a) + Len(buf))
  BY DEF Flow
<1>7. /\ Len(ty) - (Len(<<>>) + Len(buf) + Len(ff)) = h + Len(a)
      /\ h + Len(a) + Len(<<>>) = h + Len(a)
      /\ Len(out) + Len(Capitalize(a)) = g + (h + Len(a)) /\ h + Len(a) >= 0
  BY <1>1, <1>2, <1>3, <1>4
<1>8. Window(<<>>, ty, h + Len(a)) /\ Window(out, DueOf(ty), 0)
  BY <1>1 DEF Window, Flow
<1> DEFINE c == Capitalize(a)
           e == h + Len(a)
<1>9. /\ c \in Seq(Chars) /\ g \in 0..g /\ e >= 0 /\ Len(out) + Len(c) = g + e
      /\ e = Len(ty) - (Len(<<>>) + Len(buf) + Len(ff))
      /\ Window(c, DueOf(ty), Len(out)) /\ Window(<<>>, ty, e)
      /\ e + Len(<<>>) = e
      /\ Window(buf, ty, e) /\ Window(ff, ty, e + Len(buf))
  BY <1>1, <1>2, <1>3, <1>5, <1>6, <1>7, <1>8
<1> HIDE DEF c, e
<1>10. Flow(out, c, <<>>, buf, ff, ty, Len(Greeting))
  BY <1>1, <1>8, <1>9 DEF Flow
<1> QED BY <1>3, <1>10 DEF c

(* A byte is typed. *)
LEMMA FlowTypes ==
  ASSUME NEW out \in Seq(Chars), NEW p \in Seq(Chars), NEW a \in Seq(Chars),
         NEW buf \in Seq(Chars), NEW ff \in Seq(Chars), NEW ty \in Seq(Chars), NEW n,
         NEW b \in Chars, Flow(out, p, a, buf, ff, ty, n)
  PROVE  Flow(out, p, a, buf, Append(ff, b), Append(ty, b), n)
<1> DEFINE g == Len(Greeting)
           h == Len(ty) - (Len(a) + Len(buf) + Len(ff))
           ty2 == Append(ty, b)
           ff2 == Append(ff, b)
<1>1. /\ ty2 \in Seq(Chars) /\ Len(ty2) = Len(ty) + 1
      /\ \A i \in 1..Len(ty) : ty2[i] = ty[i]
      /\ ty2[Len(ty) + 1] = b
      /\ ff2 \in Seq(Chars) /\ Len(ff2) = Len(ff) + 1
      /\ \A i \in 1..Len(ff) : ff2[i] = ff[i]
      /\ ff2[Len(ff) + 1] = b
  OBVIOUS
<1>2. /\ g \in Nat /\ Len(ty) \in Nat /\ Len(ff) \in Nat /\ Len(buf) \in Nat /\ Len(a) \in Nat
      /\ Len(out) \in Nat /\ Len(p) \in Nat
  BY DueFacts
<1> HIDE DEF ty2, ff2, g
<1>3. \A i \in 1..(g + Len(ty)) : DueOf(ty2)[i] = DueOf(ty)[i]
  <2> SUFFICES ASSUME NEW i \in 1..(g + Len(ty)) PROVE DueOf(ty2)[i] = DueOf(ty)[i]
    OBVIOUS
  <2>1. CASE i \in 1..g
    BY <1>1, <2>1, DueFacts DEF g
  <2>2. CASE i > g
    <3> DEFINE j == i - g
    <3>1. j \in 1..Len(ty) /\ j \in 1..Len(ty2) /\ i = g + j
      BY <1>1, <1>2, <2>2
    <3> HIDE DEF j
    <3>2. DueOf(ty2)[g + j] = Capital[ty2[j]] /\ DueOf(ty)[g + j] = Capital[ty[j]]
      BY <1>1, <3>1, DueFacts DEF g
    <3> QED BY <1>1, <3>1, <3>2
  <2> QED BY <1>2, <2>1, <2>2
<1>4. h = Len(ty2) - (Len(a) + Len(buf) + Len(ff2)) /\ h \in Nat
  BY <1>1, <1>2 DEF Flow
<1>5. /\ n \in Nat /\ n <= g /\ Len(out) + Len(p) = n + h
      /\ Len(ty) = h + Len(a) + Len(buf) + Len(ff)
      /\ Window(out, DueOf(ty), 0) /\ Window(p, DueOf(ty), Len(out))
      /\ Window(a, ty, h) /\ Window(buf, ty, h + Len(a))
      /\ Window(ff, ty, h + Len(a) + Len(buf))
  BY <1>2 DEF Flow, g
<1>6. n < g => h = 0
  BY DEF Flow, g
<1> HIDE DEF h
<1>11. /\ h \in Nat /\ n \in Nat /\ n <= g /\ Len(out) + Len(p) = n + h
       /\ Len(ty) = h + Len(a) + Len(buf) + Len(ff)
  BY <1>4, <1>5
<1>7. Window(out, DueOf(ty2), 0) /\ Window(p, DueOf(ty2), Len(out))
  <2>1. \A i \in 1..Len(out) : 0 + i \in 1..(g + Len(ty))
    BY ONLY <1>2, <1>11
  <2>2. \A i \in 1..Len(p) : Len(out) + i \in 1..(g + Len(ty))
    BY ONLY <1>2, <1>11
  <2> QED BY <1>3, <1>5, <2>1, <2>2 DEF Window
<1>8. Window(a, ty2, h) /\ Window(buf, ty2, h + Len(a))
  <2>1. \A i \in 1..Len(a) : h + i \in 1..Len(ty)
    BY ONLY <1>2, <1>11
  <2>2. \A i \in 1..Len(buf) : h + Len(a) + i \in 1..Len(ty)
    BY ONLY <1>2, <1>11
  <2> QED BY <1>1, <1>5, <2>1, <2>2 DEF Window
<1>9. Window(ff2, ty2, h + Len(a) + Len(buf))
  <2> SUFFICES ASSUME NEW i \in 1..Len(ff2)
               PROVE  ff2[i] = ty2[h + Len(a) + Len(buf) + i]
    BY DEF Window
  <2>1. CASE i \in 1..Len(ff)
    <3>1. h + Len(a) + Len(buf) + i \in 1..Len(ty)
      BY <1>2, <1>4, <1>5, <2>1
    <3> QED BY <1>1, <1>5, <2>1, <3>1 DEF Window
  <2>2. CASE i = Len(ff) + 1
    <3>1. h + Len(a) + Len(buf) + i = Len(ty) + 1
      BY <1>2, <1>4, <1>5, <2>2
    <3> QED BY <1>1, <2>2, <3>1
  <2> QED BY <1>1, <1>2, <2>1, <2>2
<1>10. Flow(out, p, a, buf, ff2, ty2, n)
  BY <1>2, <1>4, <1>5, <1>6, <1>7, <1>8, <1>9 DEF Flow, g
<1> QED BY <1>10 DEF ff2, ty2


-----------------------------------------------------------------------------
(* The invariant, action by action. *)

(* The driver goes on at a place where it looks at no message. *)
LEMMA BusyMoves ==
  ASSUME ModeInv, this_tcb = driver, DriverBusy, SameMode(k, k'),
         mr'[client] = mr[client], pc'[client] = pc[client], DriverBusy'
  PROVE  ModeInv' /\ Outgoing' = Outgoing /\ Answer' = Answer
<1>1. DriverBusy' /\ pc'[driver] # "write" /\ ~HasMessage(WRITE)'
  BY DEF DriverBusy, HasMessage, Setup, Loop
<1>2. pc[driver] # "write" /\ ~HasMessage(WRITE) /\ ~HasMessage(READ)
  BY DEF DriverBusy, HasMessage, Setup, Loop
<1>3. /\ Sending(k') <=> Sending(k)
      /\ Calling(k') <=> Calling(k)
      /\ Waiting(k') <=> Waiting(k)
      /\ Ready(k') <=> Ready(k)
      /\ k'.state = k.state
  BY ModeKept DEF SameMode
<1>4. (Reading' <=> Reading) /\ (Answered' <=> Answered)
  BY DEF Reading, Answered
<1>5. ModeInv'
  BY <1>1, <1>2, <1>3, <1>4, DriverCases DEF ModeInv
<1>6. Outgoing' = Outgoing
  BY <1>1, <1>2, <1>3 DEF Outgoing
<1>7. Answer' = Answer
  BY <1>3 DEF Answer
<1> QED BY <1>5, <1>6, <1>7

(* A step that moves no byte. *)
LEMMA FlowStays ==
  ASSUME FlowInv, UNCHANGED <<output, buffer, fifo, typed, sent>>,
         Outgoing' = Outgoing, Answer' = Answer
  PROVE  FlowInv'
BY DEF FlowInv

(* A step that neither moves the client nor sends of the greeting. *)
LEMMA SentStays ==
  ASSUME SentInv, pc'[client] = pc[client], sent' = sent
  PROVE  SentInv'
BY DEF SentInv

(* The messages. *)
LEMMA MessageTypes ==
  /\ \A label \in Labels, regs \in Seq(Registers) :
       Message(label, regs) \in [label: Labels, regs: Seq(Registers)]
  /\ \A label, regs : Message(label, regs).label = label /\ Message(label, regs).regs = regs
  /\ "port" \in Labels /\ WRITE \in Labels /\ READ \in Labels /\ "WOULD_BLOCK" \in Labels
  /\ "data" \in Labels
  /\ Seq(Chars) \subseteq Seq(Registers) /\ <<>> \in Seq(Chars) /\ <<>> \in Seq(Registers)
  /\ \A c \in Registers : <<c>> \in Seq(Registers)
  /\ Chars \subseteq Registers
<1>1. Chars \subseteq Registers
  BY DEF Registers
<1>2. Seq(Chars) \subseteq Seq(Registers)
  BY <1>1
<1>3. \A c \in Registers : <<c>> \in Seq(Registers)
  OBVIOUS
<1>4. <<>> \in Seq(Chars) /\ <<>> \in Seq(Registers)
  OBVIOUS
<1>5. \A label \in Labels, regs \in Seq(Registers) :
       Message(label, regs) \in [label: Labels, regs: Seq(Registers)]
  BY DEF Message
<1>6. \A label, regs : Message(label, regs).label = label /\ Message(label, regs).regs = regs
  BY DEF Message
<1>7. "port" \in Labels /\ WRITE \in Labels /\ READ \in Labels /\ "WOULD_BLOCK" \in Labels
      /\ "data" \in Labels
  BY DEF Labels
<1> QED BY <1>1, <1>2, <1>3, <1>4, <1>5, <1>6, <1>7

(* A port access changes the driver's registers only. *)
LEMMA PortCallEffect ==
  ASSUME SerialTypeOK, NEW c \in Registers, PortCall(<<c>>)
  PROVE  /\ UNCHANGED <<k, irqs>> /\ TypeOK' /\ mr'[client] = mr[client]
         /\ mr' \in [Threads -> [label: Labels, regs: Seq(Registers)]]
<1>1. Message("port", <<c>>) \in [label: Labels, regs: Seq(Registers)]
  BY MessageTypes
<1> HIDE DEF Message
<1>2. mr' = [mr EXCEPT ![driver] = Message("port", <<c>>)] /\ UNCHANGED <<k, irqs>>
  BY DEF PortCall
<1>3. TypeOK'
  BY <1>2 DEF SerialTypeOK, TypeOK
<1> QED BY <1>1, <1>2, <1>3, Objects DEF SerialTypeOK

(* An empty FIFO requests nothing. *)
LEMMA EmptyIsQuiet == fifo = <<>> /\ ~timeout => ~Request
<1>1. Len(<<>>) = 0 /\ Trigger \in Nat \ {0}
  BY SerialAssumption
<1> QED BY <1>1 DEF Request

(* Only the thread that goes on moves. *)
LEMMA GotoEffect ==
  ASSUME SerialTypeOK, NEW t \in Threads, NEW at \in Places, Goto(t, at)
  PROVE  /\ pc' \in [Threads -> Places] /\ pc'[t] = at
         /\ \A u \in Threads : u # t => pc'[u] = pc[u]
BY DEF SerialTypeOK, Goto

(* A step that leaves the kernel alone keeps the mode. *)
LEMMA SameModeRefl == UNCHANGED k => SameMode(k, k')
BY DEF SameMode

(* The driver initialises the UART; nobody can type yet. *)
LEMMA InitializeUartStep ==
  ASSUME SerialInv, InitializeUart
  PROVE  SerialInv'
<1>0. SerialTypeOK /\ Quiet(k) /\ ModeInv /\ LineInv /\ SentInv /\ FlowInv
  BY DEF SerialInv
<1>1. this_tcb = driver /\ pc[driver] = "uart"
  BY DEF InitializeUart, Runs
<1>2. /\ UNCHANGED <<k, irqs>> /\ TypeOK' /\ mr'[client] = mr[client]
      /\ mr' \in [Threads -> [label: Labels, regs: Seq(Registers)]]
  BY <1>0, PortCallEffect DEF InitializeUart, Registers
<1>3. pc' \in [Threads -> Places] /\ pc'[driver] = "attach" /\ pc'[client] = pc[client]
  BY <1>0, Objects, GotoEffect DEF InitializeUart, Places, Setup
<1>4. SerialTypeOK'
  BY <1>0, <1>2, <1>3 DEF SerialTypeOK, InitializeUart, uart
<1>5. ModeInv' /\ Outgoing' = Outgoing /\ Answer' = Answer
  BY <1>0, <1>1, <1>2, <1>3, BusyMoves, SameModeRefl DEF DriverBusy, Setup
<1>6. FlowInv' /\ SentInv'
  BY <1>0, <1>3, <1>5, FlowStays, SentStays DEF InitializeUart, uart
<1>7. LineInv'
  BY <1>0, <1>1, <1>2, <1>3 DEF LineInv, Request, InitializeUart, uart, Setup
<1> QED BY <1>0, <1>2, <1>4, <1>5, <1>6, <1>7 DEF SerialInv

(* It attaches its notification: the line is open. *)
LEMMA AttachStep ==
  ASSUME SerialInv, TypeOK', Attach
  PROVE  SerialInv'
<1>0. SerialTypeOK /\ Quiet(k) /\ ModeInv /\ LineInv /\ SentInv /\ FlowInv
  BY DEF SerialInv
<1>1. this_tcb = driver /\ pc[driver] = "attach"
  BY DEF Attach, Runs
<1>2. /\ UNCHANGED <<k, mr, buffer, local, sent, uart>>
      /\ irqs' = [irqs EXCEPT ![irq].n = irq_ntfn, ![irq].badge = irq_badge, ![irq].masked = FALSE]
  BY <1>0 DEF Attach, IrqHandlerSetNotification, IrqCall, irq_handler_set_notification, unmask_irq
<1>3. pc' \in [Threads -> Places] /\ pc'[driver] = "bind" /\ pc'[client] = pc[client]
  BY <1>0, Objects, GotoEffect DEF Attach, Places, Setup
<1>4. SerialTypeOK'
  BY <1>0, <1>2, <1>3 DEF SerialTypeOK, uart
<1>5. ModeInv' /\ Outgoing' = Outgoing /\ Answer' = Answer
  BY <1>0, <1>1, <1>2, <1>3, BusyMoves, SameModeRefl DEF DriverBusy, Setup
<1>6. FlowInv' /\ SentInv'
  BY <1>0, <1>2, <1>3, <1>5, FlowStays, SentStays DEF uart
<1>7. LineInv'
  <2>1. /\ irqs'[irq].n = irq_ntfn /\ irqs'[irq].badge = irq_badge /\ ~irqs'[irq].masked
        /\ irqs'[irq].in_service = irqs[irq].in_service /\ irqs'[irq].issued = irqs[irq].issued
    BY <1>0, <1>2, SerialAssumption DEF SerialTypeOK, TypeOK, HandlerRecords
  <2>2. fifo = <<>> /\ ~timeout /\ ~edge /\ ~Request /\ k.word[irq_ntfn] = {}
        /\ ~irqs[irq].in_service
    BY <1>0, <1>1, EmptyIsQuiet DEF LineInv
  <2>3. ~Request' /\ ~timeout' /\ ~edge' /\ ~Served'
    BY <1>2, <1>3, <2>2 DEF Request, uart, Served, Loop
  <2> QED BY <1>0, <1>1, <1>2, <1>3, <2>1, <2>2, <2>3 DEF LineInv, uart, Setup
<1> QED BY <1>0, <1>2, <1>4, <1>5, <1>6, <1>7 DEF SerialInv

(* It binds the notification to itself. *)
LEMMA BindStep ==
  ASSUME SerialInv, TypeOK', Bind
  PROVE  SerialInv'
<1>0. SerialTypeOK /\ Quiet(k) /\ ModeInv /\ LineInv /\ SentInv /\ FlowInv
  BY DEF SerialInv
<1>1. this_tcb = driver /\ pc[driver] = "bind"
  BY DEF Bind, Runs
<1>2. /\ UNCHANGED <<irqs, mr, buffer, local, sent, uart>>
      /\ Quiet(k') /\ SameMode(k, k') /\ k'.word = k.word
      /\ k'.bound_tcb[irq_ntfn] = driver /\ k'.bound_notification[driver] = irq_ntfn
      /\ k'.sender_badge[driver] = k.sender_badge[driver]
  <2>1. k.bound_tcb[irq_ntfn] = Null /\ k' \in KernelMemory
    BY <1>0, <1>1 DEF LineInv, Request, Setup, TypeOK
  <2> QED BY <1>0, <2>1, DriverBinds DEF Bind, TcbBindNotification, Syscall
<1>3. pc' \in [Threads -> Places] /\ pc'[driver] = "recv" /\ pc'[client] = pc[client]
  BY <1>0, Objects, GotoEffect DEF Bind, Places, Setup
<1>4. SerialTypeOK'
  BY <1>0, <1>2, <1>3 DEF SerialTypeOK, uart
<1>5. ModeInv' /\ Outgoing' = Outgoing /\ Answer' = Answer
  BY <1>0, <1>1, <1>2, <1>3, BusyMoves DEF DriverBusy, Setup
<1>6. FlowInv' /\ SentInv'
  BY <1>0, <1>2, <1>3, <1>5, FlowStays, SentStays DEF uart
<1>7. LineInv'
  BY <1>0, <1>1, <1>2, <1>3, Objects, ObjectsAssumption DEF LineInv, Request, uart, Setup, Loop, Served, SameMode
<1> QED BY <1>0, <1>2, <1>4, <1>5, <1>6, <1>7 DEF SerialInv

(* handle_irq looks for data. *)
LEMMA OuterLoopStep ==
  ASSUME SerialInv, OuterLoop
  PROVE  SerialInv'
<1>0. SerialTypeOK /\ Quiet(k) /\ ModeInv /\ LineInv /\ SentInv /\ FlowInv
  BY DEF SerialInv
<1>1. this_tcb = driver /\ (pc[driver] = "outer" \/ (pc[driver] = "dispatch" /\ IsIrq))
  BY DEF OuterLoop, AtOuterLoop, Runs
<1>2. /\ UNCHANGED <<k, irqs>> /\ TypeOK' /\ mr'[client] = mr[client]
      /\ mr' \in [Threads -> [label: Labels, regs: Seq(Registers)]]
  BY <1>0, PortCallEffect DEF OuterLoop, LineStatus, Registers
<1>3. /\ pc' \in [Threads -> Places] /\ pc'[client] = pc[client]
      /\ pc'[driver] = IF fifo # <<>> THEN "inner" ELSE "ack"
  BY <1>0, Objects, GotoEffect DEF OuterLoop, Places, Loop
<1>4. SerialTypeOK'
  BY <1>0, <1>2, <1>3 DEF SerialTypeOK, OuterLoop, uart
<1>5. ModeInv' /\ Outgoing' = Outgoing /\ Answer' = Answer
  BY <1>0, <1>1, <1>2, <1>3, BusyMoves, SameModeRefl DEF DriverBusy, Loop
<1>6. FlowInv' /\ SentInv'
  BY <1>0, <1>3, <1>5, FlowStays, SentStays DEF OuterLoop, uart
<1>7. LineInv'
  <2>1. Served /\ pc[driver] \notin Setup
    BY <1>0, <1>1, DriverCases DEF Served, Loop, Setup
  <2>2. pc'[driver] = "ack" => ~Request
    BY <1>0, <1>3, <2>1, EmptyIsQuiet DEF LineInv, Setup
  <2>3. UNCHANGED <<fifo, timeout, edge, missed>> /\ (Request' <=> Request)
    BY DEF OuterLoop, uart, Request
  <2>4. Served' /\ pc'[driver] \notin Setup /\ pc'[driver] # "data"
    BY <1>3 DEF Served, Setup, Loop
  <2> QED BY <1>0, <1>1, <1>2, <1>3, <2>1, <2>2, <2>3, <2>4 DEF LineInv, Setup
<1> QED BY <1>0, <1>2, <1>4, <1>5, <1>6, <1>7 DEF SerialInv

(* It reads while there is data and room. *)
LEMMA InnerLoopStep ==
  ASSUME SerialInv, InnerLoop
  PROVE  SerialInv'
<1>0. SerialTypeOK /\ Quiet(k) /\ ModeInv /\ LineInv /\ SentInv /\ FlowInv
  BY DEF SerialInv
<1>1. this_tcb = driver /\ pc[driver] = "inner"
  BY DEF InnerLoop, Runs
<1>2. /\ UNCHANGED <<k, irqs>> /\ TypeOK' /\ mr'[client] = mr[client]
      /\ mr' \in [Threads -> [label: Labels, regs: Seq(Registers)]]
  BY <1>0, PortCallEffect DEF InnerLoop, LineStatus, Registers
<1>3. /\ pc' \in [Threads -> Places] /\ pc'[client] = pc[client]
      /\ pc'[driver] \in {"data", "signal"} /\ (pc'[driver] = "data" => fifo # <<>>)
  BY <1>0, Objects, GotoEffect DEF InnerLoop, Places, Loop
<1>4. SerialTypeOK'
  BY <1>0, <1>2, <1>3 DEF SerialTypeOK, InnerLoop, uart
<1>5. ModeInv' /\ Outgoing' = Outgoing /\ Answer' = Answer
  BY <1>0, <1>1, <1>2, <1>3, BusyMoves, SameModeRefl DEF DriverBusy, Loop
<1>6. FlowInv' /\ SentInv'
  BY <1>0, <1>3, <1>5, FlowStays, SentStays DEF InnerLoop, uart
<1>7. LineInv'
  BY <1>0, <1>1, <1>2, <1>3 DEF LineInv, Request, InnerLoop, uart, Setup, Loop, Served
<1> QED BY <1>0, <1>2, <1>4, <1>5, <1>6, <1>7 DEF SerialInv

(* A byte goes from the UART to the driver's buffer. *)
LEMMA ReadDataStep ==
  ASSUME SerialInv, ReadData
  PROVE  SerialInv'
<1>0. SerialTypeOK /\ Quiet(k) /\ ModeInv /\ LineInv /\ SentInv /\ FlowInv
  BY DEF SerialInv
<1>1. this_tcb = driver /\ pc[driver] = "data" /\ fifo # <<>>
  BY <1>0 DEF ReadData, Runs, LineInv, Setup
<1>2. /\ fifo \in Seq(Chars) /\ Head(fifo) \in Chars /\ Tail(fifo) \in Seq(Chars)
      /\ Append(buffer, Head(fifo)) \in Seq(Chars) /\ Head(fifo) \in Registers
  <2>1. fifo \in Seq(Chars) /\ buffer \in Seq(Chars)
    BY <1>0 DEF SerialTypeOK
  <2>2. Head(fifo) \in Chars /\ Tail(fifo) \in Seq(Chars)
    BY <1>1, <2>1
  <2> QED BY <2>1, <2>2 DEF Registers
<1>3. /\ UNCHANGED <<k, irqs>> /\ TypeOK' /\ mr'[client] = mr[client]
      /\ mr' \in [Threads -> [label: Labels, regs: Seq(Registers)]]
  BY <1>0, <1>2, PortCallEffect DEF ReadData
<1>4. pc' \in [Threads -> Places] /\ pc'[client] = pc[client] /\ pc'[driver] = "inner"
  BY <1>0, Objects, GotoEffect DEF ReadData, Places, Loop
<1>5. /\ buffer' = Append(buffer, Head(fifo)) /\ fifo' = Tail(fifo)
      /\ timeout' = FALSE /\ missed' = FALSE
      /\ UNCHANGED <<local, sent, edge, typed, output>>
  BY DEF ReadData
<1>6. SerialTypeOK'
  BY <1>0, <1>2, <1>3, <1>4, <1>5 DEF SerialTypeOK
<1>7. ModeInv' /\ Outgoing' = Outgoing /\ Answer' = Answer
  BY <1>0, <1>1, <1>3, <1>4, BusyMoves, SameModeRefl DEF DriverBusy, Loop
<1>8. FlowInv'
  <2>1. Outgoing \in Seq(Chars) /\ Answer \in Seq(Chars)
    BY <1>0 DEF FlowInv, Flow
  <2>2. /\ output \in Seq(Chars) /\ buffer \in Seq(Chars) /\ typed \in Seq(Chars)
        /\ Flow(output, Outgoing, Answer, buffer, fifo, typed, sent)
    BY <1>0 DEF SerialTypeOK, FlowInv
  <2>3. Flow(output, Outgoing, Answer, Append(buffer, Head(fifo)), Tail(fifo), typed, sent)
    BY ONLY <1>1, <1>2, <2>1, <2>2, FlowReads
  <2> QED BY <1>5, <1>7, <2>3 DEF FlowInv
<1>9. SentInv'
  BY <1>0, <1>4, <1>5, SentStays
<1>10. LineInv'
  BY <1>0, <1>1, <1>3, <1>4, <1>5 DEF LineInv, Request, Setup, Loop, Served
<1> QED BY <1>0, <1>3, <1>6, <1>7, <1>8, <1>9, <1>10 DEF SerialInv

(* handle_irq signals the reader: the client, if it waits, goes first. *)
LEMMA SignalReaderStep ==
  ASSUME SerialInv, TypeOK', SignalReader
  PROVE  SerialInv'
<1>0. SerialTypeOK /\ Quiet(k) /\ ModeInv /\ LineInv /\ SentInv /\ FlowInv
  BY DEF SerialInv
<1>1. this_tcb = driver /\ pc[driver] = "signal" /\ k' \in KernelMemory
  BY DEF SignalReader, Runs, TypeOK
<1>2. SysSignal(read_ntfn, {}) /\ UNCHANGED <<irqs, mr, buffer, local, sent, uart>>
  BY DEF SignalReader, SysSignal, Syscall
<1>3. pc' \in [Threads -> Places] /\ pc'[client] = pc[client] /\ pc'[driver] = "outer"
  BY <1>0, Objects, GotoEffect DEF SignalReader, Places, Loop
<1>4. SerialTypeOK'
  BY <1>0, <1>2, <1>3 DEF SerialTypeOK, uart
<1>5. k.state[driver] = "RUNNING" /\ (Waiting(k) \/ k.list[read_ntfn] = <<>>)
  BY <1>0, <1>1, DriverCases DEF Sending, Calling, Serving, Ready, Linked
<1>6. CASE Waiting(k)
  <2>1. Quiet(k') /\ ClientFirst(k') /\ Keeps(k, k')
    BY <1>0, <1>1, <1>2, <1>6, SignalWakes
  <2>2. pc[client] = "read"
    BY <1>0, <1>1, <1>6, DriverCases, Objects
      DEF Waiting, Sending, Calling, Serving, Ready, Mode, Linked
  <2>3. ModeInv'
    BY <1>3, <2>1, <2>2 DEF ModeInv, Reading
  <2>4. /\ k.state[client] = "RECEIVING" /\ k'.state[client] = "RUNNING"
        /\ k'.state[driver] = "RUNNABLE"
    BY <1>6, <2>1 DEF Waiting, ClientFirst, Mode
  <2>5. Outgoing' = Outgoing /\ Answer' = Answer
    BY <1>1, <1>3, <2>2, <2>4 DEF Outgoing, Answer, HasMessage
  <2>6. FlowInv' /\ SentInv'
    BY <1>0, <1>2, <1>3, <2>5, FlowStays, SentStays DEF uart
  <2>7. LineInv'
    BY <1>0, <1>1, <1>2, <1>3, <2>1, <2>4 DEF LineInv, Request, Setup, Loop, Served, Keeps, uart
  <2> QED BY <1>4, <2>1, <2>3, <2>6, <2>7 DEF SerialInv
<1>7. CASE k.list[read_ntfn] = <<>>
  <2>1. /\ Quiet(k') /\ SameMode(k, k') /\ Keeps(k, k')
        /\ k'.sender_badge[driver] = k.sender_badge[driver]
    BY <1>0, <1>1, <1>2, <1>7, SignalLost
  <2>2. ModeInv' /\ Outgoing' = Outgoing /\ Answer' = Answer
    BY <1>0, <1>1, <1>2, <1>3, <2>1, BusyMoves DEF DriverBusy, Loop
  <2>3. FlowInv' /\ SentInv'
    BY <1>0, <1>2, <1>3, <2>2, FlowStays, SentStays DEF uart
  <2>4. LineInv'
    BY <1>0, <1>1, <1>2, <1>3, <2>1 DEF LineInv, Request, Setup, Loop, Served, Keeps, SameMode, uart
  <2> QED BY <1>4, <2>1, <2>2, <2>3, <2>4 DEF SerialInv
<1> QED BY <1>5, <1>6, <1>7

(* The line is opened again: a request that rose since was missed. *)
LEMMA AckStep ==
  ASSUME SerialInv, TypeOK', Ack
  PROVE  SerialInv'
<1>0. SerialTypeOK /\ Quiet(k) /\ ModeInv /\ LineInv /\ SentInv /\ FlowInv
  BY DEF SerialInv
<1>1. this_tcb = driver /\ pc[driver] = "ack"
  BY DEF Ack, Runs
<1>2. /\ UNCHANGED <<k, mr, buffer, local, sent, uart>>
      /\ irqs' = [[irqs EXCEPT ![irq].masked = FALSE] EXCEPT ![irq].in_service = FALSE]
  BY <1>0 DEF Ack, IrqHandlerAck, IrqCall, irq_handler_ack, unmask_irq
<1>3. pc' \in [Threads -> Places] /\ pc'[driver] = "recv" /\ pc'[client] = pc[client]
  BY <1>0, Objects, GotoEffect DEF Ack, Places
<1>4. SerialTypeOK'
  BY <1>0, <1>2, <1>3 DEF SerialTypeOK, uart
<1>5. ModeInv' /\ Outgoing' = Outgoing /\ Answer' = Answer
  BY <1>0, <1>1, <1>2, <1>3, BusyMoves, SameModeRefl DEF DriverBusy, Loop
<1>6. FlowInv' /\ SentInv'
  BY <1>0, <1>2, <1>3, <1>5, FlowStays, SentStays DEF uart
<1>7. LineInv'
  <2>1. /\ irqs'[irq].n = irqs[irq].n /\ irqs'[irq].badge = irqs[irq].badge /\ ~irqs'[irq].masked
        /\ ~irqs'[irq].in_service /\ irqs'[irq].issued = irqs[irq].issued
    BY <1>0, <1>2, SerialAssumption DEF SerialTypeOK, TypeOK, HandlerRecords
  <2> QED BY <1>0, <1>1, <1>2, <1>3, <2>1 DEF LineInv, Request, uart, Setup, Loop, Served
<1> QED BY <1>0, <1>2, <1>4, <1>5, <1>6, <1>7 DEF SerialInv


(* The driver receives: the pending interrupt first, then the client's     *)
(* message, or it waits and leaves the CPU to the client, or to nobody.    *)
LEMMA RecvStep ==
  ASSUME SerialInv, TypeOK', Recv
  PROVE  SerialInv'
<1>0. SerialTypeOK /\ Quiet(k) /\ ModeInv /\ LineInv /\ SentInv /\ FlowInv
  BY DEF SerialInv
<1>1. this_tcb = driver /\ pc[driver] = "recv" /\ k' \in KernelMemory
  BY DEF Recv, Runs, TypeOK
<1>2. SysRecv(endpoint) /\ UNCHANGED <<irqs, buffer, local, sent, uart>>
  BY DEF Recv, SysRecv, Syscall
<1>3. pc' \in [Threads -> Places] /\ pc'[client] = pc[client] /\ pc'[driver] = "dispatch"
  BY <1>0, Objects, GotoEffect DEF Recv, Places
<1>4. /\ k.state[driver] = "RUNNING" /\ ~Served /\ pc[driver] \notin Setup
      /\ k.bound_notification[driver] = irq_ntfn
      /\ irqs[irq].in_service <=> k.word[irq_ntfn] # {}
      /\ k.word[irq_ntfn] \in {{}, irq_badge}
      /\ HasPendingNotification(k) <=> k.word[irq_ntfn] # {}
  <2>1. k.state[driver] = "RUNNING" /\ ~Served /\ pc[driver] \notin Setup
    BY <1>0, <1>1, DriverCases DEF Served, Loop, Setup
  <2>2. /\ k.bound_notification[driver] = irq_ntfn
        /\ irqs[irq].in_service <=> k.word[irq_ntfn] # {}
        /\ k.word[irq_ntfn] \in {{}, irq_badge}
    BY <1>0, <1>1, <2>1 DEF LineInv, Request, Setup
  <2> QED BY <1>1, <2>1, <2>2, Objects, ObjectsAssumption DEF HasPendingNotification, Queues, this_tcb
<1>5. /\ \/ /\ Sending(k) /\ Reading /\ mr[client].label = WRITE /\ mr[client].regs # <<>>
         \/ Calling(k) /\ pc[client] = "answer" /\ mr[client].label = READ
         \/ Waiting(k) /\ pc[client] = "read"
         \/ Ready(k) /\ (Reading \/ pc[client] = "answer") /\ Answered
  BY <1>0, <1>1, DriverCases DEF HasMessage
<1>6. CASE HasPendingNotification(k)
  <2>1. /\ Quiet(k') /\ SameMode(k, k')
        /\ k'.bound_tcb = k.bound_tcb /\ k'.bound_notification = k.bound_notification
        /\ k'.word = [k.word EXCEPT ![irq_ntfn] = {}]
        /\ k'.sender_badge[driver] = irq_badge
    BY <1>0, <1>1, <1>2, <1>4, <1>6, RecvPending DEF this_tcb
  <2>2. mr' = mr
    BY <1>6 DEF Recv, RecvMessage
  <2>3. SerialTypeOK'
    BY <1>0, <1>2, <1>3, <2>2 DEF SerialTypeOK, uart
  <2>4. IsIrq' /\ DriverBusy /\ DriverBusy'
    BY <1>1, <1>3, <2>1 DEF IsIrq, DriverBusy
  <2>5. ModeInv' /\ Outgoing' = Outgoing /\ Answer' = Answer
    BY <1>0, <1>1, <1>3, <2>1, <2>2, <2>4, BusyMoves
  <2>6. FlowInv' /\ SentInv'
    BY <1>0, <1>2, <1>3, <2>5, FlowStays, SentStays DEF uart
  <2>7. LineInv'
    <3>1. k'.word[irq_ntfn] = {} /\ k'.state = k.state
      BY <1>0, <2>1, MemberTypes, Objects DEF Quiet, SameMode
    <3>2. Served'
      BY <1>3, <1>4, <2>4, <3>1 DEF Served
    <3> QED BY <1>0, <1>1, <1>2, <1>3, <1>4, <1>6, <2>1, <3>1, <3>2 DEF LineInv, Request, Setup, uart
  <2> QED BY <2>1, <2>3, <2>5, <2>6, <2>7 DEF SerialInv
<1>7. CASE ~HasPendingNotification(k)
  <2>1. ASSUME Quiet(k'), Keeps(k, k'), mr' \in [Threads -> [label: Labels, regs: Seq(Registers)]],
               ModeInv', Outgoing' = Outgoing, Answer' = Answer, ~Served'
        PROVE  SerialInv'
    <3>1. SerialTypeOK'
      BY <1>0, <1>2, <1>3, <2>1 DEF SerialTypeOK, uart
    <3>2. FlowInv' /\ SentInv'
      BY <1>0, <1>2, <1>3, <2>1, FlowStays, SentStays DEF uart
    <3>3. LineInv'
      BY <1>0, <1>1, <1>2, <1>3, <1>4, <1>7, <2>1 DEF LineInv, Request, Setup, Keeps, uart
    <3> QED BY <2>1, <3>1, <3>2, <3>3 DEF SerialInv
  <2>2. CASE Sending(k) \/ Calling(k)
    <3>1. ~recv_will_block(k, endpoint) /\ Head(k.list[endpoint]) = client
      BY <2>2, Single DEF recv_will_block, FirstState, Sending, Calling, Mode, Linked
    <3>2. mr' = [mr EXCEPT ![driver] = mr[client]]
      BY <1>7, <3>1 DEF Recv, RecvMessage
    <3>3. /\ mr' \in [Threads -> [label: Labels, regs: Seq(Registers)]]
          /\ mr'[driver] = mr[client] /\ mr'[client] = mr[client]
      BY <1>0, <3>2, Objects DEF SerialTypeOK
    <3>4. /\ Quiet(k') /\ Keeps(k, k') /\ k'.sender_badge[driver] = {}
          /\ Sending(k) => Ready(k')
          /\ Calling(k) => Serving(k')
      BY <1>0, <1>1, <1>2, <1>7, <2>2, RecvSent, RecvCalled
    <3>5. ~IsIrq' /\ ~Served'
      BY <1>3, <3>4, SerialAssumption DEF IsIrq, Served, Loop
    <3>6. CASE Sending(k)
      <4>1. Reading /\ mr[client].label = WRITE /\ mr[client].regs # <<>>
        BY <1>5, <3>6 DEF Sending, Calling, Waiting, Ready, Mode, Linked
      <4>2. /\ k.state[client] = "SENDING" /\ k'.state[client] = "RUNNABLE"
            /\ k'.current_tcb = driver
        BY <3>4, <3>6 DEF Sending, Ready, Mode
      <4>3. HasMessage(WRITE)'
        BY <1>3, <3>3, <3>5, <4>1 DEF HasMessage
      <4>4. ModeInv'
        BY <1>3, <3>3, <3>4, <3>6, <4>1, <4>3 DEF ModeInv, Reading
      <4>5. Outgoing' = Outgoing /\ Answer' = Answer
        BY <1>1, <1>3, <3>3, <4>1, <4>2, <4>3 DEF Outgoing, Answer, Reading, this_tcb
      <4> QED BY <2>1, <3>3, <3>4, <3>5, <4>4, <4>5
    <3>7. CASE Calling(k)
      <4>1. pc[client] = "answer" /\ mr[client].label = READ
        BY <1>5, <3>7 DEF Sending, Calling, Waiting, Ready, Mode, Linked
      <4>2. k.state[client] = "CALLING" /\ k'.state[client] = "CALLING"
        BY <3>4, <3>7 DEF Calling, Serving, Mode
      <4>3. HasMessage(READ)' /\ ~HasMessage(WRITE)'
        BY <1>3, <3>3, <3>5, <4>1 DEF HasMessage, READ, WRITE
      <4>4. ModeInv'
        BY <1>3, <3>4, <3>7, <4>1, <4>3 DEF ModeInv
      <4>5. Outgoing' = Outgoing /\ Answer' = Answer
        BY <1>1, <1>3, <3>3, <4>1, <4>2, <4>3 DEF Outgoing, Answer, HasMessage
      <4> QED BY <2>1, <3>3, <3>4, <3>5, <4>4, <4>5
    <3> QED BY <2>2, <3>6, <3>7
  <2>3. CASE Waiting(k) \/ Ready(k)
    <3>1. recv_will_block(k, endpoint)
      BY <2>3 DEF recv_will_block, Waiting, Ready, Linked
    <3>2. mr' = mr
      BY <3>1 DEF Recv, RecvMessage
    <3>3. /\ Quiet(k') /\ Keeps(k, k')
          /\ Waiting(k) => Idle(k')
          /\ Ready(k) => ClientRuns(k')
      BY <1>0, <1>1, <1>2, <1>7, <2>3, RecvBlocksIdle, RecvBlocksReady
    <3>4. /\ k'.current_tcb # driver /\ k'.state[driver] = "RECEIVING"
          /\ k.state[client] \notin {"SENDING", "CALLING"}
          /\ k'.state[client] \notin {"SENDING", "CALLING"}
      BY <2>3, <3>3, Objects DEF Waiting, Ready, Idle, ClientRuns, Mode
    <3>5. ~Served'
      BY <1>3, <3>4 DEF Served, Loop
    <3>6. Outgoing' = Outgoing /\ Answer' = Answer
      BY <1>1, <1>3, <3>2, <3>4 DEF Outgoing, Answer, HasMessage, this_tcb
    <3>7. ModeInv'
      <4>1. CASE Waiting(k)
        <5>1. pc[client] = "read"
          BY <1>5, <4>1, Objects DEF Sending, Calling, Waiting, Ready, Mode, Linked
        <5> QED BY <1>3, <3>3, <4>1, <5>1 DEF ModeInv
      <4>2. CASE Ready(k)
        <5>1. (Reading \/ pc[client] = "answer") /\ Answered
          BY <1>5, <4>2, Objects DEF Sending, Calling, Waiting, Ready, Mode, Linked
        <5>2. (Reading' \/ pc'[client] = "answer") /\ Answered'
          BY <1>3, <3>2, <5>1 DEF Reading, Answered
        <5> QED BY <1>3, <3>3, <4>2, <5>2 DEF ModeInv
      <4> QED BY <2>3, <4>1, <4>2
    <3>8. mr' \in [Threads -> [label: Labels, regs: Seq(Registers)]]
      BY <1>0, <3>2 DEF SerialTypeOK
    <3> QED BY <2>1, <3>3, <3>5, <3>6, <3>7, <3>8
  <2> QED BY <1>5, <2>2, <2>3
<1> QED BY <1>6, <1>7


(* write_uart sends the next byte, which is the next one due. *)
LEMMA WriteBytesStep ==
  ASSUME SerialInv, NEW bytes, WriteBytes(bytes), bytes = Outgoing, bytes # <<>>,
         this_tcb = driver, Ready(k), Reading, pc[driver] = "write" \/ HasMessage(WRITE)
  PROVE  /\ SerialInv'
         /\ Len(output) < Len(DueOf(typed))
         /\ output' = Append(output, DueOf(typed)[Len(output) + 1]) /\ UNCHANGED typed
<1>0. SerialTypeOK /\ Quiet(k) /\ ModeInv /\ LineInv /\ SentInv /\ FlowInv
  BY DEF SerialInv
<1>1. bytes \in Seq(Chars) /\ Answer = <<>> /\ k.state[client] = "RUNNABLE"
  <2>1. bytes \in Seq(Chars)
    BY <1>0 DEF FlowInv, Flow
  <2> QED BY <2>1 DEF Answer, Reading, Ready, Mode
<1>2. /\ Head(bytes) \in Chars /\ Head(bytes) \in Registers /\ Tail(bytes) \in Seq(Chars)
      /\ Len(bytes) = 1 => Tail(bytes) = <<>>
      /\ Len(bytes) # 1 => Tail(bytes) # <<>>
  <2>1. Head(bytes) \in Chars /\ Tail(bytes) \in Seq(Chars) /\ Len(Tail(bytes)) = Len(bytes) - 1
        /\ Len(bytes) \in Nat
    BY <1>1
  <2> DEFINE rest == Tail(bytes)
  <2>2. rest \in Seq(Chars) /\ Len(rest) = Len(bytes) - 1
    BY <2>1
  <2> HIDE DEF rest
  <2>3. (Len(bytes) = 1 => rest = <<>>) /\ (Len(bytes) # 1 => rest # <<>>)
    BY <2>1, <2>2
  <2> QED BY <2>1, <2>3 DEF rest, Registers
<1>3. /\ UNCHANGED <<k, irqs>> /\ TypeOK' /\ mr'[client] = mr[client]
      /\ mr' \in [Threads -> [label: Labels, regs: Seq(Registers)]]
  BY <1>0, <1>2, PortCallEffect DEF WriteBytes
<1>4. /\ output' = Append(output, Head(bytes)) /\ local' = Tail(bytes)
      /\ UNCHANGED <<buffer, sent, fifo, timeout, edge, missed, typed>>
  BY DEF WriteBytes
<1>5. /\ pc' \in [Threads -> Places] /\ pc'[client] = pc[client]
      /\ pc'[driver] = IF Len(bytes) = 1 THEN "recv" ELSE "write"
  BY <1>0, Objects, GotoEffect DEF WriteBytes, Places
<1>6. output \in Seq(Chars) /\ output' \in Seq(Chars)
  <2>1. output \in Seq(Chars)
    BY <1>0 DEF SerialTypeOK
  <2> QED BY <1>2, <1>4, <2>1
<1>7. SerialTypeOK'
  BY <1>0, <1>2, <1>3, <1>4, <1>5, <1>6 DEF SerialTypeOK
<1>8. /\ Outgoing' = Tail(bytes) /\ Answer' = <<>>
      /\ pc'[driver] = "write" => local' # <<>>
  BY <1>1, <1>2, <1>3, <1>4, <1>5 DEF Outgoing, Answer, HasMessage, Reading
<1>9. ModeInv'
  <2>1. Ready(k') /\ Reading' /\ Answered'
    BY <1>3, <1>5 DEF Reading, Answered
  <2> QED BY <1>5, <1>8, <2>1 DEF ModeInv, DriverBusy
<1>10. /\ Flow(output', Outgoing', Answer', buffer, fifo, typed, sent)
       /\ Len(output) < Len(DueOf(typed)) /\ Head(bytes) = DueOf(typed)[Len(output) + 1]
  <2>1. /\ buffer \in Seq(Chars) /\ fifo \in Seq(Chars) /\ typed \in Seq(Chars)
        /\ <<>> \in Seq(Chars) /\ Flow(output, bytes, <<>>, buffer, fifo, typed, sent)
    BY <1>0, <1>1 DEF SerialTypeOK, FlowInv
  <2>2. bytes # <<>> /\ bytes \in Seq(Chars) /\ output \in Seq(Chars)
    BY <1>1, <1>6
  <2>3. /\ Flow(Append(output, Head(bytes)), Tail(bytes), <<>>, buffer, fifo, typed, sent)
        /\ Len(output) < Len(DueOf(typed)) /\ Head(bytes) = DueOf(typed)[Len(output) + 1]
    BY ONLY <2>1, <2>2, FlowEmits
  <2> QED BY <1>4, <1>8, <2>3
<1>11. FlowInv' /\ SentInv'
  BY <1>0, <1>4, <1>5, <1>10, SentStays DEF FlowInv
<1>12. LineInv'
  <2>1. ~Served /\ pc[driver] \notin Setup /\ pc[driver] # "ack" /\ ~Served'
        /\ pc'[driver] \notin Setup /\ pc'[driver] \notin {"ack", "data"}
    BY <1>5 DEF Served, HasMessage, Setup, Loop
  <2> QED BY <1>0, <1>3, <1>4, <1>5, <2>1 DEF LineInv, Request, Setup
<1> QED BY <1>0, <1>3, <1>4, <1>7, <1>9, <1>10, <1>11, <1>12 DEF SerialInv

(* write_uart, the first byte and the others. *)
LEMMA WriteStep ==
  ASSUME SerialInv, WriteFirst \/ WriteRest
  PROVE  /\ SerialInv'
         /\ Len(output) < Len(DueOf(typed))
         /\ output' = Append(output, DueOf(typed)[Len(output) + 1]) /\ UNCHANGED typed
<1>0. ModeInv
  BY DEF SerialInv
<1>1. CASE WriteFirst
  <2>1. this_tcb = driver /\ HasMessage(WRITE) /\ WriteBytes(mr[driver].regs)
    BY <1>1 DEF WriteFirst, Received, Runs, HasMessage
  <2>2. Ready(k) /\ Reading /\ mr[driver].regs # <<>>
    BY <1>0, <2>1, DriverCases DEF HasMessage, DriverBusy, Setup, Loop, READ, WRITE
  <2>3. Outgoing = mr[driver].regs
    BY <2>1, <2>2 DEF Outgoing, HasMessage, Ready, Mode
  <2> QED BY <2>1, <2>2, <2>3, WriteBytesStep
<1>2. CASE WriteRest
  <2>1. this_tcb = driver /\ pc[driver] = "write" /\ WriteBytes(local)
    BY <1>2 DEF WriteRest, Runs
  <2>2. Ready(k) /\ Reading /\ local # <<>>
    BY <1>0, <2>1, DriverCases DEF HasMessage, DriverBusy, Setup, Loop
  <2>3. Outgoing = local
    BY <2>1, <2>2 DEF Outgoing, Ready, Mode
  <2> QED BY <2>1, <2>2, <2>3, WriteBytesStep
<1> QED BY <1>1, <1>2

(* read_uart answers the client with the bytes of the buffer. *)
LEMMA ReadUartStep ==
  ASSUME SerialInv, TypeOK', ReadUart
  PROVE  SerialInv'
<1>0. SerialTypeOK /\ Quiet(k) /\ ModeInv /\ LineInv /\ SentInv /\ FlowInv
  BY DEF SerialInv
<1>1. /\ this_tcb = driver /\ HasMessage(READ) /\ k' \in KernelMemory
      /\ SysReply /\ UNCHANGED <<irqs, local, sent, uart>> /\ buffer' = <<>>
  BY DEF ReadUart, Received, Runs, HasMessage, TypeOK, SysReply, Syscall
<1>2. Serving(k) /\ pc[client] = "answer"
  BY <1>0, <1>1, DriverCases DEF HasMessage, DriverBusy, Setup, Loop, READ, WRITE
<1>3. Quiet(k') /\ Ready(k') /\ Keeps(k, k') /\ k'.sender_badge[driver] = k.sender_badge[driver]
  BY <1>0, <1>1, <1>2, ReplyToClient
<1>4. pc' \in [Threads -> Places] /\ pc'[client] = pc[client] /\ pc'[driver] = "recv"
  BY <1>0, Objects, GotoEffect DEF ReadUart, Places
<1> DEFINE msg == IF buffer = <<>> THEN Message("WOULD_BLOCK", <<>>) ELSE Message("data", buffer)
<1>5. /\ buffer \in Seq(Chars) /\ msg \in [label: Labels, regs: Seq(Registers)]
      /\ buffer = <<>> => msg.label = "WOULD_BLOCK"
      /\ buffer # <<>> => msg.label = "data" /\ msg.regs = buffer
  <2>1. buffer \in Seq(Chars) /\ buffer \in Seq(Registers)
    BY <1>0, MessageTypes DEF SerialTypeOK
  <2> QED BY <2>1, MessageTypes
<1>6. mr' = [mr EXCEPT ![driver] = msg, ![client] = msg]
  BY <1>2 DEF ReadUart, ReplyMessage, Serving
<1> HIDE DEF msg
<1>7. mr' \in [Threads -> [label: Labels, regs: Seq(Registers)]] /\ mr'[client] = msg
  BY <1>0, <1>5, <1>6, Objects DEF SerialTypeOK
<1>8. SerialTypeOK'
  BY <1>0, <1>1, <1>4, <1>7, MessageTypes DEF SerialTypeOK, uart
<1>9. ModeInv'
  <2>1. Answered' /\ DriverBusy'
    BY <1>4, <1>5, <1>7 DEF Answered, DriverBusy
  <2> QED BY <1>2, <1>3, <1>4, <2>1 DEF ModeInv
<1>10. /\ Outgoing = <<>> /\ Answer = <<>>
       /\ Outgoing' = <<>> /\ Answer' = buffer
  <2>1. k.state[client] = "CALLING" /\ k'.state[client] = "RUNNABLE"
    BY <1>2, <1>3 DEF Serving, Ready, Mode
  <2>2. pc[driver] # "write" /\ ~HasMessage(WRITE)
    BY <1>1 DEF HasMessage, READ, WRITE
  <2> QED BY <1>2, <1>4, <1>5, <1>7, <2>1, <2>2 DEF Outgoing, Answer, HasMessage
<1>11. FlowInv'
  <2>1. /\ output \in Seq(Chars) /\ fifo \in Seq(Chars) /\ typed \in Seq(Chars)
        /\ <<>> \in Seq(Chars) /\ Flow(output, <<>>, <<>>, buffer, fifo, typed, sent)
    BY <1>0, <1>10 DEF SerialTypeOK, FlowInv
  <2>2. Flow(output, <<>>, buffer, <<>>, fifo, typed, sent)
    BY ONLY <1>5, <2>1, FlowAnswers
  <2> QED BY <1>1, <1>10, <2>2 DEF FlowInv, uart
<1>12. SentInv'
  BY <1>0, <1>1, <1>4, SentStays
<1>13. LineInv'
  <2>1. ~Served /\ pc[driver] = "dispatch" /\ ~Served' /\ k'.state[driver] = "RUNNING"
    BY <1>1, <1>3, <1>4 DEF Served, HasMessage, Loop, Ready, Mode
  <2> QED BY <1>0, <1>1, <1>3, <1>4, <2>1 DEF LineInv, Request, Setup, Keeps, uart
<1> QED BY <1>3, <1>8, <1>9, <1>11, <1>12, <1>13 DEF SerialInv


-----------------------------------------------------------------------------
(* A step of the client, or of the hardware, that the line does not see. *)
LEMMA LineStays ==
  ASSUME LineInv, UNCHANGED <<irqs, fifo, timeout, edge, missed>>, Keeps(k, k'), pc'[driver] = pc[driver],
         pc'[client] = "issue" <=> pc[client] = "issue", Served' <=> Served,
         k'.state[driver] = "RECEIVING" => k.state[driver] = "RECEIVING"
  PROVE  LineInv'
BY DEF LineInv, Request, Keeps

(* Where the client runs, the driver has nothing to write. *)
LEMMA ClientHasCpu ==
  ASSUME ModeInv, this_tcb = client
  PROVE  k.state[client] = "RUNNING" /\ Outgoing = <<>> /\ pc[driver] # "write"
<1>1. k.state[client] = "RUNNING" /\ pc[driver] # "write"
  BY ClientCases DEF Booting, ClientFirst, ClientRuns, Mode
<1> QED BY <1>1, Objects DEF Outgoing

(* The first program gets the handler of the line. *)
LEMMA IssueIrqStep ==
  ASSUME SerialInv, TypeOK', IssueIrq
  PROVE  SerialInv'
<1>0. SerialTypeOK /\ Quiet(k) /\ ModeInv /\ LineInv /\ SentInv /\ FlowInv
  BY DEF SerialInv
<1>1. this_tcb = client /\ pc[client] = "issue"
  BY DEF IssueIrq, Runs
<1>2. /\ UNCHANGED <<k, mr, buffer, local, sent, uart>>
      /\ irqs' = [irqs EXCEPT ![irq].issued = TRUE]
  <2>1. ~irqs[irq].issued
    BY <1>0, <1>1 DEF LineInv, Request
  <2> QED BY <2>1 DEF IssueIrq, IrqControlGet, IrqCall, irq_control_get
<1>3. pc' \in [Threads -> Places] /\ pc'[driver] = pc[driver] /\ pc'[client] = "spawn"
  BY <1>0, Objects, GotoEffect DEF IssueIrq, Places
<1>4. SerialTypeOK'
  BY <1>0, <1>2, <1>3 DEF SerialTypeOK, uart
<1>5. Booting(k) /\ pc[driver] = "uart"
  BY <1>0, <1>1, ClientCases DEF Reading
<1>6. ModeInv'
  BY <1>2, <1>3, <1>5 DEF ModeInv
<1>7. Outgoing' = Outgoing /\ Answer' = Answer
  BY <1>1, <1>2, <1>3, <1>5 DEF Outgoing, Answer, HasMessage
<1>8. FlowInv' /\ SentInv'
  BY <1>0, <1>1, <1>2, <1>3, <1>7, FlowStays DEF SentInv, uart
<1>9. LineInv'
  <2>1. /\ irqs'[irq].n = irqs[irq].n /\ irqs'[irq].issued
        /\ irqs'[irq].in_service = irqs[irq].in_service
    BY <1>0, <1>2, SerialAssumption DEF SerialTypeOK, TypeOK, HandlerRecords
  <2> QED BY <1>0, <1>2, <1>3, <1>5, <2>1 DEF LineInv, Request, uart, Setup
<1> QED BY <1>0, <1>2, <1>4, <1>6, <1>8, <1>9 DEF SerialInv

(* It starts the driver. *)
LEMMA SpawnDriverStep ==
  ASSUME SerialInv, TypeOK', SpawnDriver
  PROVE  SerialInv'
<1>0. SerialTypeOK /\ Quiet(k) /\ ModeInv /\ LineInv /\ SentInv /\ FlowInv
  BY DEF SerialInv
<1>1. /\ this_tcb = client /\ pc[client] = "spawn" /\ k' \in KernelMemory
      /\ TcbResume(driver) /\ UNCHANGED <<irqs, mr, buffer, local, sent, uart>>
  BY DEF SpawnDriver, Runs, TypeOK, TcbResume, Syscall
<1>2. Booting(k) /\ pc[driver] = "uart"
  BY <1>0, <1>1, ClientCases DEF Reading
<1>3. Quiet(k') /\ ClientFirst(k') /\ Keeps(k, k')
  BY <1>0, <1>1, <1>2, DriverStarts
<1>4. /\ pc' \in [Threads -> Places] /\ pc'[driver] = pc[driver]
      /\ pc'[client] = IF Greeting = <<>> THEN "read" ELSE "print"
  BY <1>0, Objects, GotoEffect DEF SpawnDriver, Places
<1>5. SerialTypeOK'
  BY <1>0, <1>1, <1>4 DEF SerialTypeOK, uart
<1>6. ModeInv'
  BY <1>2, <1>3, <1>4 DEF ModeInv, Reading
<1>7. /\ k.state[client] = "RUNNING" /\ k'.state[client] = "RUNNING"
      /\ k'.state[driver] = "RUNNABLE"
  BY <1>2, <1>3 DEF Booting, ClientFirst, Mode
<1>8. Outgoing' = Outgoing /\ Answer' = Answer
  BY <1>1, <1>2, <1>4, <1>7 DEF Outgoing, Answer, HasMessage
<1>9. SentInv'
  <2>1. Greeting \in Seq(Chars)
    BY SerialAssumption DEF Chars
  <2>2. Len(Greeting) \in Nat /\ (Greeting = <<>> => Len(Greeting) = 0)
        /\ (Greeting # <<>> => Len(Greeting) > 0)
    BY <2>1
  <2> QED BY <1>0, <1>1, <1>4, <2>2 DEF SentInv
<1>10. FlowInv'
  BY <1>0, <1>1, <1>8, FlowStays DEF uart
<1>11. LineInv'
  <2>1. ~Served /\ ~Served'
    BY <1>2, <1>4 DEF Served, Loop
  <2> QED BY <1>0, <1>1, <1>3, <1>4, <1>7, <2>1, LineStays DEF uart
<1> QED BY <1>3, <1>5, <1>6, <1>9, <1>10, <1>11 DEF SerialInv

(* Where a message of the client goes: along with the send when the driver *)
(* waits, else it stays in the client's buffer.                            *)
LEMMA MessageGoes ==
  ASSUME SerialTypeOK, NEW msg \in [label: Labels, regs: Seq(Registers)],
         SendMessage(client, msg), ClientFirst(k) \/ ClientRuns(k)
  PROVE  /\ mr' \in [Threads -> [label: Labels, regs: Seq(Registers)]]
         /\ mr'[client] = msg
         /\ ClientFirst(k) => mr'[driver] = mr[driver]
         /\ ClientRuns(k) => mr'[driver] = msg
<1>1. CASE ClientFirst(k)
  <2>1. send_will_block(k, endpoint) /\ ~ClientRuns(k)
    BY <1>1, Single DEF send_will_block, ClientFirst, ClientRuns, Mode, Linked
  <2>2. mr' = [mr EXCEPT ![client] = msg]
    BY <2>1 DEF SendMessage
  <2> QED BY <2>1, <2>2, Objects DEF SerialTypeOK
<1>2. CASE ClientRuns(k)
  <2>1. /\ ~send_will_block(k, endpoint) /\ ~ClientFirst(k)
        /\ Head(k.list[endpoint]) = driver
    BY <1>2, Single DEF send_will_block, FirstState, ClientFirst, ClientRuns, Mode, Linked
  <2>2. mr' = [mr EXCEPT ![client] = msg, ![driver] = msg]
    BY <2>1 DEF SendMessage
  <2> QED BY <2>1, <2>2, Objects DEF SerialTypeOK
<1> QED BY <1>1, <1>2


(* The client sends bytes to be written. *)
LEMMA ClientWrites ==
  ASSUME SerialInv, TypeOK', NEW bytes \in Seq(Chars), bytes # <<>>,
         Send(Message(WRITE, bytes)), this_tcb = client,
         Reading \/ pc[client] = "answer",
         pc' \in [Threads -> Places], pc'[driver] = pc[driver],
         pc'[client] \in {"print", "read"}, sent' \in Nat,
         UNCHANGED <<buffer, local, uart>>
  PROVE  /\ SerialTypeOK' /\ Quiet(k') /\ ModeInv' /\ LineInv'
         /\ Outgoing' = bytes /\ Answer' = <<>>
<1>0. SerialTypeOK /\ Quiet(k) /\ ModeInv /\ LineInv
  BY DEF SerialInv
<1>1. \/ ClientFirst(k) /\ pc[driver] \in {"uart", "outer"}
      \/ ClientRuns(k) /\ pc[driver] = "dispatch"
  BY <1>0, ClientCases DEF Reading
<1>2. SysSend(endpoint, {}) /\ k' \in KernelMemory /\ irqs' = irqs
  BY DEF Send, SysSend, Syscall, TypeOK
<1> DEFINE msg == Message(WRITE, bytes)
<1>3. msg \in [label: Labels, regs: Seq(Registers)] /\ msg.label = WRITE /\ msg.regs = bytes
  BY MessageTypes
<1>4. SendMessage(client, msg)
  BY DEF Send
<1> HIDE DEF msg
<1>5. /\ mr' \in [Threads -> [label: Labels, regs: Seq(Registers)]]
      /\ mr'[client] = msg
      /\ ClientFirst(k) => mr'[driver] = mr[driver]
      /\ ClientRuns(k) => mr'[driver] = msg
  BY <1>0, <1>1, <1>3, <1>4, MessageGoes
<1>6. SerialTypeOK'
  BY <1>0, <1>5 DEF SerialTypeOK, uart
<1>7. Answer' = <<>> /\ Reading' /\ Answered'
  BY DEF Answer, Reading, Answered
<1>8. pc'[client] = "issue" <=> pc[client] = "issue"
  BY DEF Reading
<1>9. CASE ClientFirst(k) /\ pc[driver] \in {"uart", "outer"}
  <2>1. Quiet(k') /\ Keeps(k, k') /\ Sending(k')
    BY <1>0, <1>2, <1>9, SendOrCall DEF ClientFirst, Mode
  <2>2. k'.state[client] = "SENDING" /\ k'.state[driver] = "RUNNING"
    BY <2>1 DEF Sending, Mode
  <2>3. ModeInv'
    BY <1>3, <1>5, <1>7, <1>9, <2>1 DEF ModeInv, DriverBusy, Setup, Loop
  <2>4. Outgoing' = bytes
    BY <1>3, <1>5, <2>2 DEF Outgoing
  <2>5. Served' <=> Served
    BY <1>9 DEF Served
  <2>6. LineInv'
    BY <1>0, <1>2, <1>8, <2>1, <2>2, <2>5, LineStays DEF uart
  <2> QED BY <1>6, <1>7, <2>1, <2>3, <2>4, <2>6
<1>10. CASE ClientRuns(k) /\ pc[driver] = "dispatch"
  <2>1. Quiet(k') /\ Keeps(k, k') /\ Ready(k') /\ k'.sender_badge[driver] = {}
    BY <1>0, <1>2, <1>10, SendToDriver
  <2>2. /\ k'.state[client] = "RUNNABLE" /\ k'.state[driver] = "RUNNING"
        /\ k'.current_tcb = driver /\ k.state[driver] = "RECEIVING"
    BY <1>10, <2>1 DEF Ready, ClientRuns, Mode
  <2>3. ~IsIrq' /\ HasMessage(WRITE)'
    BY <1>3, <1>5, <1>10, <2>1, SerialAssumption DEF IsIrq, HasMessage
  <2>4. ModeInv'
    BY <1>3, <1>5, <1>7, <1>10, <2>1, <2>3 DEF ModeInv
  <2>5. Outgoing' = bytes
    BY <1>3, <1>5, <1>10, <2>2, <2>3 DEF Outgoing, this_tcb
  <2>6. ~Served' /\ ~Served
    BY <1>10, <2>2, <2>3 DEF Served, Loop
  <2>7. LineInv'
    BY <1>0, <1>2, <1>8, <2>1, <2>2, <2>6, LineStays DEF uart
  <2> QED BY <1>6, <1>7, <2>1, <2>4, <2>5, <2>7
<1> QED BY <1>1, <1>9, <1>10

(* print_to_serial: the next byte of the greeting is on its way. *)
LEMMA PrintToSerialStep ==
  ASSUME SerialInv, TypeOK', PrintToSerial
  PROVE  SerialInv'
<1>0. SerialTypeOK /\ Quiet(k) /\ ModeInv /\ LineInv /\ SentInv /\ FlowInv
  BY DEF SerialInv
<1>1. /\ this_tcb = client /\ pc[client] = "print"
      /\ Send(Message(WRITE, <<Greeting[sent + 1]>>)) /\ sent' = sent + 1
      /\ UNCHANGED <<buffer, local, uart>>
  BY DEF PrintToSerial, Runs
<1>2. sent \in Nat /\ sent < Len(Greeting) /\ Len(Greeting) \in Nat
  BY <1>0, <1>1, SerialAssumption DEF SerialTypeOK, SentInv
<1>3. Greeting[sent + 1] \in Chars
  BY <1>2, SerialAssumption DEF Chars
<1> DEFINE bytes == <<Greeting[sent + 1]>>
<1>4. bytes \in Seq(Chars) /\ bytes # <<>>
  BY <1>3
<1>5. /\ pc' \in [Threads -> Places] /\ pc'[driver] = pc[driver]
      /\ pc'[client] = IF sent + 1 = Len(Greeting) THEN "read" ELSE "print"
  BY <1>0, Objects, GotoEffect DEF PrintToSerial, Places
<1>6. Send(Message(WRITE, bytes)) /\ pc'[client] \in {"print", "read"} /\ sent' \in Nat
      /\ Reading
  BY <1>1, <1>2, <1>5 DEF Reading
<1> HIDE DEF bytes
<1>7. /\ SerialTypeOK' /\ Quiet(k') /\ ModeInv' /\ LineInv'
      /\ Outgoing' = bytes /\ Answer' = <<>>
  BY <1>1, <1>4, <1>5, <1>6, ClientWrites
<1>8. SentInv'
  BY <1>1, <1>2, <1>5 DEF SentInv
<1>9. FlowInv'
  <2>1. Outgoing = <<>> /\ Answer = <<>>
    BY <1>0, <1>1, ClientHasCpu DEF Answer
  <2>2. /\ output \in Seq(Chars) /\ buffer \in Seq(Chars) /\ fifo \in Seq(Chars)
        /\ typed \in Seq(Chars) /\ Flow(output, <<>>, <<>>, buffer, fifo, typed, sent)
        /\ sent < Len(Greeting)
    BY <1>0, <1>2, <2>1 DEF SerialTypeOK, FlowInv
  <2>3. Flow(output, <<Greeting[sent + 1]>>, <<>>, buffer, fifo, typed, sent + 1)
    BY ONLY <2>2, FlowPrints
  <2> QED BY <1>1, <1>7, <2>3 DEF FlowInv, bytes, uart
<1> QED BY <1>7, <1>8, <1>9 DEF SerialInv

(* serial_capitalization_server: the bytes it read are on their way back. *)
LEMMA SendBackStep ==
  ASSUME SerialInv, TypeOK', SendBack
  PROVE  SerialInv'
<1>0. SerialTypeOK /\ Quiet(k) /\ ModeInv /\ LineInv /\ SentInv /\ FlowInv
  BY DEF SerialInv
<1> DEFINE a == mr[client].regs
<1>1. /\ this_tcb = client /\ pc[client] = "answer" /\ mr[client].label # "WOULD_BLOCK"
      /\ Send(Message(WRITE, Capitalize(a)))
      /\ UNCHANGED <<buffer, local, sent, uart>>
  BY DEF SendBack, Runs
<1>2. ClientRuns(k) /\ Answered
  BY <1>0, <1>1, ClientCases DEF Reading
<1>3. a # <<>> /\ Answer = a
  BY <1>1, <1>2 DEF Answered, Answer, ClientRuns, Mode
<1>4. sent = Len(Greeting)
  BY <1>0, <1>1 DEF SentInv
<1> HIDE DEF a
<1>5. /\ Flow(output, Capitalize(a), <<>>, buffer, fifo, typed, sent)
      /\ Capitalize(a) \in Seq(Chars) /\ Len(Capitalize(a)) = Len(a) /\ a \in Seq(Chars)
  <2>1. Outgoing = <<>>
    BY <1>0, <1>1, ClientHasCpu
  <2>2. /\ output \in Seq(Chars) /\ buffer \in Seq(Chars) /\ fifo \in Seq(Chars)
        /\ typed \in Seq(Chars) /\ Flow(output, <<>>, a, buffer, fifo, typed, Len(Greeting))
    BY <1>0, <1>3, <1>4, <2>1 DEF SerialTypeOK, FlowInv
  <2>3. a \in Seq(Chars)
    BY <2>2 DEF Flow
  <2>4. /\ Flow(output, Capitalize(a), <<>>, buffer, fifo, typed, Len(Greeting))
        /\ Capitalize(a) \in Seq(Chars) /\ Len(Capitalize(a)) = Len(a)
    BY ONLY <2>2, <2>3, FlowSendsBack
  <2> QED BY <1>4, <2>3, <2>4
<1> DEFINE bytes == Capitalize(a)
<1>6. bytes \in Seq(Chars) /\ Len(bytes) = Len(a) /\ Send(Message(WRITE, bytes))
  BY <1>1, <1>5
<1> HIDE DEF bytes
<1>7. bytes # <<>>
  <2>1. Len(a) # 0
    BY <1>3, <1>5
  <2> QED BY <1>6, <2>1
<1>8. pc' \in [Threads -> Places] /\ pc'[driver] = pc[driver] /\ pc'[client] = "read"
  BY <1>0, Objects, GotoEffect DEF SendBack, Places
<1>9. sent' \in Nat
  BY <1>0, <1>1 DEF SerialTypeOK
<1>10. /\ SerialTypeOK' /\ Quiet(k') /\ ModeInv' /\ LineInv'
       /\ Outgoing' = bytes /\ Answer' = <<>>
  BY <1>1, <1>6, <1>7, <1>8, <1>9, ClientWrites
<1>11. SentInv'
  BY <1>0, <1>1, <1>4, <1>8 DEF SentInv
<1>12. FlowInv'
  BY <1>1, <1>5, <1>10 DEF FlowInv, bytes, uart
<1> QED BY <1>10, <1>11, <1>12 DEF SerialInv

(* read_serial asks the driver. *)
LEMMA ReadSerialStep ==
  ASSUME SerialInv, TypeOK', ReadSerial
  PROVE  SerialInv'
<1>0. SerialTypeOK /\ Quiet(k) /\ ModeInv /\ LineInv /\ SentInv /\ FlowInv
  BY DEF SerialInv
<1> DEFINE msg == Message(READ, <<>>)
<1>1. /\ this_tcb = client /\ pc[client] = "read" /\ k' \in KernelMemory
      /\ SysCall(endpoint, {}) /\ SendMessage(client, msg)
      /\ UNCHANGED <<irqs, buffer, local, sent, uart>>
  BY DEF ReadSerial, Runs, TypeOK, SysCall, Syscall
<1>2. \/ ClientFirst(k) /\ pc[driver] \in {"uart", "outer"}
      \/ ClientRuns(k) /\ pc[driver] = "dispatch"
  BY <1>0, <1>1, ClientCases
<1>3. msg \in [label: Labels, regs: Seq(Registers)] /\ msg.label = READ
  BY MessageTypes
<1> HIDE DEF msg
<1>4. /\ mr' \in [Threads -> [label: Labels, regs: Seq(Registers)]]
      /\ mr'[client] = msg
      /\ ClientFirst(k) => mr'[driver] = mr[driver]
      /\ ClientRuns(k) => mr'[driver] = msg
  BY <1>0, <1>1, <1>2, <1>3, MessageGoes
<1>5. pc' \in [Threads -> Places] /\ pc'[driver] = pc[driver] /\ pc'[client] = "answer"
  BY <1>0, Objects, GotoEffect DEF ReadSerial, Places
<1>6. SerialTypeOK'
  BY <1>0, <1>1, <1>4, <1>5 DEF SerialTypeOK, uart
<1>7. SentInv'
  BY <1>0, <1>1, <1>5 DEF SentInv
<1>8. Outgoing = <<>> /\ Answer = <<>>
  BY <1>0, <1>1, ClientHasCpu DEF Answer
<1>9. CASE ClientFirst(k) /\ pc[driver] \in {"uart", "outer"}
  <2>1. Quiet(k') /\ Keeps(k, k') /\ Calling(k')
    BY <1>0, <1>1, <1>9, SendOrCall DEF ClientFirst, Mode
  <2>2. k'.state[client] = "CALLING" /\ k'.state[driver] = "RUNNING"
    BY <2>1 DEF Calling, Mode
  <2>3. ModeInv'
    BY <1>3, <1>4, <1>5, <1>9, <2>1 DEF ModeInv, DriverBusy, Setup, Loop
  <2>4. Outgoing' = <<>> /\ Answer' = <<>>
    BY <1>5, <1>9, <2>2 DEF Outgoing, Answer, HasMessage
  <2>5. Served' <=> Served
    BY <1>5, <1>9 DEF Served
  <2>6. LineInv'
    BY <1>0, <1>1, <1>5, <2>1, <2>2, <2>5, LineStays DEF uart
  <2>7. FlowInv'
    BY <1>0, <1>1, <1>8, <2>4, FlowStays DEF uart
  <2> QED BY <1>6, <1>7, <2>1, <2>3, <2>6, <2>7 DEF SerialInv
<1>10. CASE ClientRuns(k) /\ pc[driver] = "dispatch"
  <2>1. Quiet(k') /\ Keeps(k, k') /\ Serving(k') /\ k'.sender_badge[driver] = {}
    BY <1>0, <1>1, <1>10, CallToDriver
  <2>2. /\ k'.state[client] = "CALLING" /\ k'.state[driver] = "RUNNING"
        /\ k.state[driver] = "RECEIVING"
    BY <1>10, <2>1 DEF Serving, ClientRuns, Mode
  <2>3. ~IsIrq' /\ HasMessage(READ)' /\ ~HasMessage(WRITE)'
    BY <1>3, <1>4, <1>5, <1>10, <2>1, SerialAssumption DEF IsIrq, HasMessage, READ, WRITE
  <2>4. ModeInv'
    BY <1>5, <2>1, <2>3 DEF ModeInv
  <2>5. Outgoing' = <<>> /\ Answer' = <<>>
    BY <1>5, <1>10, <2>2, <2>3 DEF Outgoing, Answer
  <2>6. ~Served' /\ ~Served
    BY <1>5, <1>10, <2>2, <2>3 DEF Served, Loop
  <2>7. LineInv'
    BY <1>0, <1>1, <1>5, <2>1, <2>2, <2>6, LineStays DEF uart
  <2>8. FlowInv'
    BY <1>0, <1>1, <1>8, <2>5, FlowStays DEF uart
  <2> QED BY <1>6, <1>7, <2>1, <2>4, <2>7, <2>8 DEF SerialInv
<1> QED BY <1>2, <1>9, <1>10

(* read_serial waits when the driver had nothing. *)
LEMMA WaitForDataStep ==
  ASSUME SerialInv, TypeOK', WaitForData
  PROVE  SerialInv'
<1>0. SerialTypeOK /\ Quiet(k) /\ ModeInv /\ LineInv /\ SentInv /\ FlowInv
  BY DEF SerialInv
<1>1. /\ this_tcb = client /\ pc[client] = "answer" /\ mr[client].label = "WOULD_BLOCK"
      /\ SysWait(read_ntfn) /\ k' \in KernelMemory
      /\ UNCHANGED <<irqs, mr, buffer, local, sent, uart>>
  BY DEF WaitForData, Runs, TypeOK, SysWait, Syscall
<1>2. ClientRuns(k) /\ pc[driver] = "dispatch"
  BY <1>0, <1>1, ClientCases DEF Reading
<1>3. Quiet(k') /\ Idle(k') /\ Keeps(k, k')
  BY <1>0, <1>1, <1>2, ClientWaits
<1>4. pc' \in [Threads -> Places] /\ pc'[driver] = pc[driver] /\ pc'[client] = "read"
  BY <1>0, Objects, GotoEffect DEF WaitForData, Places
<1>5. SerialTypeOK'
  BY <1>0, <1>1, <1>4 DEF SerialTypeOK, uart
<1>6. ModeInv'
  BY <1>2, <1>3, <1>4 DEF ModeInv
<1>7. /\ k'.state[client] = "RECEIVING" /\ k'.current_tcb = Null
      /\ k.state[driver] = "RECEIVING" /\ k'.state[driver] = "RECEIVING"
  BY <1>2, <1>3 DEF Idle, ClientRuns, Mode
<1>8. Outgoing' = Outgoing /\ Answer' = Answer
  <2>1. Outgoing = <<>> /\ Answer = <<>>
    BY <1>0, <1>1, ClientHasCpu DEF Answer
  <2> QED BY <1>2, <1>4, <1>7, <2>1, Objects DEF Outgoing, Answer, this_tcb
<1>9. FlowInv' /\ SentInv'
  BY <1>0, <1>1, <1>4, <1>8, FlowStays DEF SentInv, uart
<1>10. LineInv'
  <2>1. ~Served /\ ~Served'
    BY <1>2, <1>4, <1>7 DEF Served, Loop
  <2> QED BY <1>0, <1>1, <1>3, <1>4, <1>7, <2>1, LineStays DEF uart
<1> QED BY <1>3, <1>5, <1>6, <1>9, <1>10 DEF SerialInv


-----------------------------------------------------------------------------
(* A step that changes neither the programs nor the modes of the kernel. *)
LEMMA ModeStays ==
  ASSUME ModeInv, SameMode(k, k'), UNCHANGED user,
         k'.sender_badge[driver] = k.sender_badge[driver]
  PROVE  /\ ModeInv' /\ Outgoing' = Outgoing /\ Answer' = Answer /\ (Served' <=> Served)
<1>1. /\ Booting(k') <=> Booting(k)
      /\ ClientFirst(k') <=> ClientFirst(k)
      /\ ClientRuns(k') <=> ClientRuns(k)
      /\ Sending(k') <=> Sending(k)
      /\ Calling(k') <=> Calling(k)
      /\ Serving(k') <=> Serving(k)
      /\ Waiting(k') <=> Waiting(k)
      /\ Ready(k') <=> Ready(k)
      /\ Idle(k') <=> Idle(k)
  BY ModeKept
<1>2. k'.state = k.state /\ k'.current_tcb = k.current_tcb
  BY DEF SameMode
<1>3. /\ IsIrq' <=> IsIrq
      /\ mr' = mr /\ pc' = pc /\ local' = local
  BY DEF IsIrq, user
<1>4. /\ DriverBusy' <=> DriverBusy
      /\ HasMessage(READ)' <=> HasMessage(READ)
      /\ HasMessage(WRITE)' <=> HasMessage(WRITE)
      /\ Reading' <=> Reading
      /\ Answered' <=> Answered
  BY <1>3 DEF DriverBusy, HasMessage, Reading, Answered
<1>5. ModeInv'
  BY <1>1, <1>3, <1>4 DEF ModeInv
<1>6. Outgoing' = Outgoing /\ Answer' = Answer
  BY <1>2, <1>3, <1>4 DEF Outgoing, Answer, this_tcb
<1>7. Served' <=> Served
  BY <1>2, <1>3 DEF Served
<1> QED BY <1>5, <1>6, <1>7

(* The request rises: seen by the CPU, or by the driver, or missed. *)
LEMMA RequestRises ==
  ASSUME SerialTypeOK, LineInv, Rise, UNCHANGED <<k, irqs, user>>,
         fifo' \in Seq(Chars), fifo' # <<>>, Request => Request',
         pc[driver] \notin {"uart", "attach"}, Served' <=> Served
  PROVE  LineInv' /\ {edge', missed'} \subseteq BOOLEAN
<1>1. /\ edge' = IF Request' /\ ~Request THEN edge \/ ~irqs[irq].masked ELSE edge
      /\ missed' = IF Request' /\ ~Request THEN missed \/ pc[driver] = "ack" ELSE missed
      /\ {edge, missed} \subseteq BOOLEAN
  BY DEF Rise, SerialTypeOK
<1>2. pc' = pc /\ k' = k /\ irqs' = irqs
  BY DEF user
<1>3. {edge', missed'} \subseteq BOOLEAN
  BY <1>1
<1> HIDE DEF Request
<1>4. edge' => ~irqs[irq].masked
  BY <1>1 DEF LineInv
<1>5. Request' => edge' \/ missed' \/ (irqs[irq].in_service /\ pc[driver] # "ack")
  BY <1>1 DEF LineInv
<1> QED BY <1>2, <1>3, <1>4, <1>5 DEF LineInv

(* A byte is typed. *)
LEMMA TypeByteStep ==
  ASSUME SerialInv, TypeOK', NEW b \in Bytes, TypeByte(b)
  PROVE  SerialInv'
<1>0. SerialTypeOK /\ Quiet(k) /\ ModeInv /\ LineInv /\ SentInv /\ FlowInv
  BY DEF SerialInv
<1>1. /\ irqs[irq].n # Null /\ typed' = Append(typed, b) /\ fifo' = Append(fifo, b)
      /\ Rise /\ UNCHANGED <<k, irqs, user, timeout, output>>
  BY DEF TypeByte
<1>2. b \in Chars /\ fifo \in Seq(Chars) /\ typed \in Seq(Chars)
  BY <1>0, SerialAssumption DEF Chars, SerialTypeOK
<1>3. /\ fifo' \in Seq(Chars) /\ typed' \in Seq(Chars) /\ fifo' # <<>>
      /\ Len(fifo') = Len(fifo) + 1 /\ Len(fifo) \in Nat
  BY <1>1, <1>2
<1>4. ModeInv' /\ Outgoing' = Outgoing /\ Answer' = Answer /\ (Served' <=> Served)
  BY <1>0, <1>1, ModeStays, SameModeRefl
<1>5. LineInv' /\ {edge', missed'} \subseteq BOOLEAN
  <2>1. pc[driver] \notin {"uart", "attach"}
    BY <1>0, <1>1 DEF LineInv
  <2>2. Request => Request'
    BY <1>1, <1>3, SerialAssumption DEF Request
  <2> QED BY <1>0, <1>1, <1>3, <1>4, <2>1, <2>2, RequestRises
<1>6. SerialTypeOK'
  BY <1>0, <1>1, <1>3, <1>5 DEF SerialTypeOK, user
<1>7. FlowInv'
  <2>1. /\ output \in Seq(Chars) /\ buffer \in Seq(Chars)
        /\ Outgoing \in Seq(Chars) /\ Answer \in Seq(Chars)
        /\ Flow(output, Outgoing, Answer, buffer, fifo, typed, sent)
    BY <1>0 DEF SerialTypeOK, FlowInv, Flow
  <2>2. Flow(output, Outgoing, Answer, buffer, Append(fifo, b), Append(typed, b), sent)
    BY ONLY <1>2, <2>1, FlowTypes
  <2> QED BY <1>1, <1>4, <2>2 DEF FlowInv, user
<1>8. SentInv'
  BY <1>0, <1>1, SentStays DEF user
<1> QED BY <1>0, <1>1, <1>4, <1>5, <1>6, <1>7, <1>8 DEF SerialInv

(* The UART's timer runs out, or its line is set again. *)
LEMMA UartStep ==
  ASSUME SerialInv, TypeOK', Timeout \/ RaiseAgain
  PROVE  SerialInv'
<1>0. SerialTypeOK /\ Quiet(k) /\ ModeInv /\ LineInv /\ SentInv /\ FlowInv
  BY DEF SerialInv
<1>1. UNCHANGED <<k, irqs, user, fifo, typed, output>>
  BY DEF Timeout, RaiseAgain
<1>2. ModeInv' /\ Outgoing' = Outgoing /\ Answer' = Answer /\ (Served' <=> Served)
  BY <1>0, <1>1, ModeStays, SameModeRefl
<1>3. FlowInv' /\ SentInv'
  BY <1>0, <1>1, <1>2, FlowStays, SentStays DEF user
<1>4. CASE Timeout
  <2>1. Rise /\ fifo # <<>> /\ timeout' = TRUE /\ fifo' \in Seq(Chars)
    BY <1>0, <1>1, <1>4 DEF Timeout, SerialTypeOK
  <2>2. pc[driver] \notin {"uart", "attach"} /\ Request'
    BY <1>0, <2>1 DEF LineInv, Request
  <2>3. LineInv' /\ {edge', missed'} \subseteq BOOLEAN
    BY <1>0, <1>1, <1>2, <2>1, <2>2, RequestRises
  <2>4. SerialTypeOK'
    BY <1>0, <1>1, <2>1, <2>3 DEF SerialTypeOK, user
  <2> QED BY <1>0, <1>1, <1>2, <1>3, <2>3, <2>4 DEF SerialInv
<1>5. CASE RaiseAgain
  <2>1. Request /\ ~irqs[irq].masked /\ edge' = TRUE /\ UNCHANGED <<timeout, missed>>
    BY <1>5 DEF RaiseAgain
  <2>2. SerialTypeOK'
    BY <1>0, <1>1, <2>1 DEF SerialTypeOK, user
  <2>3. Len(<<>>) = 0 /\ Trigger > 0
    BY SerialAssumption
  <2>4. pc[driver] \notin {"uart", "attach"}
    BY <1>0, <2>1, <2>3, SerialAssumption DEF LineInv, Request
  <2>5. LineInv'
    BY <1>0, <1>1, <1>2, <2>1, <2>4 DEF LineInv, user
  <2> QED BY <1>0, <1>1, <1>2, <1>3, <2>2, <2>5 DEF SerialInv
<1> QED BY <1>4, <1>5

(* The interrupt is taken: it wakes the driver, or it stays in the word.   *)
LEMMA RaiseInterruptStep ==
  ASSUME SerialInv, TypeOK', RaiseInterrupt
  PROVE  SerialInv'
<1>0. SerialTypeOK /\ Quiet(k) /\ ModeInv /\ LineInv /\ SentInv /\ FlowInv
  BY DEF SerialInv
<1>1. /\ edge /\ ~irqs[irq].masked /\ edge' = FALSE /\ k' \in KernelMemory
      /\ UNCHANGED <<user, fifo, timeout, missed, typed, output>>
  BY DEF RaiseInterrupt, Interrupt, TypeOK
<1>2. /\ pc[driver] \notin {"uart", "attach"}
      /\ irqs[irq].n = irq_ntfn /\ irqs[irq].badge = irq_badge /\ ~irqs[irq].in_service
      /\ k.word[irq_ntfn] = {} /\ ~Served
      /\ k.bound_tcb[irq_ntfn] = IF pc[driver] \in Setup THEN Null ELSE driver
  BY <1>0, <1>1 DEF LineInv, Request
<1>3. Accepts(irqs, irq)
  BY <1>2, Objects, ObjectsAssumption DEF Accepts, Queues
<1>4. /\ Leave(notification_signal(k, irq_ntfn, irq_badge))
      /\ irqs' = [[irqs EXCEPT ![irq].masked = TRUE] EXCEPT ![irq].in_service = TRUE]
  BY <1>2, <1>3 DEF RaiseInterrupt, Interrupt, handle_irq_signal, handle_irq, mask_irq
<1>5. /\ irqs'[irq].n = irq_ntfn /\ irqs'[irq].badge = irq_badge /\ irqs'[irq].masked
      /\ irqs'[irq].in_service /\ irqs'[irq].issued = irqs[irq].issued
  BY <1>0, <1>2, <1>4, SerialAssumption DEF SerialTypeOK, TypeOK, HandlerRecords
<1>6. SerialTypeOK'
  BY <1>0, <1>1 DEF SerialTypeOK, user
<1>7. SentInv'
  BY <1>0, <1>1, SentStays DEF user
<1>8. mr' = mr /\ pc' = pc /\ local' = local /\ buffer' = buffer /\ sent' = sent
  BY <1>1 DEF user
<1>9. pc[driver] # "ack"
  BY <1>2 DEF Served, Loop
<1>10. CASE k.state[driver] # "RECEIVING"
  <2>1. /\ Quiet(k') /\ SameMode(k, k')
        /\ k'.bound_tcb = k.bound_tcb /\ k'.bound_notification = k.bound_notification
        /\ k'.word[irq_ntfn] = k.word[irq_ntfn] \cup irq_badge
        /\ k'.sender_badge[driver] = k.sender_badge[driver]
    BY <1>0, <1>1, <1>2, <1>4, <1>10, IrqRemembered
  <2>2. k'.word[irq_ntfn] = irq_badge /\ irq_badge # {} /\ k'.state = k.state
    BY <1>2, <2>1, SerialAssumption DEF SameMode
  <2>3. ModeInv' /\ Outgoing' = Outgoing /\ Answer' = Answer /\ (Served' <=> Served)
    BY <1>0, <1>1, <2>1, ModeStays
  <2>4. FlowInv'
    BY <1>0, <1>1, <1>8, <2>3, FlowStays
  <2>5. LineInv'
    BY <1>0, <1>1, <1>2, <1>5, <1>8, <1>9, <1>10, <2>1, <2>2, <2>3 DEF LineInv, Request
  <2> QED BY <1>6, <1>7, <2>1, <2>3, <2>4, <2>5 DEF SerialInv
<1>11. CASE k.state[driver] = "RECEIVING"
  <2>1. /\ pc[driver] = "dispatch"
        /\ \/ ClientRuns(k) /\ (Reading \/ pc[client] = "answer") /\ Answered
           \/ Idle(k) /\ pc[client] = "read"
    BY <1>0, <1>11 DEF ModeInv, Booting, ClientFirst, Sending, Calling, Serving,
                       Waiting, Ready, Mode
  <2>2. k.bound_tcb[irq_ntfn] = driver
    BY <1>2, <2>1 DEF Setup
  <2>3. /\ Quiet(k') /\ Keeps(k, k')
        /\ ClientRuns(k) => Ready(k')
        /\ Idle(k) => Waiting(k')
        /\ k'.sender_badge[driver] = irq_badge
    BY <1>0, <1>1, <1>2, <1>4, <2>1, <2>2, IrqWakes
  <2>4. IsIrq' /\ DriverBusy' /\ k'.state[driver] = "RUNNING"
        /\ k'.state[client] \notin {"SENDING", "CALLING"}
        /\ k.state[client] \notin {"SENDING", "CALLING"}
    BY <1>8, <2>1, <2>3 DEF IsIrq, DriverBusy, Ready, Waiting, ClientRuns, Idle, Mode
  <2>5. (Reading' <=> Reading) /\ (Answered' <=> Answered)
    BY <1>8 DEF Reading, Answered
  <2>6. ModeInv'
    BY <1>8, <2>1, <2>3, <2>4, <2>5 DEF ModeInv
  <2>7. Outgoing' = Outgoing /\ Answer' = Answer
    <3>1. this_tcb # driver
      BY <2>1, Objects DEF this_tcb, ClientRuns, Idle, Mode
    <3> QED BY <1>8, <2>1, <2>4, <3>1 DEF Outgoing, Answer, HasMessage
  <2>8. FlowInv'
    BY <1>0, <1>1, <1>8, <2>7, FlowStays
  <2>9. Served'
    BY <1>8, <2>1, <2>4 DEF Served
  <2>10. LineInv'
    BY <1>0, <1>1, <1>2, <1>5, <1>8, <1>9, <2>1, <2>3, <2>4, <2>9 DEF LineInv, Request, Keeps
  <2> QED BY <1>6, <1>7, <2>3, <2>6, <2>8, <2>10 DEF SerialInv
<1> QED BY <1>10, <1>11

(* The first state: the first program runs, the driver waits to be started. *)
LEMMA SerialStarts == SerialInit => SerialInv /\ Init
<1> SUFFICES ASSUME SerialInit PROVE SerialInv /\ Init
  OBVIOUS
<1>1. Init /\ TypeOK
  <2>1. Init
    BY Objects DEF SerialInit, Init
  <2> QED BY <2>1, InitType
<1>2. /\ k = BootMemory(client) /\ irqs = init_ioapic
      /\ mr = [t \in Threads |-> Message("none", <<>>)]
      /\ pc = [t \in Threads |-> IF t = client THEN "issue" ELSE "uart"]
      /\ buffer = <<>> /\ local = <<>> /\ sent = 0
      /\ fifo = <<>> /\ timeout = FALSE /\ edge = FALSE /\ missed = FALSE
      /\ typed = <<>> /\ output = <<>>
  BY DEF SerialInit
<1>3. pc[client] = "issue" /\ pc[driver] = "uart"
  BY <1>2, Objects
<1>4. SerialTypeOK
  <2>1. Message("none", <<>>) \in [label: Labels, regs: Seq(Registers)]
    BY MessageTypes DEF Labels
  <2>2. mr \in [Threads -> [label: Labels, regs: Seq(Registers)]]
    BY <1>2, <2>1
  <2>3. pc \in [Threads -> Places]
    BY <1>2 DEF Places, Setup
  <2>4. <<>> \in Seq(Chars) /\ 0 \in Nat /\ FALSE \in BOOLEAN
    OBVIOUS
  <2> QED BY <1>1, <1>2, <2>2, <2>3, <2>4 DEF SerialTypeOK
<1>5. Quiet(k) /\ Booting(k) /\ k.word[irq_ntfn] = {} /\ k.bound_tcb[irq_ntfn] = Null
      /\ k.bound_notification[driver] = Null
  BY <1>1, <1>2, Objects DEF Quiet, Booting, Mode, Linked, BootMemory, TypeOK
<1>6. ModeInv
  BY <1>3, <1>5 DEF ModeInv
<1>7. LineInv
  <2>1. irqs[irq].n = Null /\ ~irqs[irq].in_service /\ ~irqs[irq].issued
    BY <1>2, SerialAssumption DEF init_ioapic
  <2> QED BY <1>2, <1>3, <1>5, <2>1 DEF LineInv, Request, Setup
<1>8. SentInv
  BY <1>2, <1>3, SerialAssumption DEF SentInv
<1>9. FlowInv
  <2>1. Outgoing = <<>> /\ Answer = <<>>
    BY <1>3, <1>5 DEF Outgoing, Answer, HasMessage, Booting, Mode
  <2>2. Len(<<>>) = 0 /\ <<>> \in Seq(Chars) /\ Len(Greeting) \in Nat
    BY SerialAssumption
  <2>3. \A f, m : Window(<<>>, f, m)
    BY <2>2 DEF Window
  <2> DEFINE e == <<>>
  <2>4. Len(e) = 0 /\ e \in Seq(Chars) /\ \A f, m : Window(e, f, m)
    BY <2>2, <2>3
  <2> HIDE DEF e
  <2>5. Flow(e, e, e, e, e, e, 0)
    BY <2>2, <2>4 DEF Flow
  <2>6. output = e /\ Outgoing = e /\ Answer = e /\ buffer = e /\ fifo = e /\ typed = e
    BY <1>2, <2>1 DEF e
  <2> QED BY <1>2, <2>5, <2>6 DEF FlowInv
<1> QED BY <1>1, <1>4, <1>5, <1>6, <1>7, <1>8, <1>9 DEF SerialInv

(* Every step keeps the invariant and is one the kernel's contract allows. *)
LEMMA SerialStep ==
  ASSUME SerialInv, [SerialNext]_allvars
  PROVE  SerialInv' /\ [ClientNext]_vars
<1>1. [ClientNext]_vars
  BY ContractStep
<1>2. TypeOK'
  <2>1. TypeOK
    BY DEF SerialInv, SerialTypeOK
  <2> QED BY <1>1, <2>1, ClientNextIsNext, NextType
<1> SUFFICES SerialInv'
  BY <1>1
<1>3. CASE SerialNext
  <2>1. CASE Driver
    BY <1>2, <2>1, InitializeUartStep, AttachStep, BindStep, RecvStep, OuterLoopStep,
       InnerLoopStep, ReadDataStep, SignalReaderStep, AckStep, WriteStep, ReadUartStep
    DEF Driver
  <2>2. CASE Client
    BY <1>2, <2>2, IssueIrqStep, SpawnDriverStep, PrintToSerialStep, ReadSerialStep,
       WaitForDataStep, SendBackStep
    DEF Client
  <2>3. CASE \E b \in Bytes : TypeByte(b)
    BY <1>2, <2>3, TypeByteStep
  <2>4. CASE Timeout \/ RaiseAgain
    BY <1>2, <2>4, UartStep
  <2>5. CASE RaiseInterrupt
    BY <1>2, <2>5, RaiseInterruptStep
  <2> QED BY <1>3, <2>1, <2>2, <2>3, <2>4, <2>5 DEF SerialNext
<1>4. CASE UNCHANGED allvars
  <2>0. SerialTypeOK /\ Quiet(k) /\ ModeInv /\ LineInv /\ SentInv /\ FlowInv
    BY DEF SerialInv
  <2>1. UNCHANGED <<k, irqs, user, fifo, timeout, edge, missed, typed, output>>
    BY <1>4 DEF allvars, uart
  <2>2. ModeInv' /\ Outgoing' = Outgoing /\ Answer' = Answer /\ (Served' <=> Served)
    BY <2>0, <2>1, ModeStays, SameModeRefl
  <2>3. SerialTypeOK' /\ Quiet(k') /\ SentInv' /\ FlowInv'
    BY <1>2, <2>0, <2>1, <2>2, SentStays, FlowStays DEF SerialTypeOK, user
  <2>4. LineInv'
    BY <2>0, <2>1, <2>2, LineStays DEF Keeps, user
  <2> QED BY <2>0, <2>1, <2>2, <2>3, <2>4 DEF SerialInv
<1> QED BY <1>3, <1>4


-----------------------------------------------------------------------------
(* The invariant of the driver, the first program and the kernel beneath   *)
(* them: the kernel is always in one of the nine modes, with the programs  *)
(* where that mode allows, an interrupt neither lost nor taken twice, and  *)
(* every byte in its place.                                                *)
THEOREM SerialIsInvariant == SerialSpec => []SerialInv
<1> QED BY SerialStarts, SerialStep, PTL DEF SerialSpec

(* The driver and the first program call the kernel only as its contract   *)
(* allows, so what is proved of the kernel under that contract holds here. *)
THEOREM SerialKeepsContract == SerialSpec => KeepsContract
<1> QED BY SerialStarts, SerialStep, SerialIsInvariant, PTL
        DEF SerialSpec, KeepsContract, ClientSpec

(* A step of the programs or the hardware is one of the byte stream. *)
LEMMA StreamStep ==
  ASSUME SerialInv, [SerialNext]_allvars
  PROVE  [Stream!Next]_<<typed, output>>
<1>1. CASE WriteFirst \/ WriteRest
  <2>1. /\ Len(output) < Len(DueOf(typed))
        /\ output' = Append(output, DueOf(typed)[Len(output) + 1]) /\ UNCHANGED typed
    BY <1>1, WriteStep
  <2>2. DueOf(typed) = Stream!Due
    BY DEF DueOf, Stream!Due
  <2> QED BY <2>1, <2>2 DEF Stream!Next, Stream!Emit
<1>2. ASSUME NEW b \in Bytes, TypeByte(b)
      PROVE  Stream!Next
  BY <1>2 DEF TypeByte, Stream!Next, Stream!Type
<1>3. CASE Driver /\ ~(WriteFirst \/ WriteRest)
  BY <1>3 DEF Driver, InitializeUart, Attach, Bind, Recv, OuterLoop, InnerLoop, ReadData,
              SignalReader, Ack, ReadUart, uart
<1>4. CASE Client
  BY <1>4 DEF Client, IssueIrq, SpawnDriver, PrintToSerial, ReadSerial, WaitForData,
              SendBack, uart
<1>5. CASE RaiseInterrupt
  BY <1>5 DEF RaiseInterrupt
<1>6. CASE Timeout \/ RaiseAgain
  BY <1>6 DEF Timeout, RaiseAgain
<1>7. CASE UNCHANGED allvars
  BY <1>7 DEF allvars, uart
<1> QED BY <1>1, <1>2, <1>3, <1>4, <1>5, <1>6, <1>7 DEF SerialNext

(* The serial line is the byte stream: after the greeting the bytes typed  *)
(* come back capitalised, in order, none lost, repeated or invented, for   *)
(* buffers and inputs of any size.  A message longer than write_uart's     *)
(* copy ends the behaviours this speaks of (WriteFirst): the code then     *)
(* overwrites its stack (serial_driver.c, serial_capitalization_server).   *)
THEOREM SerialIsByteStream == SerialSpec => IsByteStream
<1>1. SerialInit => Stream!Init
  BY DEF SerialInit, Stream!Init
<1> QED BY <1>1, StreamStep, SerialIsInvariant, PTL DEF SerialSpec, IsByteStream, Stream!Spec

(* When the CPU idles and no interrupt is pending, the line is open, both  *)
(* programs wait, each byte typed was written back or lies in the driver's *)
(* buffer or the UART, and the UART requests nothing, unless the request   *)
(* rose between handle_irq's last look at the line status and its          *)
(* acknowledgement (serial_driver.c).                                      *)
THEOREM SerialNeverStuck == SerialSpec => []NothingStuck
<1>1. SerialInv => NothingStuck
  <2> SUFFICES ASSUME SerialInv, this_tcb = Null, ~edge
               PROVE  /\ ~irqs[irq].masked /\ (Request => missed)
                      /\ OnList(k.list[endpoint], driver) /\ OnList(k.list[read_ntfn], client)
                      /\ Len(output) + Len(buffer) + Len(fifo) = Len(Greeting) + Len(typed)
    BY DEF NothingStuck
  <2>0. SerialTypeOK /\ Quiet(k) /\ ModeInv /\ LineInv /\ SentInv /\ FlowInv
    BY DEF SerialInv
  <2>1. Idle(k) /\ pc[driver] = "dispatch" /\ pc[client] = "read"
    BY <2>0, Objects DEF ModeInv, Booting, ClientFirst, ClientRuns, Sending, Calling,
                         Serving, Waiting, Ready, Mode, this_tcb
  <2>2. k.state[driver] = "RECEIVING" /\ k.state[client] = "RECEIVING" /\ ~Served
    BY <2>1 DEF Idle, Mode, Served, Loop
  <2>3. (Request => missed) /\ ~irqs[irq].masked
    BY <2>0, <2>1, <2>2 DEF LineInv
  <2>4. OnList(k.list[endpoint], driver) /\ OnList(k.list[read_ntfn], client)
    BY <2>1, Single DEF Idle, Linked
  <2>5. Outgoing = <<>> /\ Answer = <<>> /\ sent = Len(Greeting)
    BY <2>0, <2>1, <2>2, Objects DEF Outgoing, Answer, SentInv
  <2>6. Flow(output, <<>>, <<>>, buffer, fifo, typed, Len(Greeting))
    BY <2>0, <2>5 DEF FlowInv
  <2>7. /\ Len(<<>>) = 0 /\ Len(output) \in Nat /\ Len(buffer) \in Nat /\ Len(typed) \in Nat
        /\ Len(fifo) \in Nat /\ Len(Greeting) \in Nat
    BY <2>0, SerialAssumption DEF SerialTypeOK
  <2>8. Len(output) + Len(<<>>)
          = Len(Greeting) + (Len(typed) - (Len(<<>>) + Len(buffer) + Len(fifo)))
    BY <2>6 DEF Flow
  <2>9. Len(output) + Len(buffer) + Len(fifo) = Len(Greeting) + Len(typed)
    BY <2>7, <2>8
  <2> QED BY <2>3, <2>4, <2>9
<1> QED BY <1>1, SerialIsInvariant, PTL

(* So the kernel under these programs never stops, never leaves a thread   *)
(* asleep that a signal should have woken, and never opens a line that is  *)
(* still served.                                                           *)
THEOREM SerialIsSafe == SerialSpec => [](NeverPanics /\ NoLostWakeup /\ InServiceMasked)
<1> QED BY SerialKeepsContract, KernelNeverPanics, NoWakeupIsLost, ServiceIsMasked, PTL
        DEF KeepsContract


=============================================================================
