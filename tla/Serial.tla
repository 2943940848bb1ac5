------------------------------- MODULE Serial -------------------------------
(***************************************************************************)
(* The serial driver and the capitalising server of the first program      *)
(* (user/serial_driver.c, serial_driver.h, user/userland.c) on the kernel  *)
(* of module Kernel: two threads, the driver's endpoint, the notification  *)
(* its interrupt signals (bound to the driver) and the one that tells the  *)
(* client that there is something to read.                                 *)
(*                                                                         *)
(* A step is one system call of the running thread with the code after the *)
(* call before it, or an interrupt, or a byte typed.  mr holds the message *)
(* registers and the label of each thread's last message.  A system call   *)
(* on an I/O port overwrites the registers of the thread that makes it.    *)
(*                                                                         *)
(* The UART (external) requests an interrupt when its FIFO holds Trigger   *)
(* bytes, or fewer for a while that none is read.  The line is edge        *)
(* triggered: the I/O APIC sees the request rise, and drops the edge when  *)
(* the line is masked.  Contract: nothing is typed before the driver has   *)
(* attached its interrupt handler, a sender waits while the FIFO is full,  *)
(* a byte written has left before the next, and no message of more than    *)
(* CopySize bytes is written: after one the stack is overwritten, and the  *)
(* driver does no further step here.                                       *)
(***************************************************************************)
EXTENDS Kernel

CONSTANTS driver, client,           \* the threads
          endpoint,                 \* SERIAL_ENDPOINT_CAP
          irq_ntfn, read_ntfn,      \* the notifications
          irq,                      \* line 4
          irq_badge,                \* the badge 0xFFFF
          Bytes, Capital, Greeting, \* see ByteStream
          BufferSize,               \* SERIAL_BUFFER_SIZE
          CopySize,                 \* the 128 bytes of write_uart's copy
          Trigger, FifoSize,        \* of the FIFO: 14 by FIFO_CONTROL, of 16
          MaxTyped                  \* bound on the bytes typed

ASSUME SerialAssumption ==
  /\ Threads = {driver, client} /\ driver # client
  /\ endpoint \in Endpoints /\ {irq_ntfn, read_ntfn} \subseteq Notifications
  /\ irq_ntfn # read_ntfn
  /\ irq \in Irqs /\ irq_badge \in Badges \ {{}}
  /\ Capital \in [DOMAIN Capital -> DOMAIN Capital]
  /\ Bytes \subseteq DOMAIN Capital /\ Greeting \in Seq(DOMAIN Capital)
  /\ {BufferSize, CopySize, FifoSize, MaxTyped} \subseteq Nat /\ Trigger \in Nat \ {0}

VARIABLES mr,      \* thread -> the label and the registers of its IPC buffer
          pc,      \* thread -> where it goes on
          buffer,  \* the driver's buffer of bytes read
          local,   \* write_uart's copy of the message
          sent,    \* print_to_serial: the bytes of the greeting sent
          fifo,    \* the UART's receive FIFO
          timeout, \* the UART's FIFO has held bytes for a while
          edge,    \* an interrupt is pending at the CPU
          missed,  \* history: see Rise
          typed, output   \* history: the bytes in and out of the UART

user == <<mr, pc, buffer, local, sent>>
uart == <<fifo, timeout, edge, missed, typed, output>>
allvars == <<k, irqs, user, uart>>

Message(label, regs) == [label |-> label, regs |-> regs]
WRITE == "SERIAL_DRIVER_WRITE"
READ == "SERIAL_DRIVER_READ"

SerialInit ==
  /\ k = BootMemory(client) /\ irqs = init_ioapic
  /\ mr = [t \in Threads |-> Message("none", <<>>)]
  /\ pc = [t \in Threads |-> IF t = client THEN "issue" ELSE "uart"]
  /\ buffer = <<>> /\ local = <<>> /\ sent = 0
  /\ fifo = <<>> /\ timeout = FALSE /\ edge = FALSE /\ missed = FALSE
  /\ typed = <<>> /\ output = <<>>

Runs(t, at) == this_tcb = t /\ k.panic = NoPanic /\ pc[t] = at
Goto(t, at) == pc' = [pc EXCEPT ![t] = at]

(* The message goes along with a send or a call when the receiver waits;   *)
(* otherwise it stays with the sender, and the receiver fetches it.        *)
SendMessage(t, msg) ==
  mr' = IF send_will_block(k, endpoint) THEN [mr EXCEPT ![t] = msg]
        ELSE [mr EXCEPT ![t] = msg, ![Head(k.list[endpoint])] = msg]

RecvMessage(t) ==
  mr' = IF HasPendingNotification(k) \/ recv_will_block(k, endpoint) THEN mr
        ELSE [mr EXCEPT ![t] = mr[Head(k.list[endpoint])]]

ReplyMessage(t, msg) == mr' = [mr EXCEPT ![t] = msg, ![k.reply_to[t]] = msg]

(* A call on the I/O port capability: the kernel does not switch threads.  *)
PortCall(regs) ==
  /\ UNCHANGED <<k, irqs>>
  /\ mr' = [mr EXCEPT ![driver] = Message("port", regs)]

-----------------------------------------------------------------------------
(* The driver. *)

(* initialize_uart; nobody listens to the line yet. *)
InitializeUart == /\ Runs(driver, "uart")
                  /\ PortCall(<<"UART_INT_ENABLE">>)
                  /\ Goto(driver, "attach")
                  /\ UNCHANGED <<buffer, local, sent, uart>>

Attach == /\ Runs(driver, "attach")
          /\ IrqHandlerSetNotification(irq, irq_ntfn, irq_badge)
          /\ Goto(driver, "bind")
          /\ UNCHANGED <<mr, buffer, local, sent, uart>>

Bind == /\ Runs(driver, "bind")
        /\ TcbBindNotification(driver, irq_ntfn)
        /\ Goto(driver, "recv")
        /\ UNCHANGED <<mr, buffer, local, sent, uart>>

Recv == /\ Runs(driver, "recv")
        /\ SysRecv(endpoint)
        /\ RecvMessage(driver)
        /\ Goto(driver, "dispatch")
        /\ UNCHANGED <<buffer, local, sent, uart>>

IsIrq == k.sender_badge[driver] = irq_badge

(* What is_data_available reads, and leaves in the message registers. *)
LineStatus == IF fifo # <<>> THEN "ready" ELSE "empty"

(* handle_irq, the outer loop: is there data? *)
AtOuterLoop == Runs(driver, "outer") \/ (Runs(driver, "dispatch") /\ IsIrq)

OuterLoop == /\ AtOuterLoop
             /\ PortCall(<<LineStatus>>)
             /\ Goto(driver, IF fifo # <<>> THEN "inner" ELSE "ack")
             /\ UNCHANGED <<buffer, local, sent, uart>>

InnerLoop ==
  /\ Runs(driver, "inner")
  /\ PortCall(<<LineStatus>>)
  /\ Goto(driver, IF fifo # <<>> /\ Len(buffer) < BufferSize THEN "data" ELSE "signal")
  /\ UNCHANGED <<buffer, local, sent, uart>>

ReadData == /\ Runs(driver, "data")
            /\ PortCall(<<Head(fifo)>>)
            /\ buffer' = Append(buffer, Head(fifo))
            /\ fifo' = Tail(fifo) /\ timeout' = FALSE /\ missed' = FALSE
            /\ Goto(driver, "inner")
            /\ UNCHANGED <<local, sent, edge, typed, output>>

(* Mutant: the line status is not looked at again. *)
SignalReader_mutant == /\ Runs(driver, "signal")
                       /\ SysSignal(read_ntfn, {})
                       /\ Goto(driver, "ack")
                       /\ UNCHANGED <<mr, buffer, local, sent, uart>>

(* The client's notification capability has no badge: the word stays zero, *)
(* and a signal that finds nobody waiting leaves no trace.                 *)
SignalReader == /\ Runs(driver, "signal")
                /\ SysSignal(read_ntfn, {})
                /\ Goto(driver, "outer")
                /\ UNCHANGED <<mr, buffer, local, sent, uart>>

(* Mutant: the line stays in service. *)
Ack_mutant == /\ Runs(driver, "ack")
              /\ UNCHANGED <<k, irqs>>
              /\ Goto(driver, "recv")
              /\ UNCHANGED <<mr, buffer, local, sent, uart>>

Ack == /\ Runs(driver, "ack")
       /\ IrqHandlerAck(irq)
       /\ Goto(driver, "recv")
       /\ UNCHANGED <<mr, buffer, local, sent, uart>>

Received(label) == Runs(driver, "dispatch") /\ ~IsIrq /\ mr[driver].label = label

(* write_uart copies the message first; then one byte after the other. *)
WriteBytes(bytes) ==
  /\ PortCall(<<Head(bytes)>>)
  /\ output' = Append(output, Head(bytes))
  /\ local' = Tail(bytes)
  /\ Goto(driver, IF Len(bytes) = 1 THEN "recv" ELSE "write")
  /\ UNCHANGED <<buffer, sent, fifo, timeout, edge, missed, typed>>

(* Mutant: a write is answered, though it was sent and not called. *)
WriteFirst_mutant == /\ Received(WRITE)
                     /\ SysReply
                     /\ local' = mr[driver].regs
                     /\ Goto(driver, "write")
                     /\ UNCHANGED <<mr, buffer, sent, uart>>

WriteFirst == /\ Received(WRITE) /\ Len(mr[driver].regs) <= CopySize
              /\ WriteBytes(mr[driver].regs)

Overrun == Received(WRITE) /\ Len(mr[driver].regs) > CopySize

(* Mutant: each byte is taken from the message when it is written. *)
WriteRest_mutant ==
  Runs(driver, "write") /\ WriteBytes(<<mr[driver].regs[1]>> \o Tail(local))

WriteRest == Runs(driver, "write") /\ WriteBytes(local)

ReadUart ==
  /\ Received(READ)
  /\ SysReply
  /\ ReplyMessage(driver, IF buffer = <<>> THEN Message("WOULD_BLOCK", <<>>)
                          ELSE Message("data", buffer))
  /\ buffer' = <<>>
  /\ Goto(driver, "recv")
  /\ UNCHANGED <<local, sent, uart>>

Driver == \/ InitializeUart \/ Attach \/ Bind \/ Recv
          \/ OuterLoop \/ InnerLoop \/ ReadData \/ SignalReader \/ Ack
          \/ WriteFirst \/ WriteRest \/ ReadUart

-----------------------------------------------------------------------------
(* The first program. *)

(* spawn_serial_driver: the driver's capabilities, of which only the line's *)
(* handler is state here, and then the driver is started.                  *)
IssueIrq == /\ Runs(client, "issue")
            /\ IrqControlGet(irq)
            /\ Goto(client, "spawn")
            /\ UNCHANGED <<mr, buffer, local, sent, uart>>

SpawnDriver == /\ Runs(client, "spawn")
               /\ TcbResume(driver)
               /\ Goto(client, IF Greeting = <<>> THEN "read" ELSE "print")
               /\ UNCHANGED <<mr, buffer, local, sent, uart>>

Send(msg) == SysSend(endpoint, {}) /\ SendMessage(client, msg)

(* print_to_serial sends one byte at a time. *)
PrintToSerial == /\ Runs(client, "print")
                 /\ Send(Message(WRITE, <<Greeting[sent + 1]>>))
                 /\ sent' = sent + 1
                 /\ Goto(client, IF sent + 1 = Len(Greeting) THEN "read" ELSE "print")
                 /\ UNCHANGED <<buffer, local, uart>>

(* read_serial asks, and waits when there is nothing. *)
ReadSerial == /\ Runs(client, "read")
              /\ SysCall(endpoint, {})
              /\ SendMessage(client, Message(READ, <<>>))
              /\ Goto(client, "answer")
              /\ UNCHANGED <<buffer, local, sent, uart>>

(* Mutant: asks again at once. *)
WaitForData_mutant == /\ Runs(client, "answer") /\ mr[client].label = "WOULD_BLOCK"
                      /\ SysCall(endpoint, {})
                      /\ SendMessage(client, Message(READ, <<>>))
                      /\ Goto(client, "answer")
                      /\ UNCHANGED <<buffer, local, sent, uart>>

WaitForData == /\ Runs(client, "answer") /\ mr[client].label = "WOULD_BLOCK"
               /\ SysWait(read_ntfn)
               /\ Goto(client, "read")
               /\ UNCHANGED <<mr, buffer, local, sent, uart>>

Capitalize(regs) == [i \in DOMAIN regs |-> Capital[regs[i]]]

(* serial_capitalization_server sends the bytes back. *)
SendBack == /\ Runs(client, "answer") /\ mr[client].label # "WOULD_BLOCK"
            /\ Send(Message(WRITE, Capitalize(mr[client].regs)))
            /\ Goto(client, "read")
            /\ UNCHANGED <<buffer, local, sent, uart>>

Client == \/ IssueIrq \/ SpawnDriver \/ PrintToSerial
          \/ ReadSerial \/ WaitForData \/ SendBack

-----------------------------------------------------------------------------
(* The hardware. *)

(* The level of the UART's interrupt output. *)
Request == timeout \/ Len(fifo) >= Trigger

(* When it rises, the I/O APIC takes the edge unless the line is masked;   *)
(* missed remembers a rise between the driver's last look at the line      *)
(* status and its acknowledgement.                                         *)
Rise == IF Request' /\ ~Request
          THEN /\ edge' = (edge \/ ~irqs[irq].masked)
               /\ missed' = (missed \/ pc[driver] = "ack")
          ELSE UNCHANGED <<edge, missed>>

TypeByte(b) == /\ Len(typed) < MaxTyped /\ Len(fifo) < FifoSize
               /\ irqs[irq].n # Null
               /\ typed' = Append(typed, b)
               /\ fifo' = Append(fifo, b)
               /\ UNCHANGED <<k, irqs, user, timeout, output>>
               /\ Rise

Timeout == /\ fifo # <<>> /\ ~timeout
           /\ timeout' = TRUE
           /\ UNCHANGED <<k, irqs, user, fifo, typed, output>>
           /\ Rise

(* QEMU sets the line again on a later byte or access while the request    *)
(* lasts; a UART of its own does not.                                      *)
RaiseAgain == /\ Request /\ ~irqs[irq].masked
              /\ edge' = TRUE
              /\ UNCHANGED <<k, irqs, user, fifo, timeout, missed, typed, output>>

RaiseInterrupt == /\ edge
                  /\ Interrupt(irq)
                  /\ edge' = FALSE
                  /\ UNCHANGED <<user, fifo, timeout, missed, typed, output>>

SerialNext == \/ Driver
              \/ Client
              \/ \E b \in Bytes : TypeByte(b)
              \/ Timeout \/ RaiseAgain \/ RaiseInterrupt

(* The CPU goes on with the thread that runs, and takes an interrupt that  *)
(* stays pending; the UART's timer runs out.  Nobody has to type.          *)
SerialSpec == /\ SerialInit /\ [][SerialNext]_allvars
              /\ WF_allvars(Driver) /\ WF_allvars(Client)
              /\ WF_allvars(Timeout) /\ WF_allvars(RaiseInterrupt)

-----------------------------------------------------------------------------
Stream == INSTANCE ByteStream

(* The serial line is the byte stream of module ByteStream: what the UART  *)
(* sends is the greeting and the capitalised input, byte for byte, though  *)
(* it passes through two IPC buffers that port accesses overwrite          *)
(* (write_uart, read_uart, serial_capitalization_server).                  *)
IsByteStream == Stream!Spec

(* The driver and the first program keep to the kernel's contract: every   *)
(* step they take is one of module Kernel's ClientNext.                    *)
KeepsContract == ClientSpec

(* When the CPU idles with no interrupt pending, the line is open again,   *)
(* both programs wait, and every byte typed was sent back, or lies in the  *)
(* driver's buffer (a signal that came before the client waited delays it  *)
(* until the next one is typed), or in the UART.  There the timer finds    *)
(* it, unless the request rose between the driver's last look at the line  *)
(* status and its acknowledgement: only then is it up and unseen.          *)
NothingStuck ==
  this_tcb = Null /\ ~edge =>
    /\ ~irqs[irq].masked /\ (Request => missed)
    /\ OnList(k.list[endpoint], driver) /\ OnList(k.list[read_ntfn], client)
    /\ Len(output) + Len(buffer) + Len(fifo) = Len(Greeting) + Len(typed)

(* handle_irq does not come to an end while a byte waits that its buffer   *)
(* has no room for.                                                        *)
BufferFull == Len(buffer) = BufferSize /\ fifo # <<>>

(* A byte in the UART is fetched by the driver, but for a request that it  *)
(* missed (see NothingStuck), a full buffer, or an overrun stack           *)
(* (handle_irq and the mask of the line, against the UART's own edges).    *)
BytesAreFetched == fifo # <<>> ~> fifo = <<>> \/ missed \/ BufferFull \/ Overrun

(* The CPU always comes to rest: neither the interrupt handler's loops nor *)
(* the client's polling goes on for ever, unless the buffer is full or the *)
(* stack overrun (handle_irq, read_serial).                                *)
ComesToRest == []<>(this_tcb = Null) \/ <>[](BufferFull \/ Overrun)

=============================================================================
