----------------------------- MODULE PciManager -----------------------------
(***************************************************************************)
(* The PCI manager (user/pci_manager.c) and a client of it.  The client    *)
(* invokes methods of its own kernel objects, with the stubs or with tags  *)
(* of its own making, and asks the manager over an endpoint.  The manager  *)
(* serves each request with method calls of its own, through the one IPC   *)
(* buffer that also holds the request.                                     *)
(*                                                                         *)
(* A byte has ByteSize values, a register of configuration space 4 bytes.  *)
(* The address of a byte is 256 * function + offset.                       *)
(***************************************************************************)
EXTENDS Dispatch

CONSTANTS ByteSize,     \* number of values of a byte (256 in the machine)
          Buses,        \* number of buses
          Functions,    \* number of device functions of a bus
          NQwords,      \* qwords returned by DEVICE_INFO (8 in the code)
          MaxLength,    \* MESSAGE_MAX_LENGTH
          Config0,      \* the bytes of the functions that exist: address -> byte
          Requests,     \* the requests of the client: label, badge and words
          CallMethods,  \* the methods the client invokes on its own objects
          MaxTurns,     \* the number of calls and requests of the client
          NoCap         \* an empty capability slot

ASSUME PciAssumption ==
  /\ {ByteSize, Buses, Functions, NQwords, MaxLength, MaxTurns} \subseteq Nat
  /\ MaxLength <= NMr
  /\ CallMethods \subseteq Methods

VARIABLES buf,     \* the IPC buffer of each thread
          config,  \* the bytes of configuration space
          latch,   \* the address written last to PCI_CONFIG_ADDRESS
          lanes,   \* the host bridge uses the low two bits of that address
          tmp,     \* PCI_TMP_CAP: NoCap or the badge of the endpoint capability in it
          call,    \* history only: the client's last method call and what the kernel ran
          turns,   \* the calls and requests made so far
          job      \* the request at the manager; history: what it asked and was answered

vars == <<buf, config, latch, lanes, tmp, call, turns, job>>

-----------------------------------------------------------------------------
(* The device side: the ports 0xCF8 and 0xCFC (external).  The low two     *)
(* bits of an address are reserved, and zero on a bus; QEMU's host bridge  *)
(* uses them.                                                              *)
PCI_CONFIG_ADDRESS == 3320
PCI_CONFIG_DATA == 3324
LastPort == 3327

Width(w) == ByteSize ^ w
Dword == Width(4)
AllOnes == Dword - 1

FirstByte(m) == IF m.lanes THEN m.latch ELSE m.latch - (m.latch % 4)

ReadConfig(m, w) ==
  LET byte(i) == IF FirstByte(m) + i \in DOMAIN m.config THEN m.config[FirstByte(m) + i]
                 ELSE ByteSize - 1
      value[i \in 0..w] == IF i = 0 THEN 0 ELSE value[i - 1] + byte(i - 1) * Width(i - 1)
  IN  value[w]

WriteConfig(m, value, w) ==
  LET first == FirstByte(m)
  IN  [a \in DOMAIN m.config |->
         IF a \in first..(first + w - 1) THEN (value \div Width(a - first)) % ByteSize
         ELSE m.config[a]]

-----------------------------------------------------------------------------
(* The manager's own system calls, on its state                            *)
(*   m = [buf, config, latch, lanes, tmp].                                 *)
PCI_ENDPOINT_CAP == 0
PCI_PORT_CAP == 1
PCI_CNODE_CAP == 2
PCI_TMP_CAP == 3

ManagerCSpace(m) ==
  CSpace("CNODE",
         (PCI_ENDPOINT_CAP :> "ENDPOINT") @@ (PCI_PORT_CAP :> "IO_PORT")
         @@ (PCI_CNODE_CAP :> "CNODE")
         @@ (PCI_TMP_CAP :> IF m.tmp = NoCap THEN "NULL" ELSE "ENDPOINT"))

x86_64_io_port_range_check(port, size) == PCI_CONFIG_ADDRESS <= port /\ port + size <= LastPort + 1

(* Both port methods test the range for one byte, whatever their width.    *)
x86_64_io_port_in(m, port, w) ==
  IF x86_64_io_port_range_check(port, 1)
    THEN [m EXCEPT !.buf = SetMrs(@, <<IF port = PCI_CONFIG_DATA
                                         THEN ReadConfig(m, w)
                                         ELSE m.latch>>)]
    ELSE [m EXCEPT !.buf = SetMrs(@, <<PCI_CONFIG_ADDRESS, LastPort>>)]

x86_64_io_port_out(m, port, value, w) ==
  IF ~x86_64_io_port_range_check(port, 1)
    THEN [m EXCEPT !.buf = SetMrs(@, <<PCI_CONFIG_ADDRESS, LastPort>>)]
  ELSE IF port = PCI_CONFIG_DATA
    THEN [m EXCEPT !.config = WriteConfig(m, value, w)]
  ELSE [m EXCEPT !.latch = value]

cnode_delete(m, index) ==
  IF index = PCI_TMP_CAP THEN [m EXCEPT !.tmp = NoCap] ELSE m

(* Only the endpoint capability in slot 0, which has no badge, is minted   *)
(* from, and only into the temporary slot; a full slot is DELETE_FIRST.    *)
cnode_mint(m, dest_index, src_index, badge) ==
  IF m.tmp = NoCap /\ dest_index = PCI_TMP_CAP /\ src_index = PCI_ENDPOINT_CAP
    THEN [m EXCEPT !.tmp = badge]
    ELSE m

Handler(m, out) ==
  LET a == out.args
  IN  CASE out.run = "x86_64_io_port_in8"   -> x86_64_io_port_in(m, a["port"], 1)
        [] out.run = "x86_64_io_port_in16"  -> x86_64_io_port_in(m, a["port"], 2)
        [] out.run = "x86_64_io_port_in32"  -> x86_64_io_port_in(m, a["port"], 4)
        [] out.run = "x86_64_io_port_out8"  -> x86_64_io_port_out(m, a["port"], a["value"], 1)
        [] out.run = "x86_64_io_port_out16" -> x86_64_io_port_out(m, a["port"], a["value"], 2)
        [] out.run = "x86_64_io_port_out32" -> x86_64_io_port_out(m, a["port"], a["value"], 4)
        [] out.run = "cnode_delete"         -> cnode_delete(m, a["index"])
        [] out.run = "cnode_mint"           -> cnode_mint(m, a["dest_index"], a["src_index"],
                                                          a["badge"])
        [] OTHER -> m

Invoke(m, cptr, method, args, cptrs) ==
  LET Ran(out) == Handler([m EXCEPT !.buf = out.buf], out)
  IN  Ran(sys_call(ManagerCSpace(m), cptr, StubTag(method),
                   StubBuffer(m.buf, method, args, cptrs)))

In(m, port, w) ==
  Invoke(m, PCI_PORT_CAP,
         CASE w = 1 -> "x86_64_io_port_in8" [] w = 2 -> "x86_64_io_port_in16"
           [] w = 4 -> "x86_64_io_port_in32",
         [port |-> port], <<>>)

Out(m, port, value, w) ==
  Invoke(m, PCI_PORT_CAP,
         CASE w = 1 -> "x86_64_io_port_out8" [] w = 2 -> "x86_64_io_port_out16"
           [] w = 4 -> "x86_64_io_port_out32",
         [port |-> port, value |-> value], <<>>)

(* pci_read_l, _w and _b; the value is left in register 0. *)
pci_read(m, addr, w) == In(Out(m, PCI_CONFIG_ADDRESS, addr, 4), PCI_CONFIG_DATA, w)

(* Mutant: the data goes out before the address. *)
pci_write_mutant(m, addr, value, w) ==
  Out(Out(m, PCI_CONFIG_DATA, value, w), PCI_CONFIG_ADDRESS, addr, 4)

pci_write(m, addr, value, w) ==
  Out(Out(m, PCI_CONFIG_ADDRESS, addr, 4), PCI_CONFIG_DATA, value, w)

-----------------------------------------------------------------------------
(* The handlers: the manager's state after a request and the tag it        *)
(* replies with.                                                           *)
Answer(m, label, length) == [m |-> m, tag |-> new_message_tag(label, 0, length)]

AnswerWith(m, label, words) == Answer([m EXCEPT !.buf = SetMrs(@, words)], label, Len(words))

(* What a handler collected: the manager's state and the words. *)
AnswerAll(all) == AnswerWith(all.m, "NO_ERROR", all.words)

pci_addr(bus, func) == 256 * (1 + bus * Functions + func)

(* One register read and put behind the words so far. *)
Read(prev, addr) ==
  LET Keep(m) == [m |-> m, words |-> Append(prev.words, m.buf.mr[0])]
  IN  Keep(pci_read(prev.m, addr, 4))

Packed(dwords) == [i \in 1..(Len(dwords) \div 2) |-> dwords[2 * i] * Dword + dwords[2 * i - 1]]

(* Reads 2 * n registers from addr on and packs them into n words. *)
ReadQwords(m, addr, n) ==
  LET dword[i \in 0..(2 * n)] ==
        IF i = 0 THEN [m |-> m, words |-> <<>>]
        ELSE Read(dword[i - 1], addr + (i - 1) * 4)
  IN  [dword[2 * n] EXCEPT !.words = Packed(@)]

handle_device_info(m, tag, badge) ==
  LET addr == m.buf.mr[0]
  IN  IF badge # 0 /\ badge # addr
        THEN Answer(m, "ILLEGAL_OPERATION", 0)
        ELSE AnswerAll(ReadQwords(m, addr, NQwords))

(* The functions in the order of the loops: a bus whose first function     *)
(* does not answer is skipped, and the message is full at MaxLength.       *)
Scan(m) ==
  LET Probed(prev, n) == [m |-> n, words |-> prev.words, skip |-> n.buf.mr[0] = AllOnes]
      Found(prev, n, addr) ==
        [m |-> n, skip |-> FALSE,
         words |-> IF n.buf.mr[0] = AllOnes THEN prev.words
                   ELSE Append(prev.words, addr * Dword + n.buf.mr[0])]
      Visit(prev, addr) ==
        IF prev.skip THEN prev ELSE Found(prev, pci_read(prev.m, addr, 4), addr)
      Enter(prev, bus, func) ==
        IF func = 0 THEN Probed(prev, pci_read(prev.m, pci_addr(bus, 0), 4)) ELSE prev
      Step(prev, bus, func) ==
        IF Len(prev.words) >= MaxLength THEN prev
        ELSE Visit(Enter(prev, bus, func), pci_addr(bus, func))
      step[i \in 0..(Buses * Functions)] ==
        IF i = 0 THEN [m |-> m, words |-> <<>>, skip |-> FALSE]
        ELSE Step(step[i - 1], (i - 1) \div Functions, (i - 1) % Functions)
  IN  step[Buses * Functions]

handle_enumerate(m, tag, badge) ==
  IF badge # 0 THEN Answer(m, "ILLEGAL_OPERATION", 0)
  ELSE AnswerAll(Scan(m))

(* The badge of the new capability is register 1 as cnode_delete left it.  *)
handle_issue(m, tag, badge) ==
  IF badge # 0 THEN Answer(m, "ILLEGAL_OPERATION", 0)
  ELSE IF tag.length < 1 THEN AnswerWith(m, "TRUNCATED_MESSAGE", <<1>>)
  ELSE LET deleted == Invoke(m, PCI_CNODE_CAP, "cnode_delete",
                             [index |-> PCI_TMP_CAP, depth |-> 64], <<>>)
           minted == Invoke(deleted, PCI_CNODE_CAP, "cnode_mint",
                            [dest_index |-> PCI_TMP_CAP, dest_depth |-> 64,
                             src_index |-> PCI_ENDPOINT_CAP, src_depth |-> 64,
                             rights |-> 15, badge |-> deleted.buf.mr[1]],
                            [src_root |-> PCI_CNODE_CAP])
       IN  [m |-> [minted EXCEPT !.buf = SetCaps(@, <<PCI_TMP_CAP>>)],
            tag |-> new_message_tag("NO_ERROR", 1, 0)]

(* badge | (offset & 0xFF); the low byte of a badge is 0. *)
Addressed(badge, offset) == badge + (offset % 256)

handle_read(m, tag, badge) ==
  IF tag.length < 2 THEN AnswerWith(m, "TRUNCATED_MESSAGE", <<2>>)
  ELSE IF m.buf.mr[1] \notin {1, 2, 4} THEN AnswerWith(m, "INVALID_ARGUMENT", <<1>>)
  ELSE Answer(pci_read(m, Addressed(badge, m.buf.mr[0]), m.buf.mr[1]), "NO_ERROR", 1)

handle_write(m, tag, badge) ==
  IF tag.length < 3 THEN AnswerWith(m, "TRUNCATED_MESSAGE", <<3>>)
  ELSE IF m.buf.mr[2] \notin {1, 2, 4} THEN AnswerWith(m, "INVALID_ARGUMENT", <<1>>)
  ELSE Answer(pci_write(m, Addressed(badge, m.buf.mr[0]), m.buf.mr[1], m.buf.mr[2]),
              "NO_ERROR", 0)

Serve(m, tag, badge) ==
  CASE tag.label = "ISSUE"       -> handle_issue(m, tag, badge)
    [] tag.label = "READ"        -> handle_read(m, tag, badge)
    [] tag.label = "WRITE"       -> handle_write(m, tag, badge)
    [] tag.label = "DEVICE_INFO" -> handle_device_info(m, tag, badge)
    [] tag.label = "ENUMERATE"   -> handle_enumerate(m, tag, badge)
    [] OTHER                     -> AnswerWith(m, "INVALID_ARGUMENT", <<0>>)

-----------------------------------------------------------------------------
Manager == [buf |-> buf["manager"], config |-> config, latch |-> latch, lanes |-> lanes,
            tmp |-> tmp]

NoCall == [how |-> "none"]
NoJob == [phase |-> "idle"]

Init == /\ buf = [t \in {"client", "manager"} |-> EmptyBuffer]
        /\ config = Config0
        /\ latch = 0
        /\ lanes \in BOOLEAN
        /\ tmp = NoCap
        /\ call = NoCall
        /\ turns = 0
        /\ job = NoJob

(* The client owns one object of every type. *)
ClientTypes == <<"ENDPOINT", "CNODE", "TCB", "UNTYPED", "IO_PORT", "IO_PORT_CONTROL", "PDPT",
                 "PD", "PT", "PAGE", "HUGE_PAGE", "IRQ_CONTROL", "IRQ_HANDLER">>

ClientSlots == [i \in 0..(Len(ClientTypes) - 1) |-> ClientTypes[i + 1]]

ClientCSpace == CSpace("CNODE", ClientSlots)

(* The objects a method is tried on: the right one, another one, and none. *)
Targets(m) == {CHOOSE i \in DOMAIN ClientSlots : ClientSlots[i] = Dispatch[m].type,
               1, Len(ClientTypes)}

(* Words and capability pointers that tell the parameters apart.  A word   *)
(* of a message the client made itself does not fit a byte.                *)
StubWord(i) == 16 + i
RawWord(i) == 256 + 32 + i
HandlerWord == 7

(* The kernel runs the handler of the method, which is modelled elsewhere  *)
(* and may leave up to two words in the caller's registers.                *)
Invoked(out, n) ==
  IF out.run = "none" THEN out.buf ELSE SetMrs(out.buf, [i \in 1..n |-> HandlerWord])

ClientTurn == /\ job.phase # "asked"
              /\ turns < MaxTurns
              /\ turns' = turns + 1

(* A method called through its stub; bad is the capability parameter given *)
(* a pointer outside the cspace, if any.                                   *)
ClientStub(m, cptr, bad, n) ==
  LET s     == Stubs[m]
      args  == [p \in {s.mrs[i] : i \in 1..Len(s.mrs)} |->
                  Narrow(p, StubWord(CHOOSE i \in 1..Len(s.mrs) : s.mrs[i] = p))]
      cptrs == [p \in {s.caps[i] : i \in 1..Len(s.caps)} |->
                  IF p = bad THEN Len(ClientTypes)
                  ELSE CHOOSE i \in 1..Len(s.caps) : s.caps[i] = p]
      out   == sys_call(ClientCSpace, cptr, StubTag(m),
                        StubBuffer(buf["client"], m, args, cptrs))
  IN  /\ ClientTurn
      /\ out.run = "none" => n = 0
      /\ buf' = [buf EXCEPT !["client"] = Invoked(out, n)]
      /\ call' = [how |-> "stub", method |-> m, cptr |-> cptr, args |-> args, cptrs |-> cptrs,
                  out |-> [out EXCEPT !.buf = <<>>]]
      /\ job' = NoJob
      /\ UNCHANGED <<config, latch, lanes, tmp>>

(* A message the client made itself: length fresh words, extra fresh       *)
(* capability pointers, and whatever is left behind them.  Whoever         *)
(* configured the client's thread may have given it no CNode as its root.  *)
ClientRaw(root, m, cptr, length, extra, n) ==
  LET b   == SetCaps(SetMrs(buf["client"], [i \in 1..length |-> RawWord(i)]),
                     [i \in 1..extra |-> 3 + i])
      out == sys_call(CSpace(root, ClientSlots), cptr, new_message_tag(m, extra, length), b)
  IN  /\ ClientTurn
      /\ out.run = "none" => n = 0
      /\ buf' = [buf EXCEPT !["client"] = Invoked(out, n)]
      /\ call' = [how |-> "raw", method |-> m, length |-> length, extra |-> extra,
                  out |-> [out EXCEPT !.buf = <<>>]]
      /\ job' = NoJob
      /\ UNCHANGED <<config, latch, lanes, tmp>>

(* transfer_message: the words of the message go to the other buffer. *)
Transfer(from, to, length) ==
  [to EXCEPT !.mr = [i \in Registers |-> IF i < length THEN from.mr[i] ELSE @[i]]]

(* The client fills its registers and calls the manager's endpoint. *)
ClientAsk(r) ==
  LET b == SetMrs(buf["client"], r.words)
  IN  /\ ClientTurn
      /\ buf' = [client |-> b,
                 manager |-> [Transfer(b, buf["manager"], Len(r.words)) EXCEPT !.badge = r.badge]]
      /\ job' = [phase |-> "asked", request |-> r, before |-> config]
      /\ call' = NoCall
      /\ UNCHANGED <<config, latch, lanes, tmp>>

(* One turn of the manager's loop: the handler and the reply. *)
ManagerServe ==
  /\ job.phase = "asked"
  /\ \E a \in {Serve(Manager,
                     new_message_tag(job.request.label, 0, Len(job.request.words)),
                     buf["manager"].badge)} :
       /\ buf' = [client |-> Transfer(a.m.buf, buf["client"], a.tag.length),
                  manager |-> a.m.buf]
       /\ config' = a.m.config
       /\ latch' = a.m.latch
       /\ tmp' = a.m.tmp
       /\ job' = [phase |-> "answered", request |-> job.request, before |-> job.before,
                  tag |-> a.tag]
  /\ UNCHANGED <<lanes, call, turns>>

(* The messages just long enough for a method and the ones just too short. *)
Around(k) == {k, IF k = 0 THEN 1 ELSE k - 1}

Next == \/ \E m \in CallMethods, n \in {0, 2} : \E cptr \in Targets(m) :
              \/ \E bad \in {"none"} \cup {Stubs[m].caps[i] : i \in 1..Len(Stubs[m].caps)} :
                    ClientStub(m, cptr, bad, n)
              \/ \E length \in Around(Dispatch[m].length),
                    extra \in Around(Dispatch[m].extra_caps),
                    root \in {"CNODE", "NULL"} :
                    ClientRaw(root, m, cptr, length, extra, n)
        \/ \E r \in Requests : ClientAsk(r)
        \/ ManagerServe

Spec == Init /\ [][Next]_vars

-----------------------------------------------------------------------------
(* A method called through its stub on an object of its type, with         *)
(* pointers the caller's cspace has, always reaches its handler, and the   *)
(* handler sees every argument under the name the caller gave it: the two  *)
(* generated files agree on order, number and width.                       *)
StubReachesHandler ==
  (/\ call.how = "stub"
   /\ call.cptr \in DOMAIN ClientSlots
   /\ ClientSlots[call.cptr] = Dispatch[call.method].type
   /\ \A p \in DOMAIN call.cptrs : call.cptrs[p] \in DOMAIN ClientSlots)
  => /\ call.out.run = call.method
     /\ call.out.args = call.args
     /\ call.out.caps = call.cptrs

(* No handler acts on a word or a capability pointer that an earlier       *)
(* message left in the buffer: all it is given was in this message.        *)
NoStaleArgument ==
  (call.how = "raw" /\ call.out.run # "none")
  => /\ \A p \in DOMAIN call.out.args :
          \E i \in 1..call.length : call.out.args[p] = Narrow(p, RawWord(i))
     /\ \A p \in DOMAIN call.out.caps :
          \E i \in 1..call.extra : call.out.caps[p] = 3 + i

(* What is in the bytes of configuration space from address a on: the      *)
(* value v of w bytes, or ones where no function answers.                  *)
Holds(c, a, w, v) ==
  /\ v \in 0..(Width(w) - 1)
  /\ \A i \in 0..(w - 1) :
       (v \div Width(i)) % ByteSize = IF a + i \in DOMAIN c THEN c[a + i] ELSE ByteSize - 1

(* The words of each request, as the comments on the handlers list them.   *)
Inputs == [READ |-> 2, WRITE |-> 3, DEVICE_INFO |-> 1, ENUMERATE |-> 0, ISSUE |-> 1]

Complete(r) == r.label \in DOMAIN Inputs => Len(r.words) >= Inputs[r.label]

(* The requests that are answered. *)
Accepted(r) == CASE r.label = "READ"        -> r.words[2] \in {1, 2, 4}
                 [] r.label = "WRITE"       -> r.words[3] \in {1, 2, 4}
                 [] r.label = "DEVICE_INFO" -> r.badge \in {0, r.words[1]}
                 [] r.label = "ENUMERATE"   -> r.badge = 0
                 [] OTHER                   -> FALSE

(* The offset of a READ or a WRITE within its device, the rest of the      *)
(* address for the others.                                                 *)
Target(r) == IF r.label \in {"READ", "WRITE"} THEN r.badge + (r.words[1] % 256)
             ELSE r.words[1]

(* The functions that a client finds: the ones that answer, on a bus whose *)
(* first function does.                                                    *)
Known(c) == {256 * (1 + n) : n \in {k \in 0..(Buses * Functions - 1) :
                                      /\ 256 * (1 + k) \in DOMAIN c
                                      /\ 256 * (1 + k - (k % Functions)) \in DOMAIN c}}

(* The words list functions that answer, with their first registers, in    *)
(* the order of their addresses: all there are, or the first MaxLength.    *)
Lists(words, c) ==
  LET found == [i \in 1..Len(words) |-> words[i] \div Dword]
      all   == {found[i] : i \in 1..Len(words)}
  IN  /\ \A i \in 1..Len(words) : Holds(c, found[i], 4, words[i] % Dword)
      /\ \A i, j \in 1..Len(words) : i < j => found[i] < found[j]
      /\ all \subseteq Known(c)
      /\ \A f \in Known(c) \ all : Len(words) = MaxLength /\ \A g \in all : g < f

(* The answer to r, given the bytes before and after it: the words.        *)
AnswersIn(r, before, after, words) ==
  CASE r.label = "READ" ->
         after = before /\ Len(words) = 1 /\ Holds(before, Target(r), r.words[2], words[1])
    [] r.label = "WRITE" ->
         /\ words = <<>> /\ DOMAIN after = DOMAIN before
         /\ \A a \in DOMAIN before :
              IF a \in Target(r)..(Target(r) + r.words[3] - 1)
                THEN after[a] = (r.words[2] \div Width(a - Target(r))) % ByteSize
                ELSE after[a] = before[a]
    [] r.label = "DEVICE_INFO" ->
         /\ after = before /\ Len(words) = NQwords
         /\ \A i \in 1..NQwords : Holds(before, Target(r) + 8 * (i - 1), 8, words[i])
    [] r.label = "ENUMERATE" -> after = before /\ Lists(words, before)

(* The manager answers a request from the words the client sent, although  *)
(* each of its own port accesses overwrites the buffer that holds them,    *)
(* and touches no other byte of any device; what it refuses changes        *)
(* nothing.  READ, WRITE and DEVICE_INFO reach the byte they name where    *)
(* the host bridge uses the low bits of an address, and the first byte of  *)
(* a register everywhere.  A DEVICE_INFO that lacks its address is         *)
(* answered or refused by what is left in a register (handle_device_info   *)
(* does not look at the length), but changes nothing either.               *)
PciAnswersRequest ==
  LET r == job.request
      words == [i \in 1..job.tag.length |-> buf["client"].mr[i - 1]]
  IN  (job.phase = "answered" /\ r.label # "ISSUE")
      => IF Complete(r) /\ Accepted(r)
           THEN /\ job.tag.label = "NO_ERROR"
                /\ lanes \/ r.label = "ENUMERATE" \/ Target(r) % 4 = 0
                     => AnswersIn(r, job.before, config, words)
           ELSE /\ job.tag.label = "NO_ERROR" => r.label = "DEVICE_INFO" /\ ~Complete(r)
                /\ config = job.before

(* "in: [addr], out: cap": the capability that ISSUE hands out is badged   *)
(* with the address the client asked for.                                  *)
IssuedCapNamesDevice ==
  (job.phase = "answered" /\ job.request.label = "ISSUE" /\ job.tag.label = "NO_ERROR")
  => tmp = job.request.words[1]

=============================================================================
