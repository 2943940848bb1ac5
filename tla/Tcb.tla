-------------------------------- MODULE Tcb --------------------------------
(***************************************************************************)
(* Thread control blocks and the scheduler (kern/obj/tcb.c, list.h).       *)
(*                                                                         *)
(* The kernel's memory is one record s.  Every operator here is one C      *)
(* function and maps the memory before the call to the memory after it, so *)
(* that a C call sequence is a composition of operators.  The fields of s: *)
(*                                                                         *)
(*   state, expects_reply, reply_to, endpoint_badge, bound_notification    *)
(*                       the members of struct tcb, one function per member*)
(*   run_node            FALSE while tcb.runnable_tcbs is still zeroed      *)
(*   sender_badge        the badge in a thread's IPC buffer                *)
(*   word, bound_tcb     the members of struct notification                *)
(*   list                the queue of each endpoint and notification       *)
(*   runnable_tcbs       the run list                                      *)
(*   current_tcb, return_to_tcb   this CPU's members of struct per_cpu     *)
(*   panic               why the CPU stopped for good, NoPanic while it runs*)
(*   server              history only: the thread that took a caller's call*)
(*                                                                         *)
(* The intrusive lists are sequences with the element after the list head  *)
(* first.  Inserting a node that is linked already would corrupt them: the *)
(* model stops there with panic "list".  Module IntrusiveList has the      *)
(* pointers and shows that they implement the sequences.                   *)
(***************************************************************************)
EXTENDS Lists

CONSTANTS Threads,        \* the TCB objects
          Endpoints,      \* the endpoint objects
          Notifications,  \* the notification objects
          Bits,           \* the bits of a badge; a word_t badge is a set of them
          Null            \* the null pointer

ASSUME ObjectsAssumption ==
  /\ Null \notin Threads \cup Endpoints \cup Notifications
  /\ Endpoints \cap Notifications = {}

Badges == SUBSET Bits
Queues == Endpoints \cup Notifications
ThreadOrNull == Threads \cup {Null}

TaskStates == {"RUNNABLE", "RUNNING", "DEAD", "SENDING", "RECEIVING",
               "CALLING", "SUSPENDED"}

NoPanic == "none"
PanicReasons == {NoPanic, "assert", "fault", "list", "trap", "panic"}

(* The kernel's memory: one record, a member per field described above. *)
KernelMemory ==
  [ state: [Threads -> TaskStates],
    expects_reply: [Threads -> BOOLEAN],
    reply_to: [Threads -> ThreadOrNull],
    endpoint_badge: [Threads -> Badges],
    bound_notification: [Threads -> Notifications \cup {Null}],
    run_node: [Threads -> BOOLEAN],
    sender_badge: [Threads -> Badges],
    word: [Notifications -> Badges],
    bound_tcb: [Notifications -> ThreadOrNull],
    list: [Queues -> Seq(Threads)],
    runnable_tcbs: Seq(Threads),
    current_tcb: ThreadOrNull,
    return_to_tcb: ThreadOrNull,
    panic: PanicReasons,
    server: [Threads -> ThreadOrNull] ]

(***************************************************************************)
(* A failed assertion, a page fault or a panic stops the CPU; the first    *)
(* reason is the one that counts.                                          *)
(***************************************************************************)
Panic(s, why) == IF s.panic = NoPanic THEN [s EXCEPT !.panic = why] ELSE s

-----------------------------------------------------------------------------
(* tcb.send_receive_node is linked into some queue. *)
Queued(s, t) == \E o \in Queues : OnList(s.list[o], t)

-----------------------------------------------------------------------------
(* tcb.c *)

schedule_tcb(s, t) ==
  IF s.state[t] = "DEAD" THEN Panic(s, "assert")
  ELSE IF OnList(s.runnable_tcbs, t) THEN Panic(s, "list")
  ELSE [s EXCEPT !.state[t] = "RUNNABLE",
                 !.runnable_tcbs = append_to_list(s.runnable_tcbs, t),
                 !.run_node[t] = TRUE]

(* The queue a blocked thread waits in is not left, and nobody else is      *)
(* picked when the thread suspends itself.                                 *)
suspend_tcb(s, t) ==
  IF ~s.run_node[t] THEN Panic(s, "fault")
  ELSE [s EXCEPT !.state[t] = "SUSPENDED",
                 !.runnable_tcbs = remove_from_list(s.runnable_tcbs, t)]

(* destroy_tcb asserts that the thread is on no run list. *)
kill_tcb(s, t) ==
  IF OnList(s.runnable_tcbs, t) \/ ~s.run_node[t]
    THEN Panic(s, "assert")
    ELSE [s EXCEPT !.state[t] = "DEAD"]

(* Chooses who runs when the kernel is left; switch_tcb_actual does the rest. *)
switch_tcb(s, t) ==
  [s EXCEPT !.state[t] = "RUNNABLE", !.return_to_tcb = t]

(* Mutant: the current thread goes on whatever its state is. *)
WantsToContinue_mutant(s) == s.current_tcb # Null

WantsToContinue(s) ==
  s.current_tcb # Null /\ s.state[s.current_tcb] = "RUNNING"

(* Mutant: picks the first thread without popping it. *)
schedule_mutant(s) ==
  IF s.runnable_tcbs # <<>> THEN switch_tcb(s, Head(s.runnable_tcbs))
  ELSE IF WantsToContinue(s) THEN s
  ELSE [s EXCEPT !.return_to_tcb = Null]

(* With pick_next_tcb, which pops the head of the run list. *)
schedule(s) ==
  IF s.runnable_tcbs # <<>>
    THEN switch_tcb([s EXCEPT !.runnable_tcbs = Tail(s.runnable_tcbs)],
                    Head(s.runnable_tcbs))
  ELSE IF WantsToContinue(s) THEN s
  ELSE [s EXCEPT !.return_to_tcb = Null]

switch_tcb_actual(s, t) ==
  LET r == IF WantsToContinue(s) THEN schedule_tcb(s, s.current_tcb) ELSE s
  IN  IF s.current_tcb = t \/ r.state[t] # "RUNNABLE"
        THEN Panic(r, "assert")
        ELSE [r EXCEPT !.current_tcb = t, !.state[t] = "RUNNING"]

(* Mutant: an idle CPU keeps its last thread. *)
return_from_kernel_code_mutant(s) ==
  IF s.return_to_tcb \in {s.current_tcb, Null} THEN s
  ELSE switch_tcb_actual(s, s.return_to_tcb)

(* The last branch halts with interrupts enabled and no current thread. *)
return_from_kernel_code(s) ==
  IF s.return_to_tcb = s.current_tcb THEN s
  ELSE IF s.return_to_tcb # Null THEN switch_tcb_actual(s, s.return_to_tcb)
  ELSE [s EXCEPT !.current_tcb = Null]

-----------------------------------------------------------------------------
(* The methods of a TCB capability that touch the state above. *)

tcb_resume(s, t) == schedule_tcb(s, t)

tcb_suspend(s, t) == suspend_tcb(s, t)

tcb_bind_notification(s, t, n) ==
  IF s.bound_tcb[n] # Null THEN s
  ELSE [s EXCEPT !.bound_notification[t] = n, !.bound_tcb[n] = t]

(* A fresh TCB is zeroed memory: RUNNABLE is 0 and its list nodes are null. *)
(* The boot thread went through schedule_tcb and schedule (boot.c).        *)
BootMemory(boot) ==
  [ state |-> [t \in Threads |-> IF t = boot THEN "RUNNING" ELSE "RUNNABLE"],
    expects_reply |-> [t \in Threads |-> FALSE],
    reply_to |-> [t \in Threads |-> Null],
    endpoint_badge |-> [t \in Threads |-> {}],
    bound_notification |-> [t \in Threads |-> Null],
    run_node |-> [t \in Threads |-> t = boot],
    sender_badge |-> [t \in Threads |-> {}],
    word |-> [n \in Notifications |-> {}],
    bound_tcb |-> [n \in Notifications |-> Null],
    list |-> [o \in Queues |-> <<>>],
    runnable_tcbs |-> <<>>,
    current_tcb |-> boot,
    return_to_tcb |-> boot,
    panic |-> NoPanic,
    server |-> [t \in Threads |-> Null] ]

=============================================================================
