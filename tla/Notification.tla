---------------------------- MODULE Notification ----------------------------
(***************************************************************************)
(* Notification objects (kern/obj/notification.c): a word of pending       *)
(* badge bits, a queue of waiters and an optional bound thread.            *)
(***************************************************************************)
EXTENDS Tcb

signal_waiting_receiver(s, t, badge) ==
  switch_tcb([s EXCEPT !.sender_badge[t] = badge], t)

(* Mutant: the bound thread stays in its queue. *)
signal_bound_receiver_mutant(s, t, badge) == signal_waiting_receiver(s, t, badge)

(* The bound thread leaves whatever queue it receives on. *)
signal_bound_receiver_waiting_on_something_else(s, t, badge) ==
  signal_waiting_receiver(
    [s EXCEPT !.list = [o \in Queues |-> remove_from_list(s.list[o], t)]],
    t, badge)

notification_signal(s, n, badge) ==
  LET pending == s.word[n] \cup badge
      bound == s.bound_tcb[n]
      cleared == [s EXCEPT !.word[n] = {}]
      first == Head(s.list[n])
  IN  IF s.list[n] # <<>>
        THEN signal_waiting_receiver(
               [cleared EXCEPT !.list[n] = remove_from_list(s.list[n], first)],
               first, pending)
      ELSE IF bound # Null /\ s.state[bound] = "RECEIVING"
        THEN signal_bound_receiver_waiting_on_something_else(cleared, bound, pending)
      ELSE [s EXCEPT !.word[n] = pending]

queue_receiver_on_notification(s, n) ==
  LET t == s.current_tcb
  IN  IF Queued(s, t) THEN Panic(s, "list")
      ELSE schedule([s EXCEPT !.list[n] = append_to_list(s.list[n], t),
                              !.state[t] = "RECEIVING"])

(* A thread that waits on a notification bound to another one is killed,   *)
(* and then goes on like any other waiter.  A pending word is consumed     *)
(* without being stored in the IPC buffer.                                 *)
invoke_notification_recv(s, n) ==
  LET bound == s.bound_tcb[n]
      r == IF bound # Null /\ bound # s.current_tcb
             THEN schedule(kill_tcb(s, s.current_tcb))
             ELSE s
  IN  IF r.word[n] = {} THEN queue_receiver_on_notification(r, n)
      ELSE [r EXCEPT !.word[n] = {}]

=============================================================================
