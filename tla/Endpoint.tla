------------------------------ MODULE Endpoint ------------------------------
(***************************************************************************)
(* Endpoints: synchronous message passing (kern/obj/endpoint.c).  The      *)
(* queue of an endpoint holds blocked senders or blocked receivers; which  *)
(* of the two is decided by looking at the state of its first thread only. *)
(***************************************************************************)
EXTENDS Tcb

(* Mutant: links the two threads of a call the wrong way round. *)
transfer_message_mutant(s, sender, receiver, badge) ==
  IF s.expects_reply[sender]
    THEN [s EXCEPT !.reply_to[sender] = receiver,
                   !.server[sender] = IF s.state[sender] = "CALLING" THEN receiver ELSE @]
    ELSE s

(* Of the message only the badge is kept; the capability that may travel   *)
(* with it is not modelled.                                                *)
transfer_message(s, sender, receiver, badge) ==
  LET r == [s EXCEPT !.sender_badge[receiver] = badge]
  IN  IF s.expects_reply[sender]
        THEN [r EXCEPT !.reply_to[receiver] = sender,
                       !.server[sender] =
                          IF s.state[sender] = "CALLING" THEN receiver ELSE @]
        ELSE r

send_message_directly(s, receiver, badge, resume_now) ==
  LET r == transfer_message(s, s.current_tcb, receiver, badge)
  IN  IF resume_now THEN switch_tcb(r, receiver) ELSE schedule_tcb(r, receiver)

send_message_to_blocked_receiver(s, e, badge, resume_now) ==
  send_message_directly([s EXCEPT !.list[e] = Tail(s.list[e])],
                        Head(s.list[e]), badge, resume_now)

queue_message_on_endpoint(s, e, badge, is_call) ==
  LET t == s.current_tcb
  IN  IF Queued(s, t) THEN Panic(s, "list")
      ELSE schedule(
             [s EXCEPT !.list[e] = append_to_list(s.list[e], t),
                       !.state[t] = IF is_call THEN "CALLING" ELSE "SENDING",
                       !.endpoint_badge[t] = badge])

(* Mutant: looks at the sender without taking it off the queue. *)
receive_without_pop_mutant(s, e) ==
  LET sender == Head(s.list[e])
      r == transfer_message(s, sender, s.current_tcb, s.endpoint_badge[sender])
  IN  IF s.expects_reply[sender] THEN r ELSE schedule_tcb(r, sender)

(* Mutant: a caller goes on as soon as its call is taken. *)
receive_wakes_caller_mutant(s, e) ==
  LET sender == Head(s.list[e])
  IN  schedule_tcb(transfer_message([s EXCEPT !.list[e] = Tail(s.list[e])],
                                    sender, s.current_tcb, s.endpoint_badge[sender]),
                   sender)

receive_message_from_blocked_sender(s, e) ==
  LET sender == Head(s.list[e])
      r == transfer_message([s EXCEPT !.list[e] = Tail(s.list[e])],
                            sender, s.current_tcb, s.endpoint_badge[sender])
  IN  IF s.expects_reply[sender] THEN r ELSE schedule_tcb(r, sender)

queue_receiver_on_endpoint(s, e) ==
  LET t == s.current_tcb
  IN  IF Queued(s, t) THEN Panic(s, "list")
      ELSE schedule([s EXCEPT !.list[e] = append_to_list(s.list[e], t),
                              !.state[t] = "RECEIVING"])

FirstState(s, e) == s.state[Head(s.list[e])]

(* Mutant: forgets that callers are senders. *)
recv_will_block_mutant(s, e) ==
  s.list[e] = <<>> \/ FirstState(s, e) # "SENDING"

recv_will_block(s, e) ==
  s.list[e] = <<>> \/ FirstState(s, e) = "RECEIVING"

send_will_block(s, e) ==
  s.list[e] = <<>> \/ FirstState(s, e) \in {"SENDING", "CALLING"}

endpoint_send(s, e, badge, is_call) ==
  IF send_will_block(s, e)
    THEN queue_message_on_endpoint(s, e, badge, is_call)
    ELSE send_message_to_blocked_receiver(s, e, badge, TRUE)

endpoint_recv(s, e) ==
  IF recv_will_block(s, e)
    THEN queue_receiver_on_endpoint(s, e)
    ELSE receive_message_from_blocked_sender(s, e)

endpoint_nbrecv(s, e) ==
  IF recv_will_block(s, e) THEN s ELSE receive_message_from_blocked_sender(s, e)

-----------------------------------------------------------------------------
(* The system calls on an endpoint capability <<e, badge>>. *)

invoke_endpoint_send(s, e, badge) ==
  endpoint_send([s EXCEPT !.expects_reply[s.current_tcb] = FALSE], e, badge, FALSE)

(* Announces itself and panics: non-blocking sends are not supported. *)
invoke_endpoint_nbsend(s, e, badge) == Panic(s, "panic")

HasPendingNotification(s) ==
  LET n == s.bound_notification[s.current_tcb]
  IN  n # Null /\ s.word[n] # {}

(* A receive is answered by the bound notification's pending word first. *)
handle_recv_with_pending_notification(s) ==
  LET n == s.bound_notification[s.current_tcb]
  IN  [s EXCEPT !.sender_badge[s.current_tcb] = s.word[n], !.word[n] = {}]

(* Mutant: does not look at the bound notification. *)
invoke_endpoint_recv_mutant(s, e) == endpoint_recv(s, e)

invoke_endpoint_recv(s, e) ==
  IF HasPendingNotification(s)
    THEN handle_recv_with_pending_notification(s)
    ELSE endpoint_recv(s, e)

invoke_endpoint_nbrecv(s, e) ==
  IF HasPendingNotification(s)
    THEN handle_recv_with_pending_notification(s)
    ELSE endpoint_nbrecv(s, e)

invoke_endpoint_call(s, e, badge) ==
  endpoint_send([s EXCEPT !.expects_reply[s.current_tcb] = TRUE,
                          !.state[s.current_tcb] = "CALLING"], e, badge, TRUE)

(* Without a caller to answer the debug trap halts the CPU. *)
invoke_reply(s) ==
  LET receiver == s.reply_to[s.current_tcb]
  IN  IF receiver = Null \/ s.state[receiver] # "CALLING"
        THEN Panic(s, "trap")
        ELSE [send_message_directly(s, receiver, {}, FALSE)
                EXCEPT !.server[receiver] = Null]

invoke_reply_recv(s, e) ==
  LET r == invoke_reply(s)
  IN  IF r.panic = NoPanic THEN invoke_endpoint_recv(r, e) ELSE r

=============================================================================
