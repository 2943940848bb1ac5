--------------------------- MODULE MCIntrusiveList ---------------------------
(* IntrusiveList on two lists and a few nodes. *)
EXTENDS IntrusiveList

=============================================================================
