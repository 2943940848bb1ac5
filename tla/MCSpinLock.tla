----------------------------- MODULE MCSpinLock -----------------------------
(* SpinLock with counters that wrap after a few tickets. *)
EXTENDS SpinLock

=============================================================================
