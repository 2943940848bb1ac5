------------------------------- MODULE MCCdt -------------------------------
(* Cdt on a few slots, two of the object types and one badge. *)
EXTENDS Cdt

CONSTANTS s0, s1, s2, s3, s4

MCSlots == {s0, s1, s2, s3, s4}

MCFewSlots == {s0, s1, s2, s3}

MCTypes == {"ENDPOINT", "NOTIFICATION"}

=============================================================================
