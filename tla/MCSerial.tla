------------------------------ MODULE MCSerial ------------------------------
(* Two letters, of which one has a capital. *)
EXTENDS Serial

MCCapital == [b \in {"a", "X", "A"} |-> IF b = "a" THEN "A" ELSE b]
MCGreeting == <<"X", "A">>

=============================================================================
