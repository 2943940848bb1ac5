----------------------------- MODULE ByteStream -----------------------------
(***************************************************************************)
(* What the serial line promises: after the greeting, the bytes typed on   *)
(* it come back capitalised, in order, none lost, repeated or invented.    *)
(***************************************************************************)
EXTENDS Naturals, Sequences

CONSTANTS Bytes,          \* the bytes that are typed
          Capital,        \* the capital of each byte
          Greeting        \* what the first program prints first

VARIABLES typed, output

Due == Greeting \o [i \in DOMAIN typed |-> Capital[typed[i]]]

Init == typed = <<>> /\ output = <<>>

Type(b) == typed' = Append(typed, b) /\ UNCHANGED output

Emit == /\ Len(output) < Len(Due)
        /\ output' = Append(output, Due[Len(output) + 1])
        /\ UNCHANGED typed

Next == Emit \/ \E b \in Bytes : Type(b)

Spec == Init /\ [][Next]_<<typed, output>>

=============================================================================
