---------------------------- MODULE MCPciManager ----------------------------
EXTENDS PciManager

(* Two buses of two functions: functions 1 and 2 on bus 0, function 4      *)
(* behind a bus whose first function is absent.                            *)
MCConfig0 == [a \in (256..271) \cup (512..527) \cup (1024..1027) |->
                (a + a \div 4 + a \div 256) % 4]

MCRequests ==
  LET Words(label, badge, ws) == [label |-> label, badge |-> badge, words |-> ws]
  IN  {Words("READ", b, <<o, w>>) : b \in {0, 512}, o \in {4, 5, 263}, w \in {1, 2, 3, 4}}
      \cup {Words("WRITE", 512, <<o, 90, w>>) : o \in {4, 5, 263}, w \in {1, 2, 4, 5}}
      \cup {Words("READ", 512, <<4>>), Words("WRITE", 512, <<4, 90>>), Words("OTHER", 0, <<>>)}
      \cup {Words("DEVICE_INFO", b, <<a>>) : b \in {0, 512}, a \in {256, 512}}
      \cup {Words("DEVICE_INFO", b, <<>>) : b \in {0, 512}} \cup {Words("DEVICE_INFO", 0, <<257>>)}
      \cup {Words("ENUMERATE", b, <<>>) : b \in {0, 512}}
      \cup {Words("ISSUE", b, <<256>>) : b \in {0, 512}} \cup {Words("ISSUE", 0, <<>>)}

MCCallMethods == Methods

=============================================================================
