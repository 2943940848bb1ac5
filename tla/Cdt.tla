-------------------------------- MODULE Cdt --------------------------------
(***************************************************************************)
(* Capabilities and the capability derivation list (kern/cdt.c,            *)
(* kern/obj/untyped.c).  The kernel has no tree: every slot that holds a   *)
(* capability is linked into a list in which a derived capability comes    *)
(* after the one it was derived from, and is_child_cap decides where the   *)
(* children of a capability end.                                           *)
(*                                                                         *)
(* delete_cap and revoke_cap call each other.  Their C call stack is the   *)
(* variable stack; no other operation runs while it is not empty, since    *)
(* system calls are not preempted.                                         *)
(***************************************************************************)
EXTENDS Naturals, Sequences

CONSTANTS Slots,       \* the capability slots (cte_t)
          Root,        \* the slot that holds the root untyped at boot
          Types,       \* the object types that can be retyped into
          MaxObjects,  \* the size of the root untyped, in objects
          BadgeValues, \* the badges that are minted, besides 0
          Rights,      \* the access rights
          Null         \* the null pointer

ASSUME CdtAssumption ==
  /\ Root \in Slots
  /\ Null \notin Slots
  /\ MaxObjects \in Nat
  /\ BadgeValues \subseteq Nat \ {0}
  /\ Types \cap {"NULL", "UNTYPED"} = {}

VARIABLES cap,    \* cte_t.cap of each slot
          next,   \* cte_t.next
          prev,   \* cte_t.prev
          stack,  \* the active calls of delete_cap and revoke_cap, innermost last
          ancestors \* history only: the originals a capability was derived from

vars == <<cap, next, prev, stack, ancestors>>

Caps == [type: Types \cup {"NULL", "UNTYPED"},
         space: {"none", "physical", "direct"},
         ptr: Nat,
         badge: Nat,
         is_original: BOOLEAN,
         rights: SUBSET Rights]

Frames == [slot: Slots, op: {"delete", "revoke"}]

new_null_cap == [type |-> "NULL", space |-> "none", ptr |-> 0, badge |-> 0,
                 is_original |-> FALSE, rights |-> {}]

(* A root untyped names physical memory and is not marked original; its    *)
(* badge is the watermark of the memory handed out.                        *)
new_untyped_cap == [type |-> "UNTYPED", space |-> "physical", ptr |-> 0,
                    badge |-> 0, is_original |-> FALSE, rights |-> {}]

IsNull(c) == cap[c].type = "NULL"

Init == /\ cap = [c \in Slots |-> IF c = Root THEN new_untyped_cap ELSE new_null_cap]
        /\ next = [c \in Slots |-> Null]
        /\ prev = [c \in Slots |-> Null]
        /\ stack = <<>>
        /\ ancestors = [c \in Slots |-> {}]

-----------------------------------------------------------------------------
(* The list. *)

(* Mutant: links the new slot back to its predecessor. *)
insert_cte_after_mutant(new, after) ==
  /\ next' = [next EXCEPT ![after] = new, ![new] = after]
  /\ prev' = [prev EXCEPT ![new] = after]

insert_cte_after(new, after) ==
  LET n == next[after]
  IN  /\ next' = [next EXCEPT ![after] = new, ![new] = n]
      /\ prev' = [c \in Slots |-> IF c = new THEN after
                                  ELSE IF c = n THEN new ELSE prev[c]]

(* Mutant: the next slot keeps its link to the deleted one. *)
unlink_cte_mutant(del) ==
  /\ next' = [c \in Slots |-> IF c = del THEN Null
                              ELSE IF c = prev[del] THEN next[del] ELSE next[c]]
  /\ prev' = [prev EXCEPT ![del] = Null]

unlink_cte(del) ==
  /\ next' = [c \in Slots |-> IF c = del THEN Null
                              ELSE IF c = prev[del] THEN next[del] ELSE next[c]]
  /\ prev' = [c \in Slots |-> IF c = del THEN Null
                              ELSE IF c = next[del] THEN prev[del] ELSE prev[c]]

(* The originals that a capability derived from src descends from. *)
Lineage(src) == ancestors[src] \cup (IF cap[src].is_original THEN {src} ELSE {})

-----------------------------------------------------------------------------
(* Deriving capabilities; a refused request changes nothing. *)

(* Mutant: sets the rights asked for instead of masking. *)
copy_cap_mutant(dest, src, mask) ==
  /\ IsNull(dest)
  /\ ~(cap[src].type = "UNTYPED" /\ cap[src].badge # 0)
  /\ cap' = [cap EXCEPT ![dest] = [cap[src] EXCEPT !.is_original = FALSE,
                                                  !.rights = mask]]
  /\ insert_cte_after(dest, src)
  /\ ancestors' = [ancestors EXCEPT ![dest] = Lineage(src)]
  /\ UNCHANGED stack

copy_cap(dest, src, mask) ==
  /\ IsNull(dest)
  /\ ~(cap[src].type = "UNTYPED" /\ cap[src].badge # 0)
  /\ cap' = [cap EXCEPT ![dest] =
               [cap[src] EXCEPT !.is_original = @ /\ cap[src].type = "UNTYPED",
                                !.rights = @ \cap mask]]
  /\ insert_cte_after(dest, src)
  /\ ancestors' = [ancestors EXCEPT ![dest] = Lineage(src)]
  /\ UNCHANGED stack

(* A badged endpoint is an original of its own when its source is one; a   *)
(* badged notification never is.                                           *)
mint_cap(dest, src, badge, mask) ==
  /\ IsNull(dest)
  /\ cap[src].type \in {"ENDPOINT", "NOTIFICATION"}
  /\ cap[src].badge = 0
  /\ cap' = [cap EXCEPT ![dest] =
               [cap[src] EXCEPT !.badge = badge,
                                !.is_original = @ /\ cap[src].type # "NOTIFICATION",
                                !.rights = @ \cap mask]]
  /\ insert_cte_after(dest, src)
  /\ ancestors' = [ancestors EXCEPT ![dest] = Lineage(src)]
  /\ UNCHANGED stack

(* One object of unit size; a request for several is a sequence of these.  *)
(* The destination slot is not checked to be empty.                        *)
untyped_retype(untyped, dest, type) ==
  /\ cap[untyped].type = "UNTYPED"
  /\ MaxObjects - cap[untyped].badge >= 1
  /\ cap' = [cap EXCEPT
               ![dest] = [type |-> type, space |-> "direct",
                          ptr |-> cap[untyped].ptr + cap[untyped].badge, badge |-> 0,
                          is_original |-> TRUE, rights |-> Rights],
               ![untyped].badge = @ + 1]
  /\ insert_cte_after(dest, untyped)
  /\ ancestors' = [ancestors EXCEPT ![dest] = {}]
  /\ UNCHANGED stack

-----------------------------------------------------------------------------
(* Deleting and revoking. *)

untyped_contains(untyped, obj) ==
  /\ obj.space = untyped.space
  /\ obj.ptr \in untyped.ptr .. (untyped.ptr + MaxObjects - 1)

(* Mutant: an unbadged endpoint does not parent its badged ones. *)
is_child_cap_mutant(c, parent) ==
  /\ c # Null
  /\ cap[parent].is_original
  /\ cap[c].type = cap[parent].type
  /\ cap[parent].badge = cap[c].badge

(* c may be Null, the end of the list. *)
is_child_cap(c, parent) ==
  /\ c # Null
  /\ cap[parent].is_original
  /\ IF cap[parent].type = "UNTYPED" THEN untyped_contains(cap[parent], cap[c])
     ELSE /\ cap[c].type = cap[parent].type
          /\ cap[parent].type = "ENDPOINT" =>
               cap[parent].badge = cap[c].badge \/ cap[parent].badge = 0

Top == stack[Len(stack)]

Enter(c, op) == stack' = Append(stack, [slot |-> c, op |-> op])

(* A system call enters delete_cap or revoke_cap. *)
delete_cap(c) == stack = <<>> /\ Enter(c, "delete") /\ UNCHANGED <<cap, next, prev, ancestors>>

revoke_cap(c) == stack = <<>> /\ Enter(c, "revoke") /\ UNCHANGED <<cap, next, prev, ancestors>>

(* The loop of revoke_cap deletes the next slot while it holds a child. *)
RevokeNext ==
  /\ stack # <<>>
  /\ is_child_cap(next[Top.slot], Top.slot)
  /\ Enter(next[Top.slot], "delete")
  /\ UNCHANGED <<cap, next, prev, ancestors>>

(* Mutant: delete_cap returns early for an original. *)
Return_mutant ==
  /\ stack # <<>>
  /\ ~is_child_cap(next[Top.slot], Top.slot)
  /\ stack' = SubSeq(stack, 1, Len(stack) - 1)
  /\ IF Top.op = "delete" /\ ~cap[Top.slot].is_original
       THEN /\ unlink_cte(Top.slot)
            /\ cap' = [cap EXCEPT ![Top.slot] = new_null_cap]
            /\ ancestors' = [ancestors EXCEPT ![Top.slot] = {}]
       ELSE UNCHANGED <<cap, next, prev, ancestors>>

(* The loop ends: delete_cap unlinks and clears the slot, revoke_cap is done. *)
Return ==
  /\ stack # <<>>
  /\ ~is_child_cap(next[Top.slot], Top.slot)
  /\ stack' = SubSeq(stack, 1, Len(stack) - 1)
  /\ IF Top.op = "delete"
       THEN /\ unlink_cte(Top.slot)
            /\ cap' = [cap EXCEPT ![Top.slot] = new_null_cap]
            /\ ancestors' = [ancestors EXCEPT ![Top.slot] = {}]
       ELSE UNCHANGED <<cap, next, prev, ancestors>>

-----------------------------------------------------------------------------
Copy(dest, src) ==
  stack = <<>> /\ \E mask \in SUBSET Rights : copy_cap(dest, src, mask)

Mint(dest, src) ==
  stack = <<>> /\ \E b \in BadgeValues \cup {0}, mask \in SUBSET Rights :
                    mint_cap(dest, src, b, mask)

Retype(untyped, dest) ==
  stack = <<>> /\ \E type \in Types : untyped_retype(untyped, dest, type)

(***************************************************************************)
(* The contract of the callers, which the kernel does not enforce: nobody  *)
(* copies an empty slot or an untyped, and retype gets empty slots.        *)
(***************************************************************************)
ClientNext ==
  \/ \E dest, src \in Slots :
       ~IsNull(src) /\ cap[src].type # "UNTYPED" /\ Copy(dest, src)
  \/ \E dest, src \in Slots : Mint(dest, src)
  \/ \E untyped, dest \in Slots : IsNull(dest) /\ Retype(untyped, dest)
  \/ \E c \in Slots : c # Root /\ (delete_cap(c) \/ revoke_cap(c))
  \/ RevokeNext
  \/ Return

ClientSpec == Init /\ [][ClientNext]_vars

(* A call of delete_cap or revoke_cap runs on, as kernel code does. *)
FairClientSpec == ClientSpec /\ WF_vars(RevokeNext \/ Return)

-----------------------------------------------------------------------------
(* Slots hold capabilities, links lead to slots, calls are on slots. *)
TypeOK == /\ cap \in [Slots -> Caps]
          /\ next \in [Slots -> Slots \cup {Null}]
          /\ prev \in [Slots -> Slots \cup {Null}]
          /\ stack \in Seq(Frames)
          /\ ancestors \in [Slots -> SUBSET Slots]

(* next and prev are each other's inverse, and empty slots are unlinked:   *)
(* no insertion or deletion leaves a dangling link (insert_cte_after,      *)
(* unlink_cte).                                                            *)
LinksConsistent ==
  /\ \A c \in Slots : next[c] # Null => prev[next[c]] = c
  /\ \A c \in Slots : prev[c] # Null => next[prev[c]] = c
  /\ \A c \in Slots : IsNull(c) => next[c] = Null /\ prev[c] = Null

(* The capabilities derived from an original are a run right behind it in  *)
(* the list, and is_child_cap holds along the whole run: the loop of       *)
(* revoke_cap cannot stop before the end of the run (comment at cdt.c:80). *)
DerivedRun ==
  \A d \in Slots : \A c \in ancestors[d] :
    /\ prev[d] = c \/ (prev[d] # Null /\ c \in ancestors[prev[d]])
    /\ is_child_cap(d, c)

(* Nothing derived from a capability is left when its revocation returns,  *)
(* nor when its deletion does (revoke_cap, delete_cap).                    *)
RevokeComplete ==
  [][Len(stack') < Len(stack) =>
       \A d \in Slots : Top.slot \notin ancestors'[d]]_vars

(* No right is gained by deriving (copy_cap, mint_cap). *)
RightsNeverGrow ==
  \A d \in Slots : \A c \in ancestors[d] : cap[d].rights \subseteq cap[c].rights

(* No slot is entered twice by the recursion of delete_cap, which bounds   *)
(* the depth of the kernel stack by the number of slots.                   *)
RecursionBounded ==
  \A i, j \in 1..Len(stack) : stack[i].slot = stack[j].slot => i = j

(* Every deletion and revocation returns. *)
RevocationTerminates == stack # <<>> ~> stack = <<>>

(* Only capabilities derived from the one that is deleted or revoked go    *)
(* with it (comment at cdt.c:80).                                          *)
OnlyDerivedRevoked ==
  [][\A c \in Slots : ~IsNull(c) /\ IsNull(c)' =>
       c = stack[1].slot \/ stack[1].slot \in ancestors[c]]_vars

=============================================================================
