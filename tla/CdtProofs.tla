------------------------------ MODULE CdtProofs ------------------------------
(***************************************************************************)
(* The derivation list, for every set of slots, object types, badges and   *)
(* rights: its links, what is derived from what, and that revoking and     *)
(* deleting, which call each other, reach all of it.                       *)
(***************************************************************************)
EXTENDS Cdt, SequenceTheorems, WellFoundedInduction, TLAPS

IInv == TypeOK /\ LinksConsistent

(* Linking an empty slot behind an occupied one. *)
LEMMA InsertPreserves ==
  ASSUME IInv, NEW dest \in Slots, NEW src \in Slots,
         IsNull(dest), ~IsNull(src), insert_cte_after(dest, src),
         \A c \in Slots : c # dest => (IsNull(c)' <=> IsNull(c)),
         ~IsNull(dest)'
  PROVE  /\ next' \in [Slots -> Slots \cup {Null}]
         /\ prev' \in [Slots -> Slots \cup {Null}]
         /\ LinksConsistent'
<1> DEFINE n == next[src]
<1>1. /\ next \in [Slots -> Slots \cup {Null}] /\ prev \in [Slots -> Slots \cup {Null}]
      /\ dest # src /\ next[dest] = Null /\ prev[dest] = Null
      /\ n # Null => prev[n] = src /\ n \in Slots
  BY DEF IInv, TypeOK, LinksConsistent
<1>2. n # dest
  BY <1>1, CdtAssumption
<1>3. /\ next' \in [Slots -> Slots \cup {Null}]
      /\ next'[src] = dest /\ next'[dest] = n
      /\ \A c \in Slots : c \notin {src, dest} => next'[c] = next[c]
  BY <1>1 DEF insert_cte_after
<1>4. /\ prev' \in [Slots -> Slots \cup {Null}]
      /\ prev'[dest] = src
      /\ n # Null => prev'[n] = dest
      /\ \A c \in Slots : c \notin {n, dest} => prev'[c] = prev[c]
  BY <1>1, <1>2 DEF insert_cte_after
<1>5. ASSUME NEW c \in Slots, next'[c] # Null PROVE prev'[next'[c]] = c
  <2>1. CASE c \notin {src, dest}
    <3>1. next[c] # Null /\ prev[next[c]] = c /\ next[c] \in Slots
      BY <1>1, <1>3, <1>5, <2>1 DEF IInv, LinksConsistent
    <3>2. next[c] # dest
      BY <1>1, <3>1, CdtAssumption
    <3>3. next[c] # n
      BY <1>1, <3>1, <2>1
    <3> QED BY <1>3, <1>4, <2>1, <3>1, <3>2, <3>3
  <2> QED BY <1>3, <1>4, <1>5, <2>1
<1>6. ASSUME NEW c \in Slots, prev'[c] # Null PROVE next'[prev'[c]] = c
  <2>1. CASE c \notin {n, dest}
    <3>1. prev[c] # Null /\ next[prev[c]] = c /\ prev[c] \in Slots
      BY <1>1, <1>4, <1>6, <2>1 DEF IInv, LinksConsistent
    <3>2. prev[c] # src /\ prev[c] # dest
      BY <1>1, <2>1, <3>1, CdtAssumption
    <3> QED BY <1>3, <1>4, <2>1, <3>1, <3>2
  <2>2. CASE c = dest
    BY <1>3, <1>4, <2>2
  <2>3. CASE c = n /\ c # dest
    BY <1>1, <1>3, <1>4, <2>3, CdtAssumption
  <2> QED BY <2>1, <2>2, <2>3
<1>7. ASSUME NEW c \in Slots, IsNull(c)' PROVE next'[c] = Null /\ prev'[c] = Null
  <2>1. c # dest /\ IsNull(c)
    BY <1>7
  <2>2. next[c] = Null /\ prev[c] = Null /\ c # src
    BY <2>1 DEF IInv, LinksConsistent
  <2>3. c # n
    BY <1>1, <2>2, CdtAssumption
  <2> QED BY <1>3, <1>4, <2>1, <2>2, <2>3
<1> QED BY <1>3, <1>4, <1>5, <1>6, <1>7 DEF LinksConsistent

(* Unlinking a slot that becomes empty. *)
LEMMA UnlinkPreserves ==
  ASSUME IInv, NEW del \in Slots, unlink_cte(del),
         \A c \in Slots : c # del => (IsNull(c)' <=> IsNull(c))
  PROVE  /\ next' \in [Slots -> Slots \cup {Null}]
         /\ prev' \in [Slots -> Slots \cup {Null}]
         /\ LinksConsistent'
<1> DEFINE n == next[del]
           p == prev[del]
<1>1. /\ next \in [Slots -> Slots \cup {Null}] /\ prev \in [Slots -> Slots \cup {Null}]
      /\ n # Null => prev[n] = del /\ n \in Slots
      /\ p # Null => next[p] = del /\ p \in Slots
  BY DEF IInv, TypeOK, LinksConsistent
<1>2. /\ next' \in [Slots -> Slots \cup {Null}]
      /\ next'[del] = Null
      /\ p # Null /\ p # del => next'[p] = n
      /\ \A c \in Slots : c \notin {p, del} => next'[c] = next[c]
  BY <1>1 DEF unlink_cte
<1>3. /\ prev' \in [Slots -> Slots \cup {Null}]
      /\ prev'[del] = Null
      /\ n # Null /\ n # del => prev'[n] = p
      /\ \A c \in Slots : c \notin {n, del} => prev'[c] = prev[c]
  BY <1>1 DEF unlink_cte
<1>4. ASSUME NEW c \in Slots, next'[c] # Null PROVE prev'[next'[c]] = c
  <2>1. CASE c = del
    BY <1>2, <1>4, <2>1
  <2>2. CASE c = p /\ c # del
    <3>1. c # Null /\ next'[c] = n
      BY <1>2, <2>2, CdtAssumption
    <3>2. n # Null /\ n # del
      BY <1>1, <1>4, <2>2, <3>1
    <3> QED BY <1>3, <2>2, <3>1, <3>2
  <2>3. CASE c \notin {p, del}
    <3>1. next[c] # Null /\ prev[next[c]] = c /\ next[c] \in Slots /\ next'[c] = next[c]
      BY <1>1, <1>2, <1>4, <2>3 DEF IInv, LinksConsistent
    <3>2. next[c] # n /\ next[c] # del
      BY <1>1, <2>3, <3>1
    <3> QED BY <1>3, <3>1, <3>2
  <2> QED BY <2>1, <2>2, <2>3
<1>5. ASSUME NEW c \in Slots, prev'[c] # Null PROVE next'[prev'[c]] = c
  <2>1. CASE c = del
    BY <1>3, <1>5, <2>1
  <2>2. CASE c = n /\ c # del
    <3>1. c # Null /\ prev'[c] = p
      BY <1>3, <2>2, CdtAssumption
    <3>2. p # Null /\ p # del
      BY <1>1, <1>5, <2>2, <3>1
    <3> QED BY <1>2, <2>2, <3>1, <3>2
  <2>3. CASE c \notin {n, del}
    <3>1. prev[c] # Null /\ next[prev[c]] = c /\ prev[c] \in Slots /\ prev'[c] = prev[c]
      BY <1>1, <1>3, <1>5, <2>3 DEF IInv, LinksConsistent
    <3>2. prev[c] # p /\ prev[c] # del
      BY <1>1, <2>3, <3>1
    <3> QED BY <1>2, <3>1, <3>2
  <2> QED BY <2>1, <2>2, <2>3
<1>6. ASSUME NEW c \in Slots, IsNull(c)' PROVE next'[c] = Null /\ prev'[c] = Null
  <2>1. CASE c = del
    BY <1>2, <1>3, <2>1
  <2>2. CASE c # del
    <3>1. next[c] = Null /\ prev[c] = Null
      BY <1>6, <2>2 DEF IInv, LinksConsistent
    <3>2. c # n /\ c # p
      BY <1>1, <2>2, <3>1, CdtAssumption
    <3> QED BY <1>2, <1>3, <2>2, <3>1, <3>2
  <2> QED BY <2>1, <2>2
<1> QED BY <1>2, <1>3, <1>4, <1>5, <1>6 DEF LinksConsistent

-----------------------------------------------------------------------------
(* copy_cap of an occupied slot. *)
LEMMA CopyPreserves ==
  ASSUME IInv, NEW dest \in Slots, NEW src \in Slots, ~IsNull(src), Copy(dest, src)
  PROVE  IInv'
<1>1. PICK mask \in SUBSET Rights : copy_cap(dest, src, mask)
  BY DEF Copy
<1> DEFINE new == [cap[src] EXCEPT !.is_original = @ /\ cap[src].type = "UNTYPED",
                                   !.rights = @ \cap mask]
<1>2. cap[src] \in Caps /\ cap \in [Slots -> Caps] /\ ancestors \in [Slots -> SUBSET Slots]
  BY DEF IInv, TypeOK
<1>3. new \in Caps /\ new.type = cap[src].type
  BY <1>2 DEF Caps
<1>4. cap' = [cap EXCEPT ![dest] = new] /\ insert_cte_after(dest, src) /\ IsNull(dest)
      /\ stack' = stack
  BY <1>1 DEF copy_cap
<1> HIDE DEF new
<1>5. /\ cap' \in [Slots -> Caps] /\ ~IsNull(dest)'
      /\ \A c \in Slots : c # dest => (IsNull(c)' <=> IsNull(c))
  BY <1>2, <1>3, <1>4 DEF IsNull
<1>6. ancestors' \in [Slots -> SUBSET Slots]
  <2>1. Lineage(src) \in SUBSET Slots
    BY <1>2 DEF Lineage
  <2> QED BY <1>1, <1>2, <2>1 DEF copy_cap
<1> QED BY <1>4, <1>5, <1>6, InsertPreserves DEF IInv, TypeOK

(* mint_cap. *)
LEMMA MintPreserves ==
  ASSUME IInv, NEW dest \in Slots, NEW src \in Slots, Mint(dest, src)
  PROVE  IInv'
<1>1. PICK b \in BadgeValues \cup {0}, mask \in SUBSET Rights :
        mint_cap(dest, src, b, mask)
  BY DEF Mint
<1> DEFINE new == [cap[src] EXCEPT !.badge = b,
                                   !.is_original = @ /\ cap[src].type # "NOTIFICATION",
                                   !.rights = @ \cap mask]
<1>2. cap[src] \in Caps /\ cap \in [Slots -> Caps] /\ ancestors \in [Slots -> SUBSET Slots]
  BY DEF IInv, TypeOK
<1>3. new \in Caps /\ new.type = cap[src].type
  <2>1. b \in Nat /\ cap[src].rights \cap mask \in SUBSET Rights
    BY <1>2, CdtAssumption DEF Caps
  <2>2. (cap[src].is_original /\ cap[src].type # "NOTIFICATION") \in BOOLEAN
    OBVIOUS
  <2> QED BY <1>2, <2>1, <2>2 DEF Caps
<1>4. cap' = [cap EXCEPT ![dest] = new] /\ insert_cte_after(dest, src) /\ IsNull(dest)
      /\ stack' = stack /\ ~IsNull(src)
  BY <1>1 DEF mint_cap, IsNull
<1> HIDE DEF new
<1>5. /\ cap' \in [Slots -> Caps] /\ ~IsNull(dest)'
      /\ \A c \in Slots : c # dest => (IsNull(c)' <=> IsNull(c))
  BY <1>2, <1>3, <1>4 DEF IsNull
<1>6. ancestors' \in [Slots -> SUBSET Slots]
  <2>1. Lineage(src) \in SUBSET Slots
    BY <1>2 DEF Lineage
  <2> QED BY <1>1, <1>2, <2>1 DEF mint_cap
<1> QED BY <1>4, <1>5, <1>6, InsertPreserves DEF IInv, TypeOK

(* untyped_retype into an empty slot. *)
LEMMA RetypePreserves ==
  ASSUME IInv, NEW untyped \in Slots, NEW dest \in Slots, IsNull(dest),
         Retype(untyped, dest)
  PROVE  IInv'
<1>1. PICK type \in Types : untyped_retype(untyped, dest, type)
  BY DEF Retype
<1> DEFINE new == [type |-> type, space |-> "direct",
                   ptr |-> cap[untyped].ptr + cap[untyped].badge, badge |-> 0,
                   is_original |-> TRUE, rights |-> Rights]
           ut == [cap[untyped] EXCEPT !.badge = @ + 1]
<1>2. cap[untyped] \in Caps /\ cap \in [Slots -> Caps]
      /\ ancestors \in [Slots -> SUBSET Slots]
      /\ cap[untyped].type = "UNTYPED" /\ ~IsNull(untyped) /\ dest # untyped
  BY <1>1 DEF IInv, TypeOK, untyped_retype, IsNull
<1>3. new \in Caps /\ new.type # "NULL"
  BY <1>2, CdtAssumption DEF Caps
<1>4. ut \in Caps /\ ut.type = "UNTYPED"
  BY <1>2 DEF Caps
<1>5. /\ cap' = [cap EXCEPT ![dest] = new, ![untyped] = ut]
      /\ insert_cte_after(dest, untyped) /\ stack' = stack
      /\ ancestors' = [ancestors EXCEPT ![dest] = {}]
  BY <1>1, <1>2 DEF untyped_retype
<1> HIDE DEF new, ut
<1>6. /\ cap' \in [Slots -> Caps] /\ ~IsNull(dest)'
      /\ \A c \in Slots : c # dest => (IsNull(c)' <=> IsNull(c))
  BY <1>2, <1>3, <1>4, <1>5 DEF IsNull
<1>7. ancestors' \in [Slots -> SUBSET Slots]
  BY <1>2, <1>5
<1> QED BY <1>2, <1>5, <1>6, <1>7, InsertPreserves DEF IInv, TypeOK

(* A call of delete_cap or revoke_cap on a slot. *)
LEMMA EnterPreserves ==
  ASSUME IInv, NEW c \in Slots, NEW op \in {"delete", "revoke"}, Enter(c, op),
         UNCHANGED <<cap, next, prev, ancestors>>
  PROVE  IInv'
<1>1. stack' \in Seq(Frames)
  BY DEF IInv, TypeOK, Enter, Frames
<1> QED BY <1>1 DEF IInv, TypeOK, LinksConsistent, IsNull

(* The innermost call works on a slot. *)
LEMMA TopSlot ==
  ASSUME IInv, stack # <<>>
  PROVE  Top.slot \in Slots
<1>1. stack \in Seq(Frames) /\ Len(stack) \in 1..Len(stack)
  BY DEF IInv, TypeOK
<1>2. Top \in Frames
  BY <1>1 DEF Top
<1> QED BY <1>2 DEF Frames

(* revoke_cap goes on to the next slot. *)
LEMMA RevokeNextPreserves ==
  ASSUME IInv, RevokeNext
  PROVE  IInv'
<1>1. Top.slot \in Slots
  BY TopSlot DEF RevokeNext
<1>2. next[Top.slot] \in Slots
  BY <1>1 DEF IInv, TypeOK, RevokeNext, is_child_cap
<1> QED BY <1>2, EnterPreserves DEF RevokeNext

(* The end of revoke_cap, and of delete_cap with its unlink_cte. *)
LEMMA ReturnPreserves ==
  ASSUME IInv, Return
  PROVE  IInv'
<1>1. Top.slot \in Slots
  BY TopSlot DEF Return
<1>2. stack' \in Seq(Frames)
  <2>1. stack \in Seq(Frames) /\ Len(stack) \in Nat /\ Len(stack) >= 1
    BY DEF IInv, TypeOK, Return
  <2> QED BY <2>1 DEF Return
<1>3. CASE Top.op = "delete"
  <2>1. unlink_cte(Top.slot) /\ cap' = [cap EXCEPT ![Top.slot] = new_null_cap]
        /\ ancestors' = [ancestors EXCEPT ![Top.slot] = {}]
    BY <1>3 DEF Return
  <2>2. new_null_cap \in Caps
    BY DEF new_null_cap, Caps
  <2>3. /\ cap' \in [Slots -> Caps] /\ ancestors' \in [Slots -> SUBSET Slots]
        /\ \A c \in Slots : c # Top.slot => (IsNull(c)' <=> IsNull(c))
    BY <1>1, <2>1, <2>2 DEF IInv, TypeOK, IsNull
  <2> HIDE DEF Top
  <2> QED BY <1>1, <1>2, <2>1, <2>3, UnlinkPreserves DEF IInv, TypeOK
<1>4. CASE Top.op # "delete"
  BY <1>2, <1>4 DEF Return, IInv, TypeOK, LinksConsistent, IsNull
<1> QED BY <1>3, <1>4

(* Whatever is derived, deleted or revoked, in any order and also between  *)
(* the steps of a revocation, next and prev stay each other's inverse and  *)
(* empty slots stay unlinked (cdt.c), if callers copy occupied slots and   *)
(* retype into empty ones.                                                 *)
THEOREM LinksStayConsistent == ClientSpec => [](TypeOK /\ LinksConsistent)
<1>1. Init => IInv
  <2> SUFFICES ASSUME Init PROVE IInv
    OBVIOUS
  <2>1. new_null_cap \in Caps /\ new_untyped_cap \in Caps
    BY DEF new_null_cap, new_untyped_cap, Caps
  <2>2. TypeOK
    BY <2>1 DEF Init, TypeOK
  <2>3. LinksConsistent
    BY DEF Init, LinksConsistent
  <2> QED BY <2>2, <2>3 DEF IInv
<1>2. IInv /\ [ClientNext]_vars => IInv'
  <2> SUFFICES ASSUME IInv, [ClientNext]_vars PROVE IInv'
    OBVIOUS
  <2>1. ASSUME NEW dest \in Slots, NEW src \in Slots, ~IsNull(src), Copy(dest, src)
        PROVE  IInv'
    BY <2>1, CopyPreserves
  <2>2. ASSUME NEW dest \in Slots, NEW src \in Slots, Mint(dest, src) PROVE IInv'
    BY <2>2, MintPreserves
  <2>3. ASSUME NEW untyped \in Slots, NEW dest \in Slots, IsNull(dest),
               Retype(untyped, dest)
        PROVE  IInv'
    BY <2>3, RetypePreserves
  <2>4. ASSUME NEW c \in Slots, delete_cap(c) \/ revoke_cap(c) PROVE IInv'
    BY <2>4, EnterPreserves DEF delete_cap, revoke_cap
  <2>5. CASE RevokeNext
    BY <2>5, RevokeNextPreserves
  <2>6. CASE Return
    BY <2>6, ReturnPreserves
  <2>7. CASE UNCHANGED vars
    BY <2>7 DEF vars, IInv, TypeOK, LinksConsistent, IsNull
  <2> QED BY <2>1, <2>2, <2>3, <2>4, <2>5, <2>6, <2>7 DEF ClientNext
<1>3. IInv => TypeOK /\ LinksConsistent
  BY DEF IInv
<1> QED BY <1>1, <1>2, <1>3, PTL DEF ClientSpec

-----------------------------------------------------------------------------
(***************************************************************************)
(* What is derived.  DerivedRun describes the run of derived capabilities  *)
(* behind an original from the inside only: each of them follows the       *)
(* original or another one of the run.  That the run really begins at the  *)
(* original needs a list without cycles, Ordered.  The positions of the    *)
(* active calls are part of it.                                            *)
(***************************************************************************)

(* Empty slots and untypeds are neither originals nor derived. *)
Underived ==
  \A c \in Slots : cap[c].type \in {"NULL", "UNTYPED"} =>
    ~cap[c].is_original /\ ancestors[c] = {}

OrderedBy(pos) ==
  /\ \A c \in Slots : next[c] # Null => pos[c] < pos[next[c]]
  /\ \A i, j \in 1..Len(stack) : i < j => pos[stack[i].slot] < pos[stack[j].slot]

Ordered == \E pos \in [Slots -> Nat] : OrderedBy(pos)

DInv == DerivedRun /\ RightsNeverGrow /\ Underived /\ Ordered

(* Every set of numbers has a least one. *)
LEMMA LeastNumber ==
  ASSUME NEW T, T \subseteq Nat, T # {}
  PROVE  \E x \in T : \A y \in T : x <= y
<1> DEFINE R == OpToRel(<, Nat)
<1>1. \A x, y \in Nat : <<x, y>> \in R <=> x < y
  BY DEF OpToRel
<1>2. IsWellFoundedOn(R, Nat)
  BY NatLessThanWellFounded, Zenon
<1> HIDE DEF R
<1>3. PICK x \in T : \A y \in T : ~ (<<y, x>> \in R)
  BY <1>2, WFMin
<1>4. \A y \in T : ~(y < x) /\ x \in Nat /\ y \in Nat
  BY <1>1, <1>3
<1> QED BY <1>4

(* The test of the revocation loop, where parents are never untypeds. *)
LEMMA ChildIsDerived ==
  ASSUME DInv, NEW d \in Slots, NEW c \in ancestors[d], c \in Slots
  PROVE  /\ cap[c].is_original /\ cap[c].type \notin {"NULL", "UNTYPED"}
         /\ cap[d].type = cap[c].type
         /\ cap[c].type = "ENDPOINT" => cap[c].badge = cap[d].badge \/ cap[c].badge = 0
<1>1. is_child_cap(d, c)
  BY DEF DInv, DerivedRun
<1>2. cap[c].is_original
  BY <1>1 DEF is_child_cap
<1>3. cap[c].type \notin {"NULL", "UNTYPED"}
  BY <1>2 DEF DInv, Underived
<1> QED BY <1>1, <1>2, <1>3 DEF is_child_cap

(* When the loop of revoke_cap ends at c, nothing is derived from c. *)
LEMMA NothingDerived ==
  ASSUME IInv, DInv, NEW c \in Slots, ~is_child_cap(next[c], c)
  PROVE  \A d \in Slots : c \notin ancestors[d]
<1> DEFINE D == {d \in Slots : c \in ancestors[d]}
<1> SUFFICES ASSUME D # {} PROVE FALSE
  OBVIOUS
<1>1. PICK pos \in [Slots -> Nat] : OrderedBy(pos)
  BY DEF DInv, Ordered
<1> DEFINE T == {pos[d] : d \in D}
<1>2. PICK x \in T : \A y \in T : x <= y
  <2>1. T \subseteq Nat /\ T # {}
    OBVIOUS
  <2> HIDE DEF T
  <2> QED BY <2>1, LeastNumber
<1>3. PICK d \in D : x = pos[d]
  BY <1>2
<1>4. is_child_cap(d, c) /\ (prev[d] = c \/ (prev[d] # Null /\ c \in ancestors[prev[d]]))
  BY <1>3 DEF DInv, DerivedRun
<1>5. prev[d] # Null /\ prev[d] \in Slots /\ next[prev[d]] = d
  BY <1>3, <1>4, CdtAssumption DEF IInv, TypeOK, LinksConsistent
<1>6. prev[d] # c
  BY <1>4, <1>5
<1>7. prev[d] \in D
  BY <1>4, <1>5, <1>6
<1>8. pos[prev[d]] < pos[d] /\ pos[d] <= pos[prev[d]]
  <2>1. d # Null
    BY <1>3, CdtAssumption
  <2> QED BY <1>1, <1>2, <1>3, <1>5, <1>7, <2>1 DEF OrderedBy
<1> QED BY <1>1, <1>3, <1>5, <1>8

(* insert_cte_after makes no cycle: what comes later moves up by one. *)
LEMMA InsertOrdered ==
  ASSUME IInv, Ordered, NEW dest \in Slots, NEW src \in Slots, IsNull(dest), ~IsNull(src),
         insert_cte_after(dest, src), stack = <<>>, stack' = stack
  PROVE  Ordered'
<1> DEFINE n == next[src]
<1>1. PICK pos \in [Slots -> Nat] : OrderedBy(pos)
  BY DEF Ordered
<1>2. /\ next \in [Slots -> Slots \cup {Null}] /\ dest # src /\ prev[dest] = Null
      /\ \A c \in Slots : next[c] # dest
  BY CdtAssumption DEF IInv, TypeOK, LinksConsistent
<1>3. /\ next'[src] = dest /\ next'[dest] = n
      /\ \A c \in Slots : c \notin {src, dest} => next'[c] = next[c]
  BY <1>2 DEF insert_cte_after
<1> DEFINE up == [c \in Slots |-> IF c = dest THEN pos[src] + 1
                                  ELSE IF pos[c] > pos[src] THEN pos[c] + 1 ELSE pos[c]]
<1>4. up \in [Slots -> Nat]
  OBVIOUS
<1>5. ASSUME NEW c \in Slots, next'[c] # Null PROVE up[c] < up[next'[c]]
  <2>1. CASE c = src
    BY <1>2, <1>3, <2>1
  <2>2. CASE c = dest
    <3>1. n \in Slots /\ n # dest /\ pos[src] < pos[n]
      BY <1>1, <1>2, <1>3, <1>5, <2>2 DEF OrderedBy
    <3> QED BY <1>3, <2>2, <3>1
  <2>3. CASE c \notin {src, dest}
    <3>1. next'[c] = next[c] /\ next[c] \in Slots /\ next[c] # dest /\ pos[c] < pos[next[c]]
      BY <1>1, <1>2, <1>3, <1>5, <2>3 DEF OrderedBy
    <3> QED BY <2>3, <3>1
  <2> QED BY <2>1, <2>2, <2>3
<1> HIDE DEF up
<1>6. stack' = <<>>
  OBVIOUS
<1>7. OrderedBy(up)'
  BY <1>5, <1>6 DEF OrderedBy
<1> QED BY <1>4, <1>7 DEF Ordered

(* copy_cap and mint_cap: the new capability is one more of the run of     *)
(* whatever its source is derived from, and of its source if that is an    *)
(* original.                                                               *)
LEMMA DeriveKeeps ==
  ASSUME IInv, DInv, NEW dest \in Slots, NEW src \in Slots, NEW new \in Caps,
         IsNull(dest), ~IsNull(src), cap[src].type # "UNTYPED",
         new.type = cap[src].type, new.rights \subseteq cap[src].rights,
         new.type = "ENDPOINT" => new.badge = cap[src].badge \/ cap[src].badge = 0,
         cap' = [cap EXCEPT ![dest] = new], insert_cte_after(dest, src),
         ancestors' = [ancestors EXCEPT ![dest] = Lineage(src)],
         stack = <<>>, stack' = stack
  PROVE  DInv'
<1> DEFINE n == next[src]
<1>0. /\ cap \in [Slots -> Caps] /\ ancestors \in [Slots -> SUBSET Slots]
      /\ next \in [Slots -> Slots \cup {Null}] /\ prev \in [Slots -> Slots \cup {Null}]
      /\ dest # src /\ src # Null /\ dest # Null
      /\ n # Null => prev[n] = src /\ n \in Slots
  BY CdtAssumption DEF IInv, TypeOK, LinksConsistent
<1>1. /\ \A c \in Slots : cap'[c] = IF c = dest THEN new ELSE cap[c]
      /\ \A c \in Slots : ancestors'[c] = IF c = dest THEN Lineage(src) ELSE ancestors[c]
  BY <1>0
<1>2. /\ prev'[dest] = src
      /\ \A c \in Slots : c # dest => prev'[c] = IF c = n THEN dest ELSE prev[c]
  BY <1>0 DEF insert_cte_after
<1>3. /\ ancestors[dest] = {} /\ \A d \in Slots : dest \notin ancestors[d]
      /\ dest \notin Lineage(src) /\ Lineage(src) \subseteq Slots
  <2>1. ~cap[dest].is_original /\ ancestors[dest] = {}
    BY DEF DInv, Underived, IsNull
  <2>2. \A d \in Slots : dest \notin ancestors[d]
    BY <2>1, ChildIsDerived
  <2> QED BY <1>0, <2>1, <2>2 DEF Lineage
<1>4. ASSUME NEW c \in Lineage(src)
      PROVE  /\ c \in Slots /\ c # dest
             /\ cap[c].is_original /\ cap[c].type \notin {"NULL", "UNTYPED"}
             /\ cap[src].type = cap[c].type /\ cap[src].rights \subseteq cap[c].rights
             /\ cap[c].type = "ENDPOINT" => cap[c].badge = cap[src].badge \/ cap[c].badge = 0
  <2>1. CASE c = src /\ cap[src].is_original
    BY <1>0, <2>1 DEF IsNull
  <2>2. CASE c \in ancestors[src]
    BY <1>0, <1>3, <2>2, ChildIsDerived DEF DInv, RightsNeverGrow
  <2> QED BY <1>4, <2>1, <2>2 DEF Lineage
<1>5. ASSUME NEW d \in Slots, NEW c \in ancestors'[d]
      PROVE  /\ c \in Slots /\ c # dest
             /\ cap'[c].is_original /\ cap'[c].type \notin {"NULL", "UNTYPED"}
             /\ cap'[d].type = cap'[c].type /\ cap'[d].rights \subseteq cap'[c].rights
             /\ cap'[c].type = "ENDPOINT" => cap'[c].badge = cap'[d].badge \/ cap'[c].badge = 0
  <2>1. CASE d = dest
    <3>1. c \in Lineage(src)
      BY <1>1, <1>5, <2>1
    <3> QED BY <1>1, <1>4, <2>1, <3>1
  <2>2. CASE d # dest
    <3>1. c \in ancestors[d] /\ c \in Slots /\ c # dest
      BY <1>0, <1>1, <1>3, <1>5, <2>2
    <3> QED BY <1>1, <2>2, <3>1, ChildIsDerived DEF DInv, RightsNeverGrow
  <2> QED BY <2>1, <2>2
<1>6. DerivedRun'
  <2> SUFFICES ASSUME NEW d \in Slots, NEW c \in ancestors'[d]
               PROVE  /\ prev'[d] = c \/ (prev'[d] # Null /\ c \in ancestors'[prev'[d]])
                      /\ is_child_cap(d, c)'
    BY DEF DerivedRun
  <2>1. is_child_cap(d, c)'
    <3>1. d # Null
      BY CdtAssumption
    <3> QED BY <1>5, <3>1 DEF is_child_cap
  <2>2. CASE d = dest
    BY <1>0, <1>1, <1>2, <2>1, <2>2 DEF Lineage
  <2>3. CASE d # dest /\ d = n
    <3>1. prev[d] = src /\ c \in ancestors[d] /\ prev'[d] = dest
      BY <1>0, <1>1, <1>2, <2>3, CdtAssumption
    <3>2. c = src \/ c \in ancestors[src]
      BY <3>1 DEF DInv, DerivedRun
    <3>3. c = src => cap[src].is_original
      BY <1>0, <3>1, ChildIsDerived
    <3>4. c \in Lineage(src)
      BY <3>2, <3>3 DEF Lineage
    <3> QED BY <1>0, <1>1, <2>1, <3>1, <3>4
  <2>4. CASE d # dest /\ d # n
    <3>1. prev'[d] = prev[d] /\ c \in ancestors[d]
      BY <1>1, <1>2, <2>4
    <3>2. prev[d] = c \/ (prev[d] # Null /\ c \in ancestors[prev[d]])
      BY <3>1 DEF DInv, DerivedRun
    <3>3. prev[d] # Null => prev[d] \in Slots
      BY <1>0
    <3> QED BY <1>1, <1>3, <2>1, <3>1, <3>2, <3>3
  <2> QED BY <2>2, <2>3, <2>4
<1>7. RightsNeverGrow'
  BY <1>5 DEF RightsNeverGrow
<1>8. Underived'
  BY <1>1 DEF DInv, Underived, IsNull
<1>9. Ordered'
  BY InsertOrdered DEF DInv
<1> QED BY <1>6, <1>7, <1>8, <1>9 DEF DInv

(* copy_cap of a capability that is no untyped. *)
LEMMA CopyKeeps ==
  ASSUME IInv, DInv, NEW dest \in Slots, NEW src \in Slots, ~IsNull(src),
         cap[src].type # "UNTYPED", Copy(dest, src)
  PROVE  DInv'
<1>1. PICK mask \in SUBSET Rights : copy_cap(dest, src, mask)
  BY DEF Copy
<1> DEFINE new == [cap[src] EXCEPT !.is_original = @ /\ cap[src].type = "UNTYPED",
                                   !.rights = @ \cap mask]
<1>2. cap[src] \in Caps
  BY DEF IInv, TypeOK
<1>3. /\ new \in Caps /\ new.type = cap[src].type /\ new.badge = cap[src].badge
      /\ new.rights \subseteq cap[src].rights
  BY <1>2 DEF Caps
<1>4. /\ cap' = [cap EXCEPT ![dest] = new] /\ insert_cte_after(dest, src) /\ IsNull(dest)
      /\ ancestors' = [ancestors EXCEPT ![dest] = Lineage(src)]
      /\ stack = <<>> /\ stack' = stack
  BY <1>1 DEF copy_cap, Copy
<1> HIDE DEF new
<1> QED BY <1>3, <1>4, DeriveKeeps

(* mint_cap: only an unbadged capability is given a badge. *)
LEMMA MintKeeps ==
  ASSUME IInv, DInv, NEW dest \in Slots, NEW src \in Slots, Mint(dest, src)
  PROVE  DInv'
<1>1. PICK b \in BadgeValues \cup {0}, mask \in SUBSET Rights :
        mint_cap(dest, src, b, mask)
  BY DEF Mint
<1> DEFINE new == [cap[src] EXCEPT !.badge = b,
                                   !.is_original = @ /\ cap[src].type # "NOTIFICATION",
                                   !.rights = @ \cap mask]
<1>2. cap[src] \in Caps
  BY DEF IInv, TypeOK
<1>3. new \in Caps /\ new.type = cap[src].type /\ new.rights \subseteq cap[src].rights
  <2>1. b \in Nat /\ cap[src].rights \cap mask \in SUBSET Rights
    BY <1>2, CdtAssumption DEF Caps
  <2>2. (cap[src].is_original /\ cap[src].type # "NOTIFICATION") \in BOOLEAN
    OBVIOUS
  <2> QED BY <1>2, <2>1, <2>2 DEF Caps
<1>4. /\ cap' = [cap EXCEPT ![dest] = new] /\ insert_cte_after(dest, src) /\ IsNull(dest)
      /\ ancestors' = [ancestors EXCEPT ![dest] = Lineage(src)]
      /\ stack = <<>> /\ stack' = stack
      /\ cap[src].type \in {"ENDPOINT", "NOTIFICATION"} /\ cap[src].badge = 0
  BY <1>1 DEF mint_cap, Mint
<1>5. ~IsNull(src) /\ cap[src].type # "UNTYPED"
  BY <1>4 DEF IsNull
<1> HIDE DEF new
<1> QED BY <1>3, <1>4, <1>5, DeriveKeeps

(* untyped_retype: nothing is derived from the untyped, so the slot behind *)
(* it begins no run.                                                       *)
LEMMA RetypeKeeps ==
  ASSUME IInv, DInv, NEW untyped \in Slots, NEW dest \in Slots, IsNull(dest),
         Retype(untyped, dest)
  PROVE  DInv'
<1>1. PICK type \in Types : untyped_retype(untyped, dest, type)
  BY DEF Retype
<1> DEFINE new == [type |-> type, space |-> "direct",
                   ptr |-> cap[untyped].ptr + cap[untyped].badge, badge |-> 0,
                   is_original |-> TRUE, rights |-> Rights]
           ut == [cap[untyped] EXCEPT !.badge = @ + 1]
           n == next[untyped]
<1>2. /\ cap[untyped] \in Caps /\ cap \in [Slots -> Caps]
      /\ ancestors \in [Slots -> SUBSET Slots]
      /\ next \in [Slots -> Slots \cup {Null}] /\ prev \in [Slots -> Slots \cup {Null}]
      /\ cap[untyped].type = "UNTYPED" /\ ~IsNull(untyped) /\ dest # untyped
      /\ n # Null => prev[n] = untyped /\ n \in Slots
      /\ stack = <<>>
  BY <1>1 DEF IInv, TypeOK, LinksConsistent, untyped_retype, IsNull, Retype
<1>3. new.type \notin {"NULL", "UNTYPED"}
  BY CdtAssumption
<1>4. ut.type = "UNTYPED" /\ ut.is_original = cap[untyped].is_original
  BY <1>2 DEF Caps
<1>5. /\ cap' = [cap EXCEPT ![dest] = new, ![untyped] = ut]
      /\ insert_cte_after(dest, untyped) /\ stack' = stack
      /\ ancestors' = [ancestors EXCEPT ![dest] = {}]
  BY <1>1, <1>2 DEF untyped_retype
<1> HIDE DEF new, ut
<1>6. /\ \A c \in Slots : cap'[c] = IF c = dest THEN new ELSE IF c = untyped THEN ut ELSE cap[c]
      /\ \A c \in Slots : ancestors'[c] = IF c = dest THEN {} ELSE ancestors[c]
  BY <1>2, <1>5
<1>7. \A c \in Slots : c # dest => prev'[c] = IF c = n THEN dest ELSE prev[c]
  BY <1>2, <1>5 DEF insert_cte_after
<1>8. /\ ancestors[dest] = {} /\ ancestors[untyped] = {}
      /\ \A d \in Slots : dest \notin ancestors[d] /\ untyped \notin ancestors[d]
  <2>1. /\ ~cap[dest].is_original /\ ancestors[dest] = {}
        /\ ~cap[untyped].is_original /\ ancestors[untyped] = {}
    BY <1>2 DEF DInv, Underived, IsNull
  <2> QED BY <2>1, ChildIsDerived
<1>9. ASSUME NEW d \in Slots, NEW c \in ancestors'[d]
      PROVE  /\ d # dest /\ d # untyped /\ c \in ancestors[d] /\ c \in Slots
             /\ d # n
             /\ cap'[d] = cap[d] /\ cap'[c] = cap[c]
  <2>1. d # dest /\ d # untyped /\ c \in ancestors[d] /\ c \in Slots
    BY <1>2, <1>6, <1>8, <1>9
  <2>2. c # dest /\ c # untyped
    BY <1>8, <2>1
  <2>3. d # n
    <3>1. prev[d] = c \/ c \in ancestors[prev[d]]
      BY <2>1 DEF DInv, DerivedRun
    <3>2. d # Null
      BY CdtAssumption
    <3> QED BY <1>2, <1>8, <2>2, <3>1, <3>2
  <2> QED BY <1>6, <2>1, <2>2, <2>3
<1>10. DerivedRun'
  <2> SUFFICES ASSUME NEW d \in Slots, NEW c \in ancestors'[d]
               PROVE  /\ prev'[d] = c \/ (prev'[d] # Null /\ c \in ancestors'[prev'[d]])
                      /\ is_child_cap(d, c)'
    BY DEF DerivedRun
  <2>1. is_child_cap(d, c)'
    <3>1. d # Null
      BY CdtAssumption
    <3> QED BY <1>9, <3>1, ChildIsDerived DEF is_child_cap
  <2>2. prev'[d] = prev[d]
    BY <1>7, <1>9
  <2>3. prev[d] = c \/ (prev[d] # Null /\ c \in ancestors[prev[d]])
    BY <1>9 DEF DInv, DerivedRun
  <2>4. prev[d] # Null => prev[d] \in Slots
    BY <1>2
  <2> QED BY <1>6, <1>8, <2>1, <2>2, <2>3, <2>4
<1>11. RightsNeverGrow'
  BY <1>9 DEF DInv, RightsNeverGrow
<1>12. Underived'
  BY <1>2, <1>3, <1>4, <1>6 DEF DInv, Underived
<1>13. Ordered'
  BY <1>2, <1>5, InsertOrdered DEF DInv
<1> QED BY <1>10, <1>11, <1>12, <1>13 DEF DInv

(* A call on a slot behind all the slots of the active calls. *)
LEMMA EnterKeeps ==
  ASSUME IInv, DInv, NEW c \in Slots, NEW op \in {"delete", "revoke"}, Enter(c, op),
         stack = <<>> \/ (stack # <<>> /\ next[Top.slot] = c),
         UNCHANGED <<cap, next, prev, ancestors>>
  PROVE  DInv'
<1>1. PICK pos \in [Slots -> Nat] : OrderedBy(pos)
  BY DEF DInv, Ordered
<1> DEFINE m == Len(stack)
           f == [slot |-> c, op |-> op]
<1>2. /\ stack \in Seq(Frames) /\ m \in Nat /\ f \in Frames /\ f.slot = c
      /\ stack' = Append(stack, f)
  BY DEF IInv, TypeOK, Frames, Enter
<1>3. /\ Len(stack') = m + 1 /\ stack'[m + 1] = f
      /\ \A i \in 1..m : stack'[i] = stack[i]
      /\ \A i \in 1..m : stack[i] \in Frames
  BY <1>2
<1>4. \A i \in 1..m : stack[i].slot \in Slots
  BY <1>3 DEF Frames
<1>5. \A i \in 1..m : pos[stack[i].slot] < pos[c]
  <2>1. CASE stack = <<>>
    BY <2>1
  <2>2. CASE stack # <<>> /\ next[Top.slot] = c
    <3>1. m \in 1..m /\ Top = stack[m]
      BY <1>2, <2>2 DEF Top
    <3>2. pos[stack[m].slot] < pos[c]
      <4>1. c # Null
        BY CdtAssumption
      <4> QED BY <1>1, <1>4, <2>2, <3>1, <4>1 DEF OrderedBy
    <3>3. \A i \in 1..m : i = m \/ pos[stack[i].slot] < pos[stack[m].slot]
      BY <1>1, <1>2, <3>1 DEF OrderedBy
    <3> QED BY <1>1, <1>4, <3>1, <3>2, <3>3
  <2> QED BY <2>1, <2>2
<1>6. ASSUME NEW i \in 1..Len(stack'), NEW j \in 1..Len(stack'), i < j
      PROVE  pos[stack'[i].slot] < pos[stack'[j].slot]
  <2>1. i \in 1..m
    BY <1>2, <1>3, <1>6
  <2>2. CASE j = m + 1
    BY <1>2, <1>3, <1>5, <2>1, <2>2
  <2>3. CASE j # m + 1
    <3>1. j \in 1..m
      BY <1>2, <1>3, <2>3
    <3> QED BY <1>1, <1>3, <1>6, <2>1, <3>1 DEF OrderedBy
  <2> QED BY <2>2, <2>3
<1>7. Ordered'
  <2>1. OrderedBy(pos)'
    BY <1>1, <1>6 DEF OrderedBy
  <2> QED BY <2>1 DEF Ordered
<1>8. DerivedRun' /\ RightsNeverGrow' /\ Underived'
  BY DEF DInv, DerivedRun, RightsNeverGrow, Underived, is_child_cap
<1> QED BY <1>7, <1>8 DEF DInv

(* The end of a call.  Nothing derived from the slot is left, so that      *)
(* clearing it breaks no run but the ones it is part of.                   *)
LEMMA ReturnKeeps ==
  ASSUME IInv, DInv, Return
  PROVE  DInv' /\ \A d \in Slots : Top.slot \notin ancestors'[d]
<1> DEFINE del == Top.slot
           n == next[del]
           p == prev[del]
           m == Len(stack)
<1>0. del \in Slots /\ stack # <<>> /\ ~is_child_cap(next[del], del)
  BY TopSlot DEF Return
<1>1. \A d \in Slots : del \notin ancestors[d]
  BY <1>0, NothingDerived
<1>2. PICK pos \in [Slots -> Nat] : OrderedBy(pos)
  BY DEF DInv, Ordered
<1>3. /\ m \in Nat /\ Len(stack') = m - 1
      /\ \A i \in 1..Len(stack') : i \in 1..m /\ stack'[i] = stack[i]
  <2>1. stack \in Seq(Frames) /\ m >= 1 /\ m \in Nat
    BY <1>0 DEF IInv, TypeOK
  <2>2. stack' = SubSeq(stack, 1, m - 1)
    BY DEF Return
  <2>3. 1 \in 1..(m + 1) /\ m - 1 \in 0..m
    BY <2>1
  <2>4. \A i \in 1..(m - 1) : stack[i] \in Frames
    BY <2>1
  <2> HIDE DEF m
  <2>5. /\ Len(stack') = IF 1 <= m - 1 THEN (m - 1) - 1 + 1 ELSE 0
        /\ \A i \in 1..((m - 1) - 1 + 1) : stack'[i] = stack[1 + i - 1]
    BY <2>1, <2>2, <2>3, <2>4, SubSeqProperties
  <2> QED BY <2>1, <2>5
<1>4. \A i, j \in 1..Len(stack') : i < j => pos[stack'[i].slot] < pos[stack'[j].slot]
  BY <1>2, <1>3 DEF OrderedBy
<1>5. CASE Top.op # "delete"
  <2>1. UNCHANGED <<cap, next, prev, ancestors>>
    BY <1>5 DEF Return
  <2>2. OrderedBy(pos)'
    BY <1>2, <1>4, <2>1 DEF OrderedBy
  <2>3. Ordered'
    BY <2>2 DEF Ordered
  <2>4. DerivedRun' /\ RightsNeverGrow' /\ Underived'
    BY <2>1 DEF DInv, DerivedRun, RightsNeverGrow, Underived, is_child_cap
  <2> QED BY <1>1, <2>1, <2>3, <2>4 DEF DInv
<1>6. CASE Top.op = "delete"
  <2>1. /\ unlink_cte(del) /\ cap' = [cap EXCEPT ![del] = new_null_cap]
        /\ ancestors' = [ancestors EXCEPT ![del] = {}]
    BY <1>6 DEF Return
  <2> HIDE DEF del
  <2>2. /\ cap \in [Slots -> Caps] /\ ancestors \in [Slots -> SUBSET Slots]
        /\ next \in [Slots -> Slots \cup {Null}] /\ prev \in [Slots -> Slots \cup {Null}]
        /\ n # Null => prev[n] = del /\ n \in Slots
        /\ p # Null => next[p] = del /\ p \in Slots
        /\ del # Null
    BY <1>0, CdtAssumption DEF IInv, TypeOK, LinksConsistent
  <2>3. \A c \in Slots : next[c] # c
    <3> SUFFICES ASSUME NEW c \in Slots, next[c] = c PROVE FALSE
      OBVIOUS
    <3>1. pos[c] < pos[c] /\ pos[c] \in Nat
      BY <1>2, CdtAssumption DEF OrderedBy
    <3> QED BY <3>1
  <2>4. n # del /\ p # del
    BY <1>0, <2>2, <2>3
  <2>5. /\ \A c \in Slots : cap'[c] = IF c = del THEN new_null_cap ELSE cap[c]
        /\ \A c \in Slots : ancestors'[c] = IF c = del THEN {} ELSE ancestors[c]
    BY <1>0, <2>1, <2>2
  <2>6. /\ \A c \in Slots : next'[c] = IF c = del THEN Null
                                       ELSE IF c = p THEN n ELSE next[c]
        /\ \A c \in Slots : prev'[c] = IF c = del THEN Null
                                       ELSE IF c = n THEN p ELSE prev[c]
    BY <2>1 DEF unlink_cte
  <2> HIDE DEF n, p
  <2>7. ASSUME NEW d \in Slots, NEW c \in ancestors'[d]
        PROVE  /\ d # del /\ c # del /\ c \in ancestors[d] /\ c \in Slots
               /\ cap'[d] = cap[d] /\ cap'[c] = cap[c]
    <3>1. d # del /\ c \in ancestors[d] /\ c \in Slots
      BY <2>2, <2>5, <2>7
    <3> QED BY <1>1, <2>5, <3>1
  <2>8. DerivedRun'
    <3> SUFFICES ASSUME NEW d \in Slots, NEW c \in ancestors'[d]
                 PROVE  /\ prev'[d] = c \/ (prev'[d] # Null /\ c \in ancestors'[prev'[d]])
                        /\ is_child_cap(d, c)'
      BY DEF DerivedRun
    <3>1. is_child_cap(d, c)'
      <4>1. d # Null
        BY CdtAssumption
      <4> QED BY <2>7, <4>1, ChildIsDerived DEF is_child_cap
    <3>2. prev[d] = c \/ (prev[d] # Null /\ c \in ancestors[prev[d]])
      BY <2>7 DEF DInv, DerivedRun
    <3>3. CASE d = n
      <4>1. c \in ancestors[del] /\ prev'[d] = p
        BY <2>2, <2>6, <2>7, <3>2, <3>3, CdtAssumption
      <4>2. p = c \/ (p # Null /\ c \in ancestors[p])
        BY <1>0, <4>1 DEF DInv, DerivedRun, p
      <4> QED BY <2>2, <2>4, <2>5, <3>1, <4>1, <4>2
    <3>4. CASE d # n
      <4>1. prev'[d] = prev[d] /\ (prev[d] # Null => prev[d] \in Slots)
        BY <2>2, <2>6, <2>7, <3>4
      <4>2. prev[d] # del
        BY <2>2, <3>4 DEF IInv, LinksConsistent, n
      <4> QED BY <2>5, <3>1, <3>2, <4>1, <4>2
    <3> QED BY <3>3, <3>4
  <2>9. RightsNeverGrow'
    BY <2>7 DEF DInv, RightsNeverGrow
  <2>10. Underived'
    BY <2>5 DEF DInv, Underived, new_null_cap
  <2>11. ASSUME NEW c \in Slots, next'[c] # Null PROVE pos[c] < pos[next'[c]]
    <3>1. c # del
      BY <2>6, <2>11
    <3>2. CASE c = p
      <4>1. p # Null
        BY <3>2, CdtAssumption
      <4>2. next'[c] = n /\ n # Null
        BY <2>6, <2>11, <3>1, <3>2
      <4>3. pos[p] < pos[del] /\ pos[del] < pos[n]
        BY <1>0, <1>2, <2>2, <4>1, <4>2 DEF OrderedBy, n
      <4> QED BY <1>0, <1>2, <2>2, <3>2, <4>1, <4>2, <4>3
    <3>3. CASE c # p
      BY <1>2, <2>6, <2>11, <3>1, <3>3 DEF OrderedBy
    <3> QED BY <3>2, <3>3
  <2>12. Ordered'
    <3>1. OrderedBy(pos)'
      BY <1>4, <2>11 DEF OrderedBy
    <3> QED BY <3>1 DEF Ordered
  <2>13. \A d \in Slots : del \notin ancestors'[d]
    BY <2>7
  <2> QED BY <2>8, <2>9, <2>10, <2>12, <2>13 DEF DInv, del
<1> QED BY <1>5, <1>6

(* One step of the derivation list. *)
LEMMA DerivedStep ==
  ASSUME IInv, DInv, [ClientNext]_vars
  PROVE  DInv'
<1>1. ASSUME NEW dest \in Slots, NEW src \in Slots, ~IsNull(src),
             cap[src].type # "UNTYPED", Copy(dest, src)
      PROVE  DInv'
  BY <1>1, CopyKeeps
<1>2. ASSUME NEW dest \in Slots, NEW src \in Slots, Mint(dest, src) PROVE DInv'
  BY <1>2, MintKeeps
<1>3. ASSUME NEW untyped \in Slots, NEW dest \in Slots, IsNull(dest), Retype(untyped, dest)
      PROVE  DInv'
  BY <1>3, RetypeKeeps
<1>4. ASSUME NEW c \in Slots, delete_cap(c) \/ revoke_cap(c) PROVE DInv'
  BY <1>4, EnterKeeps DEF delete_cap, revoke_cap
<1>5. CASE RevokeNext
  <2>1. Top.slot \in Slots /\ stack # <<>>
    BY <1>5, TopSlot DEF RevokeNext
  <2>2. next[Top.slot] \in Slots
    BY <1>5, <2>1 DEF IInv, TypeOK, RevokeNext, is_child_cap
  <2> QED BY <1>5, <2>1, <2>2, EnterKeeps DEF RevokeNext
<1>6. CASE Return
  BY <1>6, ReturnKeeps
<1>7. CASE UNCHANGED vars
  <2>1. DerivedRun' /\ RightsNeverGrow' /\ Underived'
    BY <1>7 DEF vars, DInv, DerivedRun, RightsNeverGrow, Underived, is_child_cap
  <2>2. Ordered'
    BY <1>7 DEF vars, DInv, Ordered, OrderedBy
  <2> QED BY <2>1, <2>2 DEF DInv
<1> QED BY <1>1, <1>2, <1>3, <1>4, <1>5, <1>6, <1>7 DEF ClientNext

(* At boot only the root untyped exists. *)
LEMMA DerivedInit == Init => DInv
<1> SUFFICES ASSUME Init PROVE DInv
  OBVIOUS
<1>1. DerivedRun /\ RightsNeverGrow
  BY DEF Init, DerivedRun, RightsNeverGrow
<1>2. Underived
  BY DEF Init, Underived, new_null_cap, new_untyped_cap
<1>3. OrderedBy([c \in Slots |-> 0])
  BY DEF Init, OrderedBy
<1>4. Ordered
  BY <1>3 DEF Ordered
<1> QED BY <1>1, <1>2, <1>4 DEF DInv

(* Both parts of the invariant together. *)
LEMMA DerivedInductive == ClientSpec => [](IInv /\ DInv)
<1>1. ClientSpec => []IInv
  BY LinksStayConsistent, PTL DEF IInv
<1>2. IInv /\ DInv /\ [ClientNext]_vars => DInv'
  BY DerivedStep
<1> QED BY <1>1, <1>2, DerivedInit, PTL DEF ClientSpec

(* What was derived from a capability lies right behind it in the list,    *)
(* and the loop of revoke_cap recognises all of it, whatever was derived   *)
(* and deleted before (cdt.c copy_cap, mint_cap, delete_cap).              *)
THEOREM DerivedCapsFollow == ClientSpec => []DerivedRun
<1>1. DInv => DerivedRun
  BY DEF DInv
<1> QED BY <1>1, DerivedInductive, PTL

(* A capability never has a right that one it was derived from lacks       *)
(* (copy_cap, mint_cap).                                                   *)
THEOREM NoRightIsGained == ClientSpec => []RightsNeverGrow
<1>1. DInv => RightsNeverGrow
  BY DEF DInv
<1> QED BY <1>1, DerivedInductive, PTL

(* The recursion of delete_cap never enters a slot twice, so that its      *)
(* depth is bounded by the number of slots (delete_cap, revoke_cap).       *)
THEOREM RecursionIsBounded == ClientSpec => []RecursionBounded
<1>1. IInv /\ DInv => RecursionBounded
  <2> SUFFICES ASSUME IInv, DInv, NEW i \in 1..Len(stack), NEW j \in 1..Len(stack),
                      stack[i].slot = stack[j].slot
               PROVE  i = j
    BY DEF RecursionBounded
  <2>1. PICK pos \in [Slots -> Nat] : OrderedBy(pos)
    BY DEF DInv, Ordered
  <2>2. stack[i].slot \in Slots
    <3>1. stack[i] \in Frames
      BY DEF IInv, TypeOK
    <3> QED BY <3>1 DEF Frames
  <2>3. ~(i < j) /\ ~(j < i)
    BY <2>1, <2>2 DEF OrderedBy
  <2>4. i \in Nat /\ j \in Nat
    BY DEF IInv, TypeOK
  <2> QED BY <2>3, <2>4
<1> QED BY <1>1, DerivedInductive, PTL

(* When a revocation or a deletion returns, nothing that was derived from  *)
(* its capability is left anywhere (revoke_cap, delete_cap).               *)
THEOREM RevocationIsComplete == ClientSpec => RevokeComplete
<1>1. IInv /\ DInv /\ [ClientNext]_vars =>
        [Len(stack') < Len(stack) => \A d \in Slots : Top.slot \notin ancestors'[d]]_vars
  <2> SUFFICES ASSUME IInv, DInv, ClientNext, Len(stack') < Len(stack)
               PROVE  \A d \in Slots : Top.slot \notin ancestors'[d]
    BY DEF vars
  <2>1. stack \in Seq(Frames) /\ Len(stack) \in Nat
    BY DEF IInv, TypeOK
  <2>2. \A f : Len(Append(stack, f)) = Len(stack) + 1
    BY <2>1
  <2>3. stack' # stack /\ \A f : stack' # Append(stack, f)
    BY <2>1, <2>2
  <2>4. Return
    BY <2>3 DEF ClientNext, Copy, copy_cap, Mint, mint_cap, Retype, untyped_retype,
                delete_cap, revoke_cap, RevokeNext, Enter
  <2> QED BY <2>4, ReturnKeeps
<1> QED BY <1>1, DerivedInductive, PTL DEF ClientSpec, RevokeComplete

=============================================================================
