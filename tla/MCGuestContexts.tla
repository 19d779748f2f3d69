-------------------------- MODULE MCGuestContexts ---------------------------
(***************************************************************************)
(* GuestContexts with four register values: both settings of IR/DR, one of *)
(* them also with the guest stepping itself, and one that is inconsistent. *)
(* The last two are odd; to keep the run small the registers never hold    *)
(* both of them at once.                                                   *)
(***************************************************************************)
EXTENDS GuestContexts

Stepped == {"IR", "DR", "SE"}
Half == {"IR"}

Switching == {{}, {"IR", "DR"}, Stepped, Half}

(* The instruction after each of them.                                     *)
SuccSwitching == [w \in Switching |-> IF w = {} THEN {"IR", "DR"} ELSE {}]

Held == {page[c].gpr : c \in Contexts} \cup {page[c].pc : c \in Contexts}
          \cup {msr, srr0, srr1, sprg0}

OneOdd == Stepped \notin Held \/ Half \notin Held
=============================================================================
