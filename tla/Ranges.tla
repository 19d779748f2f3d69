------------------------------- MODULE Ranges -------------------------------
(***************************************************************************)
(* The address-range bookkeeping of src/lib/ranges.c.  A range is the      *)
(* record [base, limit], both ends included; a range list is the set of    *)
(* its ranges (the order the C list keeps matters only to range_dump and   *)
(* to how early range_add's scan stops).                                   *)
(*                                                                         *)
(* range_add and range_remove stop the program through BUG_ON; that        *)
(* condition is an operator of its own beside the effect.                  *)
(***************************************************************************)
EXTENDS Integers

range_alloc(base, limit) == [base |-> base, limit |-> limit]

Ranges == [base : Nat, limit : Nat]

InRange(x, r) == r.base <= x /\ x <= r.limit

Covers(R, x) == \E r \in R : InRange(x, r)

Overlap(r, q) == r.base <= q.limit /\ q.base <= r.limit

DisjointRanges(R) == \A r, q \in R : r # q => ~Overlap(r, q)

(* range_add                                                               *)
AddStops(R, base, limit) ==
  \/ base >= limit
  \/ \E r \in R : base >= r.base /\ limit <= r.limit

range_add(R, base, limit) == R \cup {range_alloc(base, limit)}

(* A variant, for the properties to tell apart: the tail of a cut range is *)
(* lost.                                                                   *)
Remains_NoTail(r, base, limit) ==
  IF r.base > limit \/ r.limit < base
    THEN {r}
    ELSE {q \in {range_alloc(r.base, base - 1)} : r.base < base}

(* range_remove: what one range of the list leaves behind.                 *)
Remains(r, base, limit) ==
  IF r.base > limit \/ r.limit < base
    THEN {r}
    ELSE {q \in {range_alloc(r.base, base - 1)} : r.base < base}
           \cup {q \in {range_alloc(limit + 1, r.limit)} : limit < r.limit}

range_remove(R, base, limit) == UNION {Remains(r, base, limit) : r \in R}

(* A range that loses its middle is split with range_add, which stops on a *)
(* one-byte left part and on a left part some other range contains.        *)
RemoveStops(R, base, limit) ==
  \/ base >= limit
  \/ \E r \in R : /\ r.base < base
                  /\ r.limit > limit
                  /\ AddStops(R \ {r}, r.base, base - 1)
=============================================================================
