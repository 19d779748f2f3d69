----------------------------- MODULE MCGuestMmu -----------------------------
(***************************************************************************)
(* GuestMmu with pages of two units, four pages of memory and eight pages  *)
(* of address space, in two segments.                                      *)
(***************************************************************************)
EXTENDS GuestMmu

(* A page of memory, and one above it, in the other segment, that two map  *)
(* calls may translate, one range inside the other.                        *)
MCTouched == {0, 12}

(* Nested, repeated, conflicting, misaligned and out-of-memory requests;   *)
(* sizes below a page, not a multiple of it, past the end of memory, and up*)
(* to the end of the address space or around it.  [8, 15] to 2 and [12, 13]*)
(* to 6 are the pair that nests and agrees, [12, 13] to 2 would not.       *)
MCVirts == {2, 8, 11, 12}
MCPhyss == {2, 4, 6, 12}
MCSizes == {1, 3, 8}
=============================================================================
