---------------------------- MODULE MCRomClaims ----------------------------
(***************************************************************************)
(* RangeList on eight pages of eight bytes: page 0 holds the trampoline,   *)
(* page 2 the loader, page 4 the stack, pages 5 to 7 are the arena.        *)
(***************************************************************************)
EXTENDS RangeList

(* In bounds, on and off page boundaries, across reserved pages, at the    *)
(* end of memory and just past it; with the sizes, sums that wrap around   *)
(* to 0, to the page they started from, or to low memory.                  *)
MCAddrs == {0, 9, 25, 56, 120, 124}
MCSizes == {0, 1, 8, 18, 124}
MCAligns == {1, 16, 64}
=============================================================================
