------------------------------- MODULE Words -------------------------------
(***************************************************************************)
(* Alignment arithmetic of src/include/defs.h on naturals, for a power of  *)
(* two a; the modules that use it add the width of the word.               *)
(***************************************************************************)
EXTENDS Integers

IsMultiple(x, a) == \E k \in 0 .. x : x = k * a

ALIGN(x, a) == (x \div a) * a
=============================================================================
