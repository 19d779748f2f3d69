----------------------------- MODULE FreeMemory -----------------------------
(***************************************************************************)
(* What the claim services of src/rom.c promise: memory is a set of bytes, *)
(* a claim takes a non-empty block of it out of the free set, and nothing  *)
(* else changes what is free.  A claim may name memory that is already     *)
(* taken (rom_claim_ex, "it doesn't fail if a range is already claimed").  *)
(* A client that makes an empty or a wrapping claim voids the promise: all *)
(* it keeps is that no byte becomes free again.                            *)
(***************************************************************************)
CONSTANT Bytes

VARIABLES free, blocks, void

Init ==
  /\ blocks \subseteq SUBSET Bytes
  /\ free = Bytes \ UNION blocks
  /\ void = FALSE

Claim(block) ==
  /\ ~void
  /\ block # {}
  /\ block \subseteq Bytes
  /\ blocks' = blocks \cup {block}
  /\ free' = free \ block
  /\ UNCHANGED void

Void ==
  /\ void' = TRUE
  /\ free' \subseteq free
  /\ blocks \subseteq blocks'

Next == Void \/ \E block \in blocks' : Claim(block)

Spec == Init /\ [][Next]_<<free, blocks, void>>
=============================================================================
