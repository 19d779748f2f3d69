----------------------------- MODULE MCIhandles -----------------------------
(***************************************************************************)
(* Ihandles with two blocks, one file and one disk of 12 bytes in words of *)
(* 16, sectors of 2 and guest pages of 4 bytes.                            *)
(***************************************************************************)
EXTENDS Ihandles

(* Partitions past half of the word, wrapping in the end, in the length.   *)
MCEntries ==
  {[start_sect |-> 1, nr_sects |-> 2], [start_sect |-> 3, nr_sects |-> 2],
   [start_sect |-> 3, nr_sects |-> 6], [start_sect |-> 9, nr_sects |-> 9]}

(* No partition, the whole disk, one of the table and one too many.        *)
MCIndexes == {NoIndex, 0, 1, 4}
=============================================================================
