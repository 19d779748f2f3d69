---------------------------- MODULE MCMemCommands ----------------------------
(***************************************************************************)
(* MemCommands with pages of eight bytes, of which the third or the first  *)
(* is missing, that share a frame or swap them, and strings that end in the*)
(* first page, in the second, exactly at a page's end, or not at all.      *)
(***************************************************************************)
EXTENDS MemCommands

MCXlats == {[p \in 0 .. 2 |-> IF p = 0 THEN 1 ELSE IF p = 1 THEN 0 ELSE None],
            [p \in 0 .. 2 |-> IF p = 0 THEN 0 ELSE IF p = 1 THEN 0 ELSE 1],
            [p \in 0 .. 2 |-> IF p = 0 THEN None ELSE p - 1]}

(* Every byte differs from the others of its frame, but for the NULs.      *)
Filled(nuls) == [a \in 0 .. 15 |-> IF a \in nuls THEN 0 ELSE 1 + a]

MCContents == {Filled({}), Filled({5}), Filled({0, 15}), Filled({7, 8})}

MCByte == 0 .. 40

MCData == [i \in 0 .. 11 |-> 20 + i]

Transfer(o, p, f, b, s, n) ==
  [op |-> o, page |-> p, off |-> f, bytes |-> b, size |-> s, nul |-> n]

MCTransfers ==
  {Transfer("to", p, f, b, s, FALSE) : p \in 0 .. 1, f \in {4}, b \in {0, 12}, s \in AccessSizes}
  \cup {Transfer("to", p, 6, 2, 2, FALSE) : p \in 1 .. 2}
  \cup {Transfer("from", p, f, b, s, FALSE) : p \in 0 .. 3, f \in {0, 4, 6}, b \in {4, 12}, s \in AccessSizes}
  \cup {Transfer("from", p, f, b, 1, TRUE) : p \in 0 .. 2, f \in {0, 3, 7}, b \in {1, 5, 12}}

Command(n, v, p, f, s, c) ==
  [name |-> n, virt |-> v, page |-> p, off |-> f, size |-> s, count |-> c]

MCCommands ==
  {Command("dump", TRUE, p, f, s, c) : p \in 0 .. 1, f \in {4, 6}, s \in AccessSizes, c \in {0, 3}}
  \cup {Command("memread", v, p, 4, s, c) : v \in BOOLEAN, p \in 0 .. 2, s \in AccessSizes, c \in {2, 3}}
  \cup {Command("memread", FALSE, 1, 6, 4, 1)}
  \cup {Command("gra", TRUE, p, f, 1, 1) : p \in 0 .. 3, f \in {0, 3}}
  \cup {Command("memreadstring", TRUE, p, f, 1, 0) : p \in 0 .. 2, f \in {1, 6}}
=============================================================================
