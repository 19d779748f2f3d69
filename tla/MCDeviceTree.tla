---------------------------- MODULE MCDeviceTree ----------------------------
(***************************************************************************)
(* DeviceTree over every tree of up to MaxNodes nodes, with names that     *)
(* differ only in their unit address and instance handles that are missing *)
(* (not in the largest trees, but of the root) or given twice.             *)
(***************************************************************************)
EXTENDS DeviceTree

CONSTANT MaxNodes

Name(base, at, length) == [base |-> base, at |-> at, length |-> length]

Root == Name("", "", 0)
A == Name("a", "", 1)
A1 == Name("a", "1", 3)
AliasNode == Name("aliases", "", 7)

Depths(n) ==
  {d \in [1 .. n -> 0 .. n - 1] : d[1] = 0 /\ \A i \in 2 .. n : d[i] \in 1 .. d[i - 1] + 1}

TreesOf(n) ==
  {[depth |-> d, name |-> <<Root>> \o names, ihandle |-> [i \in 1 .. n |-> ih[i]]] :
     d \in Depths(n),
     names \in [1 .. n - 1 -> {A, A1, AliasNode}],
     ih \in {[i \in 1 .. n |-> IF i = 1 THEN 0 ELSE 7 + (i % 2)]} \cup
            (IF n < MaxNodes THEN {[i \in 1 .. n |-> IF i = n THEN 7 ELSE 0]} ELSE {})}

MCTrees == UNION {TreesOf(n) : n \in 1 .. MaxNodes}

MCAliases == <<[name |-> "mem", path |-> <<A>>], [name |-> "mmu", path |-> <<A, A1>>]>>

MCLookups ==
  {[alias |-> a, comps |-> p] : a \in {"", "mem", "hd"}, p \in {<<>>, <<A>>, <<A1>>, <<A, A>>, <<A1, A>>}}
=============================================================================
