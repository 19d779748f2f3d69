----------------------------- MODULE DeviceTree -----------------------------
(***************************************************************************)
(* The device tree services of src/rom.c, over the structure block that    *)
(* src/fdt keeps the tree in.  The block is a sequence of tags, read from a*)
(* file and never written; an offset is the position of a tag, and a node  *)
(* is known by the offset of its FDT_BEGIN_NODE.  Nothing in the block says*)
(* where a node's parent, child or sibling is: every service scans.        *)
(*                                                                         *)
(* The loops of src/fdt over fdt_next_node are written with Walk, the nodes*)
(* such a loop sees and the value it ends with.                            *)
(*                                                                         *)
(* "available" of the memory node is not in the block: it is the list that *)
(* rom_claim_ex cuts up (RomClaims), of which this module knows the length.*)
(***************************************************************************)
EXTENDS Integers, Sequences, FiniteSets, FiniteSetsExt, SequencesExt

CONSTANTS
  Trees,      \* records: depth, name and ihandle (linux,phandle) of each node
  Aliases,    \* the properties of a node named "aliases": where each leads
  Lookups,    \* what clients pass to finddevice: records alias, comps
  Props,      \* properties clients ask for
  Lengths,    \* the buffer lengths clients pass
  XferSize,   \* sizeof(xfer_buf)
  MaxAvail,   \* the most ranges the available memory is left in
  Wild        \* cells a client passes as a phandle without having been given it

NOTFOUND == -1
BADOFFSET == -4
BADPATH == -5
BADPHANDLE == -6
CellSize == 4

Names == [base : STRING, at : STRING, length : Nat]

(* Only the root has no name.  An ihandle is not -1, which libfdt refuses; *)
(* 0 stands for none.                                                      *)
IsTree(t) ==
  /\ t.depth \in Seq(Nat) /\ Len(t.depth) > 0
  /\ t.name \in [DOMAIN t.depth -> Names] /\ t.ihandle \in [DOMAIN t.depth -> Nat]
  /\ t.depth[1] = 0 /\ t.name[1].length = 0
  /\ \A i \in 2 .. Len(t.depth) : t.depth[i] \in 1 .. t.depth[i - 1] + 1 /\ t.name[i].base # ""

ASSUME TreesAssumption == \A t \in Trees : IsTree(t)

ASSUME PathsAssumption ==
  /\ Aliases \in Seq([name : STRING \ {"linux,phandle"}, path : Seq(Names)])
  /\ Lookups \subseteq [alias : STRING \ {"linux,phandle"}, comps : Seq(Names)]

ASSUME BuffersAssumption ==
  XferSize \in Nat /\ Lengths \subseteq Nat /\ MaxAvail \in Nat \ {0}

VARIABLES
  tree,         \* what the file was made from; the program does not see it
  fdt,          \* the structure block
  memory_node,
  mmu_ihandle,
  avail,        \* range_count(&guest_mem_avail_ranges)
  told,         \* the length of "available" of the memory node the client was
                \* told since its last claim, or -1
  have,         \* the phandles the client was given, but 0
  call,         \* the last call: service, argument, result, bytes written
  pc            \* "boot", "ready", "answered", or "stopped" by a BUG_ON

vars == <<tree, fdt, memory_node, mmu_ihandle, avail, told, have, call, pc>>

-----------------------------------------------------------------------------
(* The block of a tree.  A node without linux,phandle has a NOP instead, as*)
(* libfdt leaves it when a property is taken out.                          *)
Prop(name, val) == [tag |-> "PROP", name |-> name, val |-> val]

PropsOf(t, i) ==
  (IF t.ihandle[i] = 0 THEN <<[tag |-> "NOP"]>> ELSE <<Prop("linux,phandle", t.ihandle[i])>>)
  \o (IF t.name[i].base = "aliases"
        THEN [a \in DOMAIN Aliases |-> Prop(Aliases[a].name, Aliases[a].path)]
        ELSE <<>>)

Ends(n) == [k \in 1 .. n |-> [tag |-> "END_NODE"]]

Block(t) ==
  LET n == Len(t.depth)
      up(i) == IF i = n THEN t.depth[i] + 1 ELSE t.depth[i] - t.depth[i + 1] + 1
      node(i) == <<[tag |-> "BEGIN_NODE", name |-> t.name[i]]>> \o PropsOf(t, i) \o Ends(up(i))
  IN  FlattenSeq([i \in 1 .. n |-> node(i)]) \o <<[tag |-> "END"]>>

Least(a, b) == IF a < b THEN a ELSE b

At(o) == fdt[o + 1]

Tag(o) == IF o \in 0 .. Len(fdt) - 1 THEN At(o).tag ELSE "END"

IsNode(o) == Tag(o) = "BEGIN_NODE"

_fdt_check_node_offset(o) == IF IsNode(o) THEN o + 1 ELSE BADOFFSET

(* The first BEGIN_NODE, the END of the block, or before them the END_NODE *)
(* that closes more than the scan has entered.                             *)
fdt_next_node(o, depth) ==
  LET start == IF o >= 0 THEN _fdt_check_node_offset(o) ELSE 0
      stop == Min({i \in start .. Len(fdt) - 1 : Tag(i) \in {"BEGIN_NODE", "END"}})
      closed == {i \in start .. stop : Tag(i) = "END_NODE"}
      left(i) == depth - Cardinality(closed \cap (start .. i))
  IN  IF start < 0 THEN [offset |-> start, depth |-> depth]
      ELSE IF left(stop) < 0 THEN [offset |-> 1 + Min({i \in closed : left(i) < 0}), depth |-> -1]
      ELSE IF Tag(stop) = "END" THEN [offset |-> NOTFOUND, depth |-> left(stop)]
      ELSE [offset |-> stop, depth |-> left(stop) + 1]

(* The nodes of a loop over fdt_next_node that starts at one, and last the *)
(* values it ends with: an error, or a depth below 0.                      *)
Walk(o, depth) ==
  LET from[s \in [offset : Int, depth : Int]] ==
        IF s.offset < 0 \/ s.depth < 0 THEN <<s>>
        ELSE <<s>> \o from[fdt_next_node(s.offset, s.depth)]
  IN  from[[offset |-> o, depth |-> depth]]

(* Such a loop returns the first node that is a hit.                       *)
Scan(walk, Hit(_)) ==
  LET hits == {i \in 1 .. Len(walk) - 1 : Hit(walk[i])}
  IN  IF hits # {} THEN walk[Min(hits)].offset
      ELSE IF Last(walk).depth < 0 THEN NOTFOUND ELSE Last(walk).offset

(* Variants, for the properties to tell apart: a child that is not checked *)
(* to be one, a scan for a sibling that takes a nephew for one, a path that *)
(* is not cut back, a length cut to a cell, a root not told apart.         *)
fdt_subnode_Unchecked(o) ==
  LET next == fdt_next_node(o, 0) IN next.offset

fdt_sibling_Nephew(o) == Scan(Tail(Walk(o, 1)), LAMBDA s : s.depth \in 1 .. 2)

fdt_subnode(o) == Scan(Walk(o, 0), LAMBDA s : s.depth = 1)

fdt_sibling(o) == Scan(Tail(Walk(o, 1)), LAMBDA s : s.depth = 1)

-----------------------------------------------------------------------------
(* The name of a property is an offset into the block of strings.          *)
_fdt_string_eq(i, s) == At(i).name = s

(* Properties stand before the nodes inside.                               *)
PropertyAt(o, name) ==
  {i \in o + 1 .. Len(fdt) - 1 :
     /\ Tag(i) = "PROP" /\ _fdt_string_eq(i, name)
     /\ \A j \in o + 1 .. i : Tag(j) \notin {"BEGIN_NODE", "END_NODE"}}

HasProp(o, name) == IsNode(o) /\ PropertyAt(o, name) # {}

fdt_getprop(o, name) == At(Min(PropertyAt(o, name))).val

fdt_get_phandle(o) == IF HasProp(o, "linux,phandle") THEN fdt_getprop(o, "linux,phandle") ELSE 0

(* An address after the '@' is only compared when it is asked for.         *)
_fdt_nodename_eq(o, s) ==
  \/ At(o).name = s
  \/ s.at = "" /\ At(o).name.base = s.base

fdt_subnode_offset(o, name) ==
  Scan(Walk(o, 0), LAMBDA s : s.depth = 1 /\ _fdt_nodename_eq(s.offset, name))

Descend(o, comps) ==
  FoldLeft(LAMBDA at, name : IF at < 0 THEN at ELSE fdt_subnode_offset(at, name), o, comps)

AliasesNode == Descend(0, <<[base |-> "aliases", at |-> "", length |-> 7]>>)

(* Where a path without a leading '/' begins.                              *)
fdt_get_alias(alias) ==
  IF AliasesNode >= 0 /\ HasProp(AliasesNode, alias)
    THEN Descend(0, fdt_getprop(AliasesNode, alias))
    ELSE BADPATH

fdt_path_offset(path) ==
  Descend(IF path.alias = "" THEN 0 ELSE fdt_get_alias(path.alias), path.comps)

fdt_node_offset_by_phandle(ih) ==
  LET first == fdt_next_node(-1, Len(fdt))
  IN  IF ih \in {0, -1} THEN BADPHANDLE
      ELSE Scan(Walk(first.offset, first.depth), LAMBDA s : fdt_get_phandle(s.offset) = ih)

-----------------------------------------------------------------------------
(* The nodes of the block up to o, with their depths: offsets only grow.   *)
UpTo(o) ==
  LET walk == Walk(0, 0)
  IN  SubSeq(walk, 1, Cardinality({i \in DOMAIN walk : walk[i].offset \in 0 .. o}))

(* Those that are o itself: one if it is a node, else none.                *)
Seen(walk, o) == {s \in ToSet(walk) : s.offset = o}

fdt_node_depth(o) ==
  LET seen == Seen(UpTo(o), o)
  IN  IF seen = {} THEN BADOFFSET ELSE (CHOOSE s \in seen : TRUE).depth

(* The last node up to o at the depth asked for.                           *)
fdt_supernode_atdepth_offset(o, depth) ==
  LET walk == UpTo(o)
  IN  IF depth < 0 THEN NOTFOUND
      ELSE IF Seen(walk, o) = {} THEN BADOFFSET
      ELSE Max({s.offset : s \in {t \in ToSet(walk) : t.depth = depth}})

fdt_parent_offset(o) ==
  LET depth == fdt_node_depth(o)
  IN  IF depth < 0 THEN depth ELSE fdt_supernode_atdepth_offset(o, depth - 1)

(* Names, each with the '/' after it: what fdt_get_path has put in buf.    *)
Bytes(names) == FoldLeft(LAMBDA n, name : n + name.length + 1, 0, names)

NoPath == [found |-> FALSE, names |-> <<>>]

fdt_get_path_NoPop(o, buflen) ==
  LET walk == UpTo(o)
      names == [i \in DOMAIN walk |-> At(walk[i].offset).name]
  IN  IF Bytes(names) <= buflen THEN [found |-> TRUE, names |-> Tail(names)] ELSE NoPath

(* Names of nodes that are left again are taken off; a name that does not  *)
(* fit is left out, and so are those below it.                             *)
fdt_get_path(o, buflen) ==
  LET push(names, s) ==
        LET kept == SubSeq(names, 1, Least(Len(names), s.depth))
            name == At(s.offset).name
        IN  IF Len(kept) >= s.depth /\ Bytes(kept) + name.length + 1 <= buflen
              THEN Append(kept, name) ELSE kept
      walk == UpTo(o)
      names == FoldLeft(push, <<>>, walk)
  IN  IF buflen < 2 \/ \A s \in Seen(walk, o) : Len(names) < s.depth + 1
        THEN NoPath ELSE [found |-> TRUE, names |-> Tail(names)]

Strlen(names) == IF names = <<>> THEN 1 ELSE Bytes(names)

-----------------------------------------------------------------------------
(* A phandle is an offset with a bit set, so that the root's is not 0; the *)
(* bit is above every offset.  The cell -1 is a negative offset.           *)
PHANDLE_MUNGE == 1000

rom_get_phandle(o) == o + PHANDLE_MUNGE

rom_node_offset_by_phandle(ph) == IF ph >= PHANDLE_MUNGE THEN ph - PHANDLE_MUNGE ELSE ph

ROOT_PHANDLE == rom_get_phandle(0)

(* An ihandle is the linux,phandle of a node.                              *)
rom_get_ihandle(o) == fdt_get_phandle(o)

rom_node_offset_by_ihandle(ih) == fdt_node_offset_by_phandle(ih)

rom_path_to_ihandle(path) ==
  IF fdt_path_offset(path) = NOTFOUND THEN -1 ELSE rom_get_ihandle(fdt_path_offset(path))

Alias(name) == [alias |-> name, comps |-> <<>>]

NoCall == [service |-> "none", argument |-> 0, result |-> 0, wrote |-> 0, room |-> 0, path |-> NoPath]

Init ==
  /\ tree \in Trees
  /\ fdt = Block(tree)
  /\ memory_node = 0 /\ mmu_ihandle = 0
  /\ avail = 1 /\ told = -1
  /\ have = {}
  /\ call = NoCall
  /\ pc = "boot"

(* The part of rom_init that looks at the tree, and what its own claims,   *)
(* for the loader and the stack, leave.                                    *)
rom_init ==
  /\ pc = "boot"
  /\ memory_node' = fdt_path_offset(Alias("mem"))
  /\ mmu_ihandle' = rom_path_to_ihandle(Alias("mmu"))
  /\ pc' = IF memory_node' = -1 \/ mmu_ihandle' = -1 \/ rom_path_to_ihandle(Alias("con")) = -1
             THEN "stopped" ELSE "ready"
  /\ avail' \in 0 .. MaxAvail
  /\ UNCHANGED <<tree, fdt, told, have, call>>

OfMemory(argument, name) ==
  argument[2] = name /\ rom_node_offset_by_phandle(argument[1]) = memory_node

Returns(service, argument, result, wrote, room, path) ==
  /\ pc = "ready"
  /\ call' = [service |-> service, argument |-> argument, result |-> result,
              wrote |-> wrote, room |-> room, path |-> path]
  /\ pc' = "answered"
  /\ told' = IF service = "getproplen" /\ OfMemory(argument, "available") THEN result ELSE told
  /\ UNCHANGED <<tree, fdt, memory_node, mmu_ihandle, avail>>

(* The client goes on.                                                     *)
Resume ==
  /\ pc = "answered" /\ pc' = "ready"
  /\ call' = NoCall
  /\ UNCHANGED <<tree, fdt, memory_node, mmu_ihandle, avail, told, have>>

(* What is claimed goes from the list, which splits one range of it at     *)
(* most; a claim that a BUG_ON of range_remove stops is in RomClaims.      *)
rom_claim_ex ==
  /\ pc = "ready"
  /\ avail' \in 0 .. Least(avail + 1, MaxAvail)
  /\ told' = -1
  /\ UNCHANGED <<tree, fdt, memory_node, mmu_ihandle, have, call, pc>>

(* The BUG_ON of rom_parent.                                               *)
Stops(ph) ==
  /\ pc = "ready" /\ pc' = "stopped"
  /\ call' = [NoCall EXCEPT !.service = "BUG_ON", !.argument = ph]
  /\ UNCHANGED <<tree, fdt, memory_node, mmu_ihandle, avail, told, have>>

(* The client remembers a phandle.                                         *)
Gives(service, argument, ph) ==
  /\ Returns(service, argument, ph, 0, 0, NoPath)
  /\ have' = IF ph = 0 THEN have ELSE have \cup {ph}

OrZero(o) == IF o < 0 THEN 0 ELSE rom_get_phandle(o)

OrUnknown(o) == IF o < 0 THEN -1 ELSE rom_get_phandle(o)

rom_child(ph) ==
  LET o == rom_node_offset_by_phandle(ph)
  IN  Gives("child", ph, IF o < 0 THEN 0 ELSE OrZero(fdt_subnode(o)))

rom_peer(ph) ==
  LET o == rom_node_offset_by_phandle(ph)
  IN  Gives("peer", ph, IF ph = 0 THEN ROOT_PHANDLE
                        ELSE IF o < 0 THEN 0 ELSE OrZero(fdt_sibling(o)))

rom_parent_NoRoot(ph) ==
  LET o == rom_node_offset_by_phandle(ph)
  IN  IF o < 0 THEN Gives("parent", ph, -1)
      ELSE IF fdt_parent_offset(o) >= 0
             THEN Gives("parent", ph, rom_get_phandle(fdt_parent_offset(o)))
             ELSE Stops(ph)

rom_parent(ph) ==
  LET o == rom_node_offset_by_phandle(ph)
  IN  IF ph = ROOT_PHANDLE THEN Gives("parent", ph, 0)
      ELSE IF o < 0 THEN Gives("parent", ph, -1)
      ELSE IF fdt_parent_offset(o) >= 0
             THEN Gives("parent", ph, rom_get_phandle(fdt_parent_offset(o)))
             ELSE Stops(ph)

rom_finddevice(path) == Gives("finddevice", path, OrUnknown(fdt_path_offset(path)))

rom_itopackage(ih) == Gives("instance-to-package", ih, OrUnknown(rom_node_offset_by_ihandle(ih)))

PathOut(service, argument, o, buf_len) ==
  LET path == IF o < 0 THEN NoPath ELSE fdt_get_path(o, XferSize)
      n == IF path.found THEN Strlen(path.names) ELSE -1
  IN  /\ Returns(service, argument, n, Least(buf_len, n + 1), buf_len, path)
      /\ UNCHANGED have

rom_ptopath(ph, buf_len) ==
  PathOut("package-to-path", ph, rom_node_offset_by_phandle(ph), buf_len)

rom_itopath(ih, buf_len) ==
  PathOut("instance-to-path", ih, rom_node_offset_by_ihandle(ih), buf_len)

(* A node's name, as its length; -1 for none.                              *)
fdt_get_name(o) == IF IsNode(o) THEN At(o).name.length ELSE -1

(* How long a property is, or -1; "reg" and "available" of the memory node *)
(* are lists of ranges, "reg" of one.                                      *)
PropLength(o, name) ==
  CASE name = "name" -> IF o = 0 THEN 1 ELSE fdt_get_name(o)
    [] name = "reg" /\ o = memory_node -> 2 * CellSize
    [] name = "available" /\ o = memory_node -> avail * 2 * CellSize
    [] OTHER -> IF HasProp(o, name) THEN CellSize ELSE -1

(* The ranges of the memory node are written to the last, whatever len_in  *)
(* is; that those of "available" are whole pages (two BUG_ONs) is seen to  *)
(* in RomClaims.                                                           *)
rom_getprop_ex(o, name, len_in) ==
  LET len == IF o < 0 THEN -1 ELSE PropLength(o, name)
  IN  IF len = -1 THEN [len |-> -1, wrote |-> 0]
      ELSE IF name \in {"reg", "available"} /\ o = memory_node
        THEN [len |-> IF len_in = 0 THEN len ELSE Least(len, len_in), wrote |-> len]
        ELSE [len |-> len, wrote |-> Least(len, len_in)]

rom_getprop(ph, name, len_in) ==
  LET out == rom_getprop_ex(rom_node_offset_by_phandle(ph), name, len_in)
  IN  /\ Returns("getprop", <<ph, name>>, out.len, out.wrote, len_in, NoPath)
      /\ UNCHANGED have

rom_getproplen_Clipped(ph, name) ==
  LET out == rom_getprop_ex(rom_node_offset_by_phandle(ph), name, CellSize)
  IN  /\ Returns("getproplen", <<ph, name>>, out.len, 0, 0, NoPath)
      /\ UNCHANGED have

rom_getproplen(ph, name) ==
  LET out == rom_getprop_ex(rom_node_offset_by_phandle(ph), name, 0)
  IN  /\ Returns("getproplen", <<ph, name>>, out.len, 0, 0, NoPath)
      /\ UNCHANGED have

Ihandles == {tree.ihandle[i] : i \in DOMAIN tree.ihandle} \ {0}

Next ==
  \/ rom_init \/ Resume \/ rom_claim_ex
  \/ \E ph \in have \cup {0} \cup Wild :
       \/ rom_child(ph) \/ rom_peer(ph) \/ rom_parent(ph)
       \/ \E n \in Lengths : rom_ptopath(ph, n)
       \/ \E name \in Props : rom_getproplen(ph, name) \/ \E n \in Lengths : rom_getprop(ph, name, n)
  \/ \E path \in Lookups : rom_finddevice(path)
  \/ \E ih \in Ihandles : rom_itopackage(ih) \/ \E n \in Lengths : rom_itopath(ih, n)

Spec == Init /\ [][Next]_vars
-----------------------------------------------------------------------------
Nodes == {o \in 0 .. Len(fdt) - 1 : IsNode(o)}

TypeOK ==
  /\ IsTree(tree)
  /\ memory_node \in Nodes \cup {NOTFOUND, BADPATH}
  /\ mmu_ihandle \in {tree.ihandle[i] : i \in DOMAIN tree.ihandle} \cup {0, -1}
  /\ avail \in 0 .. MaxAvail /\ told \in {-1, avail * 2 * CellSize}
  /\ have \subseteq {rom_get_phandle(o) : o \in Nodes} \cup {-1}
  /\ call.result \in Int /\ call.wrote \in Nat
  /\ pc \in {"boot", "ready", "answered", "stopped"}

(* Of the phandles a client is given, only 0, the answer for none, runs    *)
(* into the BUG_ON of rom_parent.                                          *)
StopsOnlyOverNone == [][pc = "ready" /\ pc' = "stopped" => call'.argument = 0]_vars

(* A sibling before it that a name on the path also stands for.            *)
Shadowed(o) ==
  \E a, s \in Nodes :
    /\ s < a /\ a # 0 /\ s # 0
    /\ fdt_parent_offset(s) = fdt_parent_offset(a)
    /\ a = o \/ \E d \in 1 .. fdt_node_depth(o) : fdt_supernode_atdepth_offset(o, d) = a
    /\ _fdt_nodename_eq(s, At(a).name)

(* The path a client is given for a package leads finddevice back to it,   *)
(* unless an earlier sibling answers to the same name.                     *)
PathLeadsBack ==
  (call.service = "package-to-path" /\ call.path.found)
  => LET o == rom_node_offset_by_phandle(call.argument)
     IN  fdt_path_offset([alias |-> "", comps |-> call.path.names]) = o \/ Shadowed(o)

(* What is written to a client's buffer stays inside it; the lists of the  *)
(* memory node do when the room is what getproplen said, if that is said of*)
(* "available" after the last claim.                                       *)
WithinBuffer ==
  \/ call.wrote <= call.room
  \/ /\ call.service = "getprop"
     /\ \/ OfMemory(call.argument, "reg") /\ call.room < 2 * CellSize
        \/ OfMemory(call.argument, "available") /\ (told = -1 \/ call.room < told)

(* The number of the node a phandle stands for, in the order of the tree.  *)
Number(ph) ==
  IF ph <= 0 THEN ph ELSE Cardinality({o \in Nodes : o <= ph - PHANDLE_MUNGE})

(* The path an alias stands for; one that leads nowhere when there is none.*)
Meant(path) ==
  LET lead == {a \in DOMAIN Aliases : Aliases[a].name = path.alias}
      top == {i \in DOMAIN tree.depth : tree.depth[i] = 1 /\ tree.name[i].base = "aliases"}
  IN  IF path.alias = "" THEN path.comps
      ELSE IF lead # {} /\ top # {} THEN Aliases[Min(lead)].path \o path.comps
      ELSE <<[base |-> "", at |-> "", length |-> 0]>>

Packages == INSTANCE PackageTree WITH
  PathMax <- XferSize,
  call <- [service  |-> IF call.service \in {"getprop", "getproplen", "BUG_ON"} THEN "none" ELSE call.service,
           argument |-> CASE call.service \in {"child", "peer", "parent", "package-to-path"} -> Number(call.argument)
                          [] call.service = "finddevice" -> Meant(call.argument)
                          [] call.service \in {"instance-to-package", "instance-to-path"} -> call.argument
                          [] OTHER -> 0,
           answer   |-> CASE call.service \in {"package-to-path", "instance-to-path"} -> call.path
                          [] call.service \in {"getprop", "getproplen", "BUG_ON"} -> 0
                          [] OTHER -> Number(call.result)]

(* Every answer is the one the tree the file was made from gives.          *)
ImplementsPackageTree == Packages!Spec
=============================================================================
