------------------------- MODULE DeviceTree_proofs -------------------------
(***************************************************************************)
(* Proofs about DeviceTree, for every set of trees, of any size and depth, *)
(* and every client that only passes phandles it was given.                *)
(*                                                                         *)
(* The argument: P places the nodes in the block (Layout), so that a step  *)
(* of fdt_next_node is a step from one node of the tree to the next        *)
(* (NextState) and a loop over it is a Trail (WalkFact); each function of  *)
(* src/fdt is then a set of nodes of the tree and the least of it          *)
(* (SubnodeFact to GetPathFact).  With that, TreeInv is inductive, and each*)
(* service answers as the packages do.                                     *)
(***************************************************************************)
EXTENDS DeviceTree, FiniteSetTheorems, WellFoundedInduction, TLAPS

-----------------------------------------------------------------------------
(* The least number principle, and with it induction, about sets.          *)
LEMMA LeastNatural ==
  ASSUME NEW S, S \subseteq Nat, S # {}
  PROVE  \E m \in S : \A n \in S : m <= n
<1> DEFINE R == OpToRel(<, Nat)
<1>1. IsWellFoundedOn(R, Nat)
  BY NatLessThanWellFounded
<1>2. \A x, y \in Nat : x < y => <<x, y>> \in R
  BY DEF OpToRel
<1> HIDE DEF R
<1>3. PICK m \in S : \A n \in S : ~ (<<n, m>> \in R)
  BY <1>1, WFMin
<1>4. ASSUME NEW n \in S PROVE m <= n
  <2>1. ~(n < m) /\ n \in Nat /\ m \in Nat
    BY <1>2, <1>3
  <2> QED BY <2>1
<1> QED BY <1>4

LEMMA SetInduction ==
  ASSUME NEW S, 0 \in S, \A n \in Nat : n \in S => n + 1 \in S
  PROVE  Nat \subseteq S
<1> SUFFICES ASSUME Nat \ S # {} PROVE FALSE
  OBVIOUS
<1>1. PICK m \in Nat \ S : \A n \in Nat \ S : m <= n
  BY LeastNatural
<1>2. m - 1 \in Nat /\ m - 1 \notin Nat \ S
  BY <1>1
<1>3. (m - 1) + 1 \in S
  BY <1>2
<1> QED BY <1>1, <1>3

LEMMA GreatestNatural ==
  ASSUME NEW S, NEW n \in Nat, S \subseteq 0 .. n, S # {}
  PROVE  \E m \in S : \A k \in S : k <= m
<1> DEFINE T == {b \in Nat : \A k \in S : k <= b}
<1>1. n \in T
  OBVIOUS
<1>2. PICK b \in T : \A c \in T : b <= c
  BY <1>1, LeastNatural
<1>3. b \in S
  <2>1. SUFFICES ASSUME b \notin S PROVE FALSE
    OBVIOUS
  <2>2. \A k \in S : k <= b - 1 /\ k \in Nat
    BY <1>2, <2>1
  <2>3. b - 1 \in Nat
    <3>1. PICK k \in S : TRUE
      OBVIOUS
    <3> QED BY <2>2, <3>1
  <2>4. b - 1 \in T
    BY <2>2, <2>3
  <2> QED BY <1>2, <2>4
<1> QED BY <1>2, <1>3

-----------------------------------------------------------------------------
(* What FlattenSeq makes: the sequences one after the other, the i-th one  *)
(* after its first P[i] elements.                                          *)
IsFlat(f, seqs, n) ==
  f = [i \in 1 .. n |-> IF i = 1 THEN seqs[i] ELSE f[i - 1] \o seqs[i]]

LEMMA FlatExists ==
  ASSUME NEW seqs, NEW n \in Nat
  PROVE  \E f : IsFlat(f, seqs, n)
<1> DEFINE S == {x \in Nat : \E f : IsFlat(f, seqs, x)}
<1>1. 0 \in S
  <2> DEFINE f == [i \in 1 .. 0 |-> seqs]
  <2>1. IsFlat(f, seqs, 0)
    BY DEF IsFlat
  <2> QED BY <2>1
<1>2. ASSUME NEW x \in Nat, x \in S PROVE x + 1 \in S
  <2>1. PICK f : IsFlat(f, seqs, x)
    BY <1>2
  <2> DEFINE g == [i \in 1 .. x + 1 |-> IF i = 1 THEN seqs[i] ELSE f[i - 1] \o seqs[i]]
  <2>2. ASSUME NEW i \in 1 .. x PROVE f[i] = g[i]
    <3>1. i \in 1 .. x + 1
      OBVIOUS
    <3>2. f[i] = IF i = 1 THEN seqs[i] ELSE f[i - 1] \o seqs[i]
      BY <2>1, Zenon DEF IsFlat
    <3> QED BY <3>1, <3>2, Zenon
  <2>3. \A i \in 1 .. x + 1 : i # 1 => i - 1 \in 1 .. x
    OBVIOUS
  <2>4. IsFlat(g, seqs, x + 1)
    BY <2>2, <2>3, Zenon DEF IsFlat
  <2> QED BY <2>4
<1> HIDE DEF S
<1>3. Nat \subseteq S
  BY <1>1, <1>2, SetInduction
<1> QED BY <1>3 DEF S

LEMMA ElementOfSeq ==
  ASSUME NEW S, NEW s \in Seq(S), NEW i \in 1 .. Len(s)
  PROVE  s[i] \in S
  OBVIOUS

LEMMA SeqDomain ==
  ASSUME NEW S, NEW s \in Seq(S)
  PROVE  DOMAIN s = 1 .. Len(s) /\ Len(s) \in Nat
  OBVIOUS

LEMMA Joined ==
  ASSUME NEW S, NEW s \in Seq(S), NEW t \in Seq(S)
  PROVE  /\ s \o t \in Seq(S)
         /\ Len(s \o t) = Len(s) + Len(t) /\ Len(s) \in Nat /\ Len(t) \in Nat
         /\ \A j \in 1 .. Len(s) : (s \o t)[j] = s[j]
         /\ \A j \in 1 .. Len(t) : (s \o t)[Len(s) + j] = t[j]
  OBVIOUS

IsJoin(f, s, t) == f = s \o t

LEMMA Spliced ==
  ASSUME NEW S, NEW s \in Seq(S), NEW t \in Seq(S), NEW f, IsJoin(f, s, t)
  PROVE  /\ f \in Seq(S) /\ Len(f) = Len(s) + Len(t) /\ Len(s) \in Nat /\ Len(t) \in Nat
         /\ \A j \in 1 .. Len(s) : f[j] = s[j]
         /\ \A j \in 1 .. Len(t) : f[Len(s) + j] = t[j]
<1>1. f \in Seq(S) /\ Len(f) = Len(s) + Len(t) /\ Len(s) \in Nat /\ Len(t) \in Nat
  BY DEF IsJoin
<1>2. \A j \in 1 .. Len(s) : f[j] = s[j]
  BY DEF IsJoin
<1>3. \A j \in 1 .. Len(t) : f[Len(s) + j] = t[j]
  BY DEF IsJoin
<1> QED BY <1>1, <1>2, <1>3

(* The places at which they lie in flat.                                   *)
Laid(flat, seqs, n, P) ==
  /\ P \in [1 .. n + 1 -> Nat] /\ P[1] = 0 /\ P[n + 1] = Len(flat)
  /\ \A i \in 1 .. n : P[i + 1] = P[i] + Len(seqs[i])
  /\ \A i \in 1 .. n : \A j \in 1 .. Len(seqs[i]) : flat[P[i] + j] = seqs[i][j]

LEMMA LaidNext ==
  ASSUME NEW S, NEW seqs, NEW n \in Nat, n > 0, \A i \in 1 .. n + 1 : seqs[i] \in Seq(S),
         NEW flat \in Seq(S), NEW P, Laid(flat, seqs, n, P)
  PROVE  \E Q : Laid(flat \o seqs[n + 1], seqs, n + 1, Q)
<1> DEFINE m == n + 1
           s == seqs[m]
           l == Len(flat)
           Q == [i \in 1 .. m + 1 |-> IF i = m + 1 THEN l + Len(s) ELSE P[i]]
<1>1. s \in Seq(S) /\ l \in Nat /\ Len(s) \in Nat /\ m \in Nat /\ m \in 1 .. m
  OBVIOUS
<1>2. /\ flat \o s \in Seq(S) /\ Len(flat \o s) = l + Len(s)
      /\ \A j \in 1 .. l : (flat \o s)[j] = flat[j]
      /\ \A j \in 1 .. Len(s) : (flat \o s)[l + j] = s[j]
  BY <1>1, Joined
<1>3. /\ P \in [1 .. m -> Nat] /\ P[1] = 0 /\ P[m] = l
      /\ \A i \in 1 .. n : P[i + 1] = P[i] + Len(seqs[i])
      /\ \A i \in 1 .. n : \A j \in 1 .. Len(seqs[i]) : flat[P[i] + j] = seqs[i][j]
  BY DEF Laid
<1> HIDE DEF m, s, l
<1>4. Q \in [1 .. m + 1 -> Nat] /\ Q[1] = 0 /\ Q[m + 1] = l + Len(s)
  BY <1>1, <1>3 DEF m
<1>5. \A i \in 1 .. m : Q[i] = P[i]
  BY <1>1
<1>6. \A i \in 1 .. m : Q[i + 1] = Q[i] + Len(seqs[i])
  <2>1. ASSUME NEW i \in 1 .. m PROVE Q[i + 1] = Q[i] + Len(seqs[i])
    <3>1. CASE i = m
      BY <3>1, <1>1, <1>3, <1>4, <1>5 DEF s
    <3>2. CASE i # m
      <4>1. i \in 1 .. n /\ i + 1 \in 1 .. m
        BY <3>2 DEF m
      <4> QED BY <4>1, <1>3, <1>5
    <3> QED BY <3>1, <3>2
  <2> QED BY <2>1
<1>7. ASSUME NEW i \in 1 .. m, NEW j \in 1 .. Len(seqs[i])
      PROVE  (flat \o s)[Q[i] + j] = seqs[i][j]
  <2>1. CASE i = m
    BY <2>1, <1>1, <1>2, <1>3, <1>5, <1>7, SMTT(60) DEF s
  <2>2. CASE i # m
    <3>1. i \in 1 .. n /\ i + 1 \in 1 .. m
      BY <2>2 DEF m
    <3>2. \A k \in 1 .. m : P[k] <= l
      <4> DEFINE T == {k \in Nat : k < m => P[m - k] <= l}
      <4>1. 0 \in T
        BY <1>1, <1>3
      <4>2. ASSUME NEW k \in Nat, k \in T PROVE k + 1 \in T
        <5>1. CASE k + 1 < m
          <6>1. m - (k + 1) \in 1 .. n /\ (m - (k + 1)) + 1 = m - k /\ m - (k + 1) \in 1 .. m
            BY <1>1, <5>1 DEF m
          <6>2. P[m - k] = P[m - (k + 1)] + Len(seqs[m - (k + 1)]) /\ P[m - k] <= l
            BY <6>1, <1>1, <1>3, <4>2, <5>1
          <6>3. Len(seqs[m - (k + 1)]) \in Nat /\ P[m - (k + 1)] \in Nat
            <7>1. seqs[m - (k + 1)] \in Seq(S)
              BY <6>1 DEF m
            <7> QED BY <7>1, <6>1, <1>3
          <6> QED BY <6>2, <6>3, <1>1
        <5>2. CASE ~(k + 1 < m)
          BY <5>2
        <5> QED BY <5>1, <5>2
      <4> HIDE DEF T
      <4>3. Nat \subseteq T
        BY <4>1, <4>2, SetInduction
      <4>4. ASSUME NEW k \in 1 .. m PROVE P[k] <= l
        <5>1. m - k \in T /\ m - (m - k) = k /\ m - k < m
          BY <1>1, <4>3
        <5> QED BY <5>1 DEF T
      <4> QED BY <4>4
    <3>3. P[i] + Len(seqs[i]) <= l /\ P[i] \in Nat
      BY <3>1, <3>2, <1>3
    <3>4. P[i] + j \in 1 .. l
      <4>1. Len(seqs[i]) \in Nat /\ j \in Nat /\ j >= 1 /\ j <= Len(seqs[i])
        <5>1. seqs[i] \in Seq(S)
          BY DEF m
        <5> QED BY <5>1
      <4> QED BY <4>1, <3>3, <1>1, SMTT(60)
    <3>5. flat[P[i] + j] = seqs[i][j]
      BY <3>1, <1>3
    <3> QED BY <3>4, <3>5, <1>2, <1>5
  <2> QED BY <2>1, <2>2
<1> HIDE DEF Q
<1>8. Laid(flat \o s, seqs, m, Q)
  BY <1>2, <1>4, <1>6, <1>7 DEF Laid
<1> QED BY <1>8 DEF m, s

LEMMA Flattened ==
  ASSUME NEW S, NEW n \in Nat, n > 0, NEW seqs \in [1 .. n -> Seq(S)]
  PROVE  /\ FlattenSeq(seqs) \in Seq(S)
         /\ \E P : Laid(FlattenSeq(seqs), seqs, n, P)
<1>0. Len(seqs) = n
  OBVIOUS
<1> DEFINE f == CHOOSE f : IsFlat(f, seqs, n)
<1>1. IsFlat(f, seqs, n)
  BY FlatExists
<1>2. FlattenSeq(seqs) = f[n]
  BY <1>0 DEF FlattenSeq, IsFlat
<1> HIDE DEF f
<1>3. f[1] = seqs[1] /\ \A i \in 1 .. n : i # 1 => f[i] = f[i - 1] \o seqs[i]
  <2>1. 1 \in 1 .. n
    OBVIOUS
  <2> QED BY <1>1, <2>1, Zenon DEF IsFlat
<1> DEFINE T == {k \in Nat : k < n => f[k + 1] \in Seq(S) /\ \E P : Laid(f[k + 1], seqs, k + 1, P)}
<1>4. 0 \in T
  <2> DEFINE P == [i \in 1 .. 2 |-> IF i = 1 THEN 0 ELSE Len(seqs[1])]
  <2>1. seqs[1] \in Seq(S) /\ Len(seqs[1]) \in Nat
    OBVIOUS
  <2>2. P \in [1 .. 1 + 1 -> Nat] /\ P[1] = 0 /\ P[1 + 1] = Len(seqs[1])
    BY <2>1
  <2>3. Laid(seqs[1], seqs, 1, P)
    BY <2>1, <2>2 DEF Laid
  <2> QED BY <2>1, <2>3, <1>3
<1>5. ASSUME NEW k \in Nat, k \in T PROVE k + 1 \in T
  <2>1. SUFFICES ASSUME k + 1 < n
                 PROVE  f[(k + 1) + 1] \in Seq(S) /\ \E P : Laid(f[(k + 1) + 1], seqs, (k + 1) + 1, P)
    OBVIOUS
  <2>2. f[k + 1] \in Seq(S) /\ \E P : Laid(f[k + 1], seqs, k + 1, P)
    BY <1>5, <2>1
  <2>3. f[(k + 1) + 1] = f[k + 1] \o seqs[(k + 1) + 1] /\ seqs[(k + 1) + 1] \in Seq(S)
    <3>1. (k + 1) + 1 \in 1 .. n /\ (k + 1) + 1 # 1 /\ ((k + 1) + 1) - 1 = k + 1
      BY <2>1
    <3>2. f[(k + 1) + 1] = f[((k + 1) + 1) - 1] \o seqs[(k + 1) + 1]
      BY <3>1, <1>3, Zenon
    <3> QED BY <3>1, <3>2
  <2>4. \A i \in 1 .. (k + 1) + 1 : seqs[i] \in Seq(S)
    BY <2>1
  <2>5. \E P : Laid(f[k + 1] \o seqs[(k + 1) + 1], seqs, (k + 1) + 1, P)
    <3> DEFINE m == k + 1
    <3>1. m \in Nat /\ m > 0
      OBVIOUS
    <3> HIDE DEF m
    <3>2. PICK P : Laid(f[m], seqs, m, P)
      BY <2>2 DEF m
    <3>3. \E Q : Laid(f[m] \o seqs[m + 1], seqs, m + 1, Q)
      BY <3>1, <3>2, <2>2, <2>4, LaidNext DEF m
    <3> QED BY <3>3 DEF m
  <2> QED BY <2>2, <2>3, <2>5
<1> HIDE DEF T
<1>6. Nat \subseteq T
  BY <1>4, <1>5, SetInduction
<1>7. n - 1 \in T /\ n - 1 < n /\ (n - 1) + 1 = n
  BY <1>6
<1> QED BY <1>2, <1>7 DEF T

-----------------------------------------------------------------------------
(* The structure block: where its nodes lie, and the tags between them.    *)
Count == Len(tree.depth)

Depth(i) == tree.depth[i]

(* How many nodes end after the i-th begins and before the next does.      *)
Up(i) == IF i = Count THEN Depth(i) + 1 ELSE Depth(i) - Depth(i + 1) + 1

FromFile == tree \in Trees /\ fdt = Block(tree)

LEMMA TreeFact ==
  ASSUME FromFile
  PROVE  /\ Count \in Nat /\ Count > 0 /\ DOMAIN tree.depth = 1 .. Count
         /\ \A i \in 1 .. Count : Depth(i) \in Nat
         /\ Depth(1) = 0 /\ tree.name[1].length = 0
         /\ \A i \in 2 .. Count : Depth(i) >= 1 /\ Depth(i) <= Depth(i - 1) + 1
         /\ \A i \in 2 .. Count : tree.name[i].base # ""
         /\ \A i \in 1 .. Count : Up(i) \in Nat
         /\ tree.name \in [1 .. Count -> Names] /\ tree.ihandle \in [1 .. Count -> Nat]
<1>0. IsTree(tree)
  BY TreesAssumption DEF FromFile
<1>1. /\ Count \in Nat /\ Count > 0 /\ DOMAIN tree.depth = 1 .. Count
      /\ \A i \in 1 .. Count : Depth(i) \in Nat
      /\ Depth(1) = 0 /\ tree.name[1].length = 0
      /\ tree.name \in [1 .. Count -> Names] /\ tree.ihandle \in [1 .. Count -> Nat]
  <2>1. tree.depth \in Seq(Nat) /\ Len(tree.depth) > 0
    BY <1>0 DEF IsTree
  <2>2. Len(tree.depth) \in Nat /\ DOMAIN tree.depth = 1 .. Len(tree.depth)
    BY <2>1
  <2>3. \A i \in 1 .. Len(tree.depth) : tree.depth[i] \in Nat
    BY <2>1, <2>2
  <2> QED BY <1>0, <2>1, <2>2, <2>3, Zenon DEF IsTree, Count, Depth
<1>2. /\ \A i \in 2 .. Count : Depth(i) \in 1 .. Depth(i - 1) + 1
      /\ \A i \in 2 .. Count : tree.name[i].base # ""
  BY <1>0, Zenon DEF IsTree, Count, Depth
<1>3. \A i \in 2 .. Count : i - 1 \in 1 .. Count
  BY <1>1
<1>4. ASSUME NEW i \in 2 .. Count PROVE Depth(i) >= 1 /\ Depth(i) <= Depth(i - 1) + 1
  <2>1. Depth(i) \in 1 .. Depth(i - 1) + 1 /\ Depth(i - 1) \in Nat
    BY <1>1, <1>2, <1>3
  <2> QED BY <2>1
<1>5. ASSUME NEW i \in 1 .. Count PROVE Up(i) \in Nat
  <2>1. CASE i = Count
    BY <2>1, <1>1 DEF Up
  <2>2. CASE i # Count
    <3>1. i + 1 \in 2 .. Count /\ (i + 1) - 1 = i
      BY <2>2, <1>1
    <3>2. Depth(i + 1) <= Depth(i) + 1 /\ Depth(i + 1) \in Nat /\ Depth(i) \in Nat
      BY <3>1, <1>1, <1>4
    <3> QED BY <2>2, <3>2 DEF Up
  <2> QED BY <2>1, <2>2
<1> QED BY <1>1, <1>2, <1>4, <1>5

TagSet ==
  [tag : {"NOP", "END", "END_NODE"}] \cup [tag : {"BEGIN_NODE"}, name : Names]
    \cup [tag : {"PROP"}, name : STRING \cup {"linux,phandle"}, val : Nat \cup Seq(Names)]

LEMMA PropTag ==
  ASSUME NEW n \in STRING \cup {"linux,phandle"}, NEW v \in Nat \cup Seq(Names)
  PROVE  Prop(n, v) \in TagSet
  BY DEF TagSet, Prop

NodeTags(i) ==
  <<[tag |-> "BEGIN_NODE", name |-> tree.name[i]]>> \o PropsOf(tree, i) \o Ends(Up(i))

Wide(i) == Len(PropsOf(tree, i))

LEMMA PropsFact ==
  ASSUME FromFile, NEW i \in 1 .. Count
  PROVE  /\ PropsOf(tree, i) \in Seq(TagSet) /\ Wide(i) \in Nat /\ Wide(i) >= 1
         /\ PropsOf(tree, i)[1] = IF tree.ihandle[i] = 0 THEN [tag |-> "NOP"]
                                  ELSE Prop("linux,phandle", tree.ihandle[i])
         /\ tree.name[i].base # "aliases" => Wide(i) = 1
         /\ tree.name[i].base = "aliases" =>
              /\ Wide(i) = 1 + Len(Aliases)
              /\ \A a \in DOMAIN Aliases :
                   PropsOf(tree, i)[1 + a] = Prop(Aliases[a].name, Aliases[a].path)
<1> DEFINE first == IF tree.ihandle[i] = 0 THEN <<[tag |-> "NOP"]>> ELSE <<Prop("linux,phandle", tree.ihandle[i])>>
           leads == [a \in DOMAIN Aliases |-> Prop(Aliases[a].name, Aliases[a].path)]
           rest == IF tree.name[i].base = "aliases" THEN leads ELSE <<>>
<1>1. tree.ihandle[i] \in Nat
  BY TreeFact
<1>2. /\ first \in Seq(TagSet) /\ Len(first) = 1
      /\ first[1] = IF tree.ihandle[i] = 0 THEN [tag |-> "NOP"]
                    ELSE Prop("linux,phandle", tree.ihandle[i])
  <2>1. [tag |-> "NOP"] \in TagSet
    BY DEF TagSet
  <2>2. Prop("linux,phandle", tree.ihandle[i]) \in TagSet
    <3>1. "linux,phandle" \in STRING \cup {"linux,phandle"}
      BY Zenon
    <3>2. tree.ihandle[i] \in Nat \cup Seq(Names)
      BY <1>1, Zenon
    <3> QED BY <3>1, <3>2, PropTag, Zenon
  <2> HIDE DEF TagSet
  <2>3. first \in Seq(TagSet) /\ Len(first) = 1
    <3>1. CASE tree.ihandle[i] = 0
      <4>1. first = <<[tag |-> "NOP"]>>
        BY <3>1
      <4> HIDE DEF first
      <4> QED BY <2>1, <4>1
    <3>2. CASE tree.ihandle[i] # 0
      <4>1. first = <<Prop("linux,phandle", tree.ihandle[i])>>
        BY <3>2
      <4> HIDE DEF first
      <4> DEFINE p == Prop("linux,phandle", tree.ihandle[i])
      <4>2. p \in TagSet /\ first = <<p>>
        BY <2>2, <4>1
      <4> HIDE DEF p
      <4> QED BY <4>2
    <3> QED BY <3>1, <3>2
  <2>4. first[1] = IF tree.ihandle[i] = 0 THEN [tag |-> "NOP"]
                    ELSE Prop("linux,phandle", tree.ihandle[i])
    BY <2>1
  <2> QED BY <2>3, <2>4
<1>3. leads \in Seq(TagSet) /\ Len(leads) = Len(Aliases) /\ DOMAIN Aliases = 1 .. Len(Aliases)
  <2>1. Aliases \in Seq([name : STRING \ {"linux,phandle"}, path : Seq(Names)])
    BY PathsAssumption
  <2>2. DOMAIN Aliases = 1 .. Len(Aliases) /\ Len(Aliases) \in Nat
    BY <2>1, SeqDomain, Zenon
  <2>3. ASSUME NEW a \in DOMAIN Aliases PROVE Prop(Aliases[a].name, Aliases[a].path) \in TagSet
    <3>0. Aliases[a] \in [name : STRING \ {"linux,phandle"}, path : Seq(Names)]
      BY <2>1, <2>2, ElementOfSeq, Zenon
    <3>1. Aliases[a].name \in STRING /\ Aliases[a].path \in Seq(Names)
      BY <3>0
    <3> QED BY <3>1, PropTag
  <2>4. leads \in [1 .. Len(Aliases) -> TagSet]
    BY <2>2, <2>3
  <2> HIDE DEF leads
  <2> QED BY <2>2, <2>4
<1> HIDE DEF first, leads
<1>4. rest \in Seq(TagSet) /\ PropsOf(tree, i) = first \o rest
  <2>1. <<>> \in Seq(TagSet)
    OBVIOUS
  <2> QED BY <1>3, <2>1, Zenon DEF PropsOf, first, leads
<1> HIDE DEF rest
<1>5. /\ PropsOf(tree, i) \in Seq(TagSet)
      /\ Len(PropsOf(tree, i)) = 1 + Len(rest) /\ Len(rest) \in Nat
      /\ PropsOf(tree, i)[1] = first[1]
      /\ \A j \in 1 .. Len(rest) : PropsOf(tree, i)[1 + j] = rest[j]
  <2> DEFINE ps == PropsOf(tree, i)
  <2>1. IsJoin(ps, first, rest)
    BY <1>4 DEF IsJoin
  <2> HIDE DEF ps
  <2>2. /\ ps \in Seq(TagSet) /\ Len(ps) = Len(first) + Len(rest) /\ Len(rest) \in Nat
        /\ \A j \in 1 .. Len(first) : ps[j] = first[j]
        /\ \A j \in 1 .. Len(rest) : ps[Len(first) + j] = rest[j]
    <3>1. first \in Seq(TagSet) /\ rest \in Seq(TagSet)
      BY <1>2, <1>4
    <3> QED BY <3>1, <2>1, Spliced
  <2>3. ps \in Seq(TagSet) /\ Len(ps) = 1 + Len(rest) /\ Len(rest) \in Nat
    BY <2>2, <1>2, Zenon
  <2>4. ps[1] = first[1] /\ \A j \in 1 .. Len(rest) : ps[1 + j] = rest[j]
    <3>1. 1 \in 1 .. 1
      OBVIOUS
    <3> QED BY <2>2, <1>2, <3>1, Zenon
  <2> QED BY <2>3, <2>4, Zenon DEF ps
<1>6. tree.name[i].base # "aliases" => rest = <<>>
  BY DEF rest
<1>7. tree.name[i].base = "aliases" =>
        Len(rest) = Len(Aliases) /\ \A a \in DOMAIN Aliases : rest[a] = Prop(Aliases[a].name, Aliases[a].path)
  BY <1>3 DEF rest, leads
<1>8. tree.name[i].base = "aliases" =>
        \A a \in DOMAIN Aliases : PropsOf(tree, i)[1 + a] = Prop(Aliases[a].name, Aliases[a].path)
  BY <1>3, <1>5, <1>7
<1>9. tree.name[i].base # "aliases" => Len(PropsOf(tree, i)) = 1
  <2>1. Len(<<>>) = 0
    OBVIOUS
  <2>2. tree.name[i].base # "aliases" => Len(rest) = 0
    BY <2>1, <1>6, Zenon
  <2> QED BY <2>2, <1>5
<1>10. tree.name[i].base = "aliases" => Len(PropsOf(tree, i)) = 1 + Len(Aliases)
  BY <1>5, <1>7, Zenon
<1>11. Len(PropsOf(tree, i)) >= 1
  BY <1>5
<1>12. Len(PropsOf(tree, i)) \in Nat
  BY <1>5
<1> QED BY <1>2, <1>5, <1>8, <1>9, <1>10, <1>11, <1>12, Zenon DEF Wide

LEMMA NodeTagsFact ==
  ASSUME FromFile, NEW i \in 1 .. Count
  PROVE  LET q == Wide(i)
         IN  /\ NodeTags(i) \in Seq(TagSet)
             /\ q \in Nat /\ Len(NodeTags(i)) = 1 + q + Up(i)
             /\ NodeTags(i)[1] = [tag |-> "BEGIN_NODE", name |-> tree.name[i]]
             /\ \A j \in 1 .. q : NodeTags(i)[1 + j] = PropsOf(tree, i)[j]
             /\ \A j \in 1 .. Up(i) : NodeTags(i)[1 + q + j] = [tag |-> "END_NODE"]
<1> DEFINE begin == [tag |-> "BEGIN_NODE", name |-> tree.name[i]]
           ps == PropsOf(tree, i)
           q == Len(ps)
           u == Up(i)
           s == <<begin>> \o ps
<1>1. ps \in Seq(TagSet) /\ q \in Nat /\ u \in Nat
  <2>1. ps \in Seq(TagSet) /\ u \in Nat
    BY PropsFact, TreeFact, Zenon
  <2> HIDE DEF ps
  <2> QED BY <2>1
<1>2. <<begin>> \in Seq(TagSet) /\ Len(<<begin>>) = 1 /\ <<begin>>[1] = begin
  <2>1. tree.name[i] \in Names
    BY TreeFact
  <2>2. begin \in TagSet
    BY <2>1 DEF TagSet
  <2> QED BY <2>2
<1>3. /\ Ends(u) \in Seq(TagSet) /\ Len(Ends(u)) = u
      /\ \A j \in 1 .. u : Ends(u)[j] = [tag |-> "END_NODE"]
  <2>1. [tag |-> "END_NODE"] \in TagSet
    BY DEF TagSet
  <2> HIDE DEF u
  <2>2. Ends(u) \in [1 .. u -> TagSet]
    BY <2>1 DEF Ends
  <2> QED BY <1>1, <2>2 DEF Ends
<1> HIDE DEF begin, ps, q, u
<1>4. /\ s \in Seq(TagSet) /\ Len(s) = 1 + q /\ s[1] = begin
      /\ \A j \in 1 .. q : s[1 + j] = ps[j]
  BY <1>1, <1>2, Joined DEF q
<1> HIDE DEF s
<1>5. IsJoin(NodeTags(i), s, Ends(u))
  BY Zenon DEF NodeTags, s, begin, ps, u, IsJoin
<1>6. /\ NodeTags(i) \in Seq(TagSet) /\ Len(NodeTags(i)) = 1 + q + u
      /\ \A j \in 1 .. 1 + q : NodeTags(i)[j] = s[j]
      /\ \A j \in 1 .. u : NodeTags(i)[1 + q + j] = Ends(u)[j]
  <2>1. /\ NodeTags(i) \in Seq(TagSet)
        /\ Len(NodeTags(i)) = Len(s) + Len(Ends(u))
        /\ \A j \in 1 .. Len(s) : NodeTags(i)[j] = s[j]
        /\ \A j \in 1 .. Len(Ends(u)) : NodeTags(i)[Len(s) + j] = Ends(u)[j]
    <3>1. s \in Seq(TagSet) /\ Ends(u) \in Seq(TagSet)
      BY <1>3, <1>4
    <3> QED BY <3>1, <1>5, Spliced
  <2> QED BY <1>3, <1>4, <2>1, Zenon
<1>7. 1 \in 1 .. 1 + q /\ \A j \in 1 .. q : 1 + j \in 1 .. 1 + q
  BY <1>1
<1>8. NodeTags(i)[1] = begin /\ \A j \in 1 .. q : NodeTags(i)[1 + j] = ps[j]
  BY <1>4, <1>6, <1>7
<1>9. \A j \in 1 .. u : NodeTags(i)[1 + q + j] = [tag |-> "END_NODE"]
  BY <1>3, <1>6
<1> QED BY <1>1, <1>6, <1>8, <1>9, Zenon DEF begin, ps, q, u, Wide

LEMMA Increasing ==
  ASSUME NEW n \in Nat, NEW P \in [1 .. n + 1 -> Nat], \A i \in 1 .. n : P[i] < P[i + 1]
  PROVE  \A i, j \in 1 .. n + 1 : i < j => P[i] < P[j]
<1> DEFINE T == {k \in Nat : \A i \in 1 .. n + 1 : i + k <= n => P[i] < P[i + k + 1]}
<1>1. 0 \in T
  OBVIOUS
<1>2. ASSUME NEW k \in Nat, k \in T PROVE k + 1 \in T
  <2>1. ASSUME NEW i \in 1 .. n + 1, i + (k + 1) <= n PROVE P[i] < P[i + (k + 1) + 1]
    <3>1. P[i] < P[i + k + 1]
      BY <1>2, <2>1
    <3>2. i + k + 1 \in 1 .. n /\ (i + k + 1) + 1 = i + (k + 1) + 1 /\ i + (k + 1) + 1 \in 1 .. n + 1
      BY <2>1
    <3>3. P[i + k + 1] < P[(i + k + 1) + 1]
      BY <3>2
    <3>4. P[i] \in Nat /\ P[i + k + 1] \in Nat /\ P[i + (k + 1) + 1] \in Nat
      BY <3>2
    <3> HIDE DEF T
    <3> QED BY <3>1, <3>2, <3>3, <3>4
  <2> QED BY <2>1
<1> HIDE DEF T
<1>3. Nat \subseteq T
  BY <1>1, <1>2, SetInduction
<1>4. ASSUME NEW i \in 1 .. n + 1, NEW j \in 1 .. n + 1, i < j PROVE P[i] < P[j]
  <2>1. j - i - 1 \in Nat /\ i + (j - i - 1) <= n /\ i + (j - i - 1) + 1 = j
    BY <1>4
  <2>2. j - i - 1 \in T
    BY <2>1, <1>3
  <2> QED BY <2>1, <2>2 DEF T
<1> QED BY <1>4

LEMMA Between ==
  ASSUME NEW n \in Nat, NEW P \in [1 .. n + 1 -> Nat], P[1] = 0,
         NEW o \in Nat, o < P[n + 1]
  PROVE  \E i \in 1 .. n : P[i] <= o /\ o < P[i + 1]
<1> DEFINE T == {k \in Nat : k <= n => P[k + 1] <= o}
<1>1. SUFFICES ASSUME \A i \in 1 .. n : P[i] <= o => P[i + 1] <= o PROVE FALSE
  <2>1. \A i \in 1 .. n : P[i + 1] \in Nat
    OBVIOUS
  <2> QED BY <2>1
<1>2. 0 \in T
  OBVIOUS
<1>3. ASSUME NEW k \in Nat, k \in T PROVE k + 1 \in T
  <2>1. CASE k + 1 <= n
    <3>1. P[k + 1] <= o /\ k + 1 \in 1 .. n
      BY <1>3, <2>1
    <3> QED BY <3>1, <1>1
  <2>2. CASE ~(k + 1 <= n)
    BY <2>2
  <2> QED BY <2>1, <2>2
<1> HIDE DEF T
<1>4. n \in T
  BY <1>2, <1>3, SetInduction
<1>5. P[n + 1] <= o /\ P[n + 1] \in Nat
  BY <1>4 DEF T
<1> QED BY <1>5

(* The i-th node begins at P[i]; its properties follow, and then the ends  *)
(* of the nodes that end there.                                            *)
Layout(P) ==
  /\ P \in [1 .. Count + 1 -> Nat] /\ P[1] = 0
  /\ Len(fdt) \in Nat /\ Len(fdt) = P[Count + 1] + 1 /\ Tag(P[Count + 1]) = "END"
  /\ \A i \in 1 .. Count :
       /\ P[i + 1] = P[i] + 1 + Wide(i) + Up(i)
       /\ Tag(P[i]) = "BEGIN_NODE" /\ At(P[i]).name = tree.name[i]
       /\ \A j \in 1 .. Wide(i) :
            Tag(P[i] + j) = PropsOf(tree, i)[j].tag /\ At(P[i] + j) = PropsOf(tree, i)[j]
       /\ \A o \in P[i + 1] - Up(i) .. P[i + 1] - 1 : Tag(o) = "END_NODE"

LEMMA LayoutExists ==
  ASSUME FromFile
  PROVE  \E P : Layout(P)
<1> DEFINE seqs == [i \in 1 .. Count |-> NodeTags(i)]
           flat == FlattenSeq(seqs)
           end == <<[tag |-> "END"]>>
<1>1. IsJoin(fdt, flat, end)
  BY Zenon DEF FromFile, Block, NodeTags, Up, Depth, Count, IsJoin
<1>2. seqs \in [1 .. Count -> Seq(TagSet)]
  BY NodeTagsFact
<1>3. Count \in Nat /\ Count > 0
  BY TreeFact
<1>4. \A i \in 1 .. Count : seqs[i] = NodeTags(i)
  OBVIOUS
<1> HIDE DEF seqs
<1>5. flat \in Seq(TagSet) /\ \E P : Laid(flat, seqs, Count, P)
  BY <1>2, <1>3, Flattened
<1>6. end \in Seq(TagSet) /\ Len(end) = 1 /\ end[1] = [tag |-> "END"]
  <2>1. [tag |-> "END"] \in TagSet
    BY DEF TagSet
  <2> QED BY <2>1
<1> HIDE DEF flat, end
<1>7. /\ Len(fdt) = Len(flat) + 1 /\ Len(flat) \in Nat
      /\ \A j \in 1 .. Len(flat) : fdt[j] = flat[j]
      /\ fdt[Len(flat) + 1] = [tag |-> "END"]
  <2>1. /\ Len(fdt) = Len(flat) + Len(end) /\ Len(flat) \in Nat
        /\ \A j \in 1 .. Len(flat) : fdt[j] = flat[j]
        /\ \A j \in 1 .. Len(end) : fdt[Len(flat) + j] = end[j]
    <3>1. flat \in Seq(TagSet) /\ end \in Seq(TagSet)
      BY <1>5, <1>6
    <3> QED BY <3>1, <1>1, Spliced
  <2> QED BY <2>1, <1>6
<1>8. PICK P : Laid(flat, seqs, Count, P)
  BY <1>5
<1>9. /\ P \in [1 .. Count + 1 -> Nat] /\ P[1] = 0 /\ P[Count + 1] = Len(flat)
      /\ \A i \in 1 .. Count : P[i + 1] = P[i] + Len(NodeTags(i))
      /\ \A i \in 1 .. Count : \A j \in 1 .. Len(NodeTags(i)) : flat[P[i] + j] = NodeTags(i)[j]
  BY <1>4, <1>8, Zenon DEF Laid
<1>10. ASSUME NEW i \in 1 .. Count
       PROVE  /\ P[i] \in Nat /\ P[i + 1] \in Nat
              /\ Len(NodeTags(i)) = 1 + Wide(i) + Up(i)
              /\ Wide(i) \in Nat /\ Up(i) \in Nat
              /\ P[i + 1] = P[i] + Len(NodeTags(i))
  <2>1. i + 1 \in 1 .. Count + 1 /\ i \in 1 .. Count + 1
    BY <1>3
  <2>2. P[i] \in Nat /\ P[i + 1] \in Nat /\ P[i + 1] = P[i] + Len(NodeTags(i))
    BY <2>1, <1>9
  <2>3. /\ Len(NodeTags(i)) = 1 + Wide(i) + Up(i)
        /\ Wide(i) \in Nat /\ Up(i) \in Nat
    BY NodeTagsFact, TreeFact, Zenon
  <2> QED BY <2>2, <2>3
<1>11. \A i \in 1 .. Count : P[i] < P[i + 1]
  BY <1>9, <1>10
<1>12. ASSUME NEW i \in 1 .. Count PROVE P[i + 1] <= Len(flat)
  <2>1. CASE i = Count
    BY <2>1, <1>7, <1>9
  <2>2. CASE i # Count
    <3>1. i + 1 \in 1 .. Count + 1 /\ i + 1 < Count + 1 /\ Count + 1 \in 1 .. Count + 1
      BY <1>3, <2>2
    <3>2. P[i + 1] < P[Count + 1]
      BY <1>3, <1>9, <1>11, <3>1, Increasing
    <3> QED BY <3>2, <1>7, <1>9, <1>10
  <2> QED BY <2>1, <2>2
<1>13. ASSUME NEW i \in 1 .. Count, NEW j \in 1 .. Len(NodeTags(i))
       PROVE  LET o == P[i] + j - 1
              IN  o \in 0 .. Len(fdt) - 1 /\ At(o) = NodeTags(i)[j] /\ Tag(o) = NodeTags(i)[j].tag
  <2> DEFINE l == Len(NodeTags(i))
             p == P[i]
             q == P[i + 1]
  <2>0. p \in Nat /\ q \in Nat /\ l \in Int /\ q = p + l /\ q <= Len(flat) /\ Len(flat) \in Nat
    BY <1>7, <1>10, <1>12
  <2>1. P[i] + j \in 1 .. Len(flat) /\ P[i] \in Nat
    <3>1. j \in 1 .. l
      OBVIOUS
    <3> HIDE DEF l, p, q
    <3>2. p + j \in 1 .. Len(flat) /\ p \in Nat
      BY <2>0, <3>1
    <3> QED BY <3>2 DEF p
  <2>2. fdt[P[i] + j] = NodeTags(i)[j]
    BY <2>1, <1>7, <1>9
  <2>3. (P[i] + j - 1) + 1 = P[i] + j /\ P[i] + j - 1 \in 0 .. Len(fdt) - 1
    BY <2>1, <1>7
  <2> QED BY <2>2, <2>3, Zenon DEF At, Tag
<1>14. ASSUME NEW i \in 1 .. Count
       PROVE  Tag(P[i]) = "BEGIN_NODE" /\ At(P[i]).name = tree.name[i]
  <2>1. 1 \in 1 .. Len(NodeTags(i)) /\ P[i] + 1 - 1 = P[i]
    BY <1>10
  <2>2. At(P[i]) = NodeTags(i)[1] /\ Tag(P[i]) = NodeTags(i)[1].tag
    BY <2>1, <1>13
  <2>3. NodeTags(i)[1] = [tag |-> "BEGIN_NODE", name |-> tree.name[i]]
    BY NodeTagsFact
  <2> QED BY <2>2, <2>3
<1>15. ASSUME NEW i \in 1 .. Count, NEW j \in 1 .. Wide(i)
       PROVE  Tag(P[i] + j) = PropsOf(tree, i)[j].tag /\ At(P[i] + j) = PropsOf(tree, i)[j]
  <2>1. 1 + j \in 1 .. Len(NodeTags(i)) /\ P[i] + (1 + j) - 1 = P[i] + j
    BY <1>10
  <2>2. At(P[i] + j) = NodeTags(i)[1 + j] /\ Tag(P[i] + j) = NodeTags(i)[1 + j].tag
    BY <2>1, <1>13
  <2>3. NodeTags(i)[1 + j] = PropsOf(tree, i)[j]
    BY NodeTagsFact
  <2> QED BY <2>2, <2>3
<1>16. ASSUME NEW i \in 1 .. Count, NEW o \in P[i + 1] - Up(i) .. P[i + 1] - 1
       PROVE  Tag(o) = "END_NODE"
  <2> DEFINE q == Wide(i)
             j == o - P[i] - q
             u == Up(i)
             l == Len(NodeTags(i))
             p == P[i]
             p1 == P[i + 1]
  <2>1. p \in Nat /\ q \in Nat /\ u \in Nat /\ l = 1 + q + u /\ p1 = p + l /\ o \in p1 - u .. p1 - 1
    BY <1>10, Zenon
  <2>2. j \in 1 .. Up(i) /\ 1 + q + j \in 1 .. 1 + q + Up(i) /\ P[i] + (1 + q + j) - 1 = o
    <3> HIDE DEF q, u, l, p, p1
    <3>1. j = o - p - q
      BY DEF p
    <3> HIDE DEF j
    <3>2. j \in 1 .. u /\ 1 + q + j \in 1 .. 1 + q + u /\ p + (1 + q + j) - 1 = o
      BY <2>1, <3>1
    <3> QED BY <3>2 DEF u, p
  <2>3. Tag(o) = NodeTags(i)[1 + q + j].tag
    BY <2>2, <1>10, <1>13 DEF q
  <2>4. NodeTags(i)[1 + q + j] = [tag |-> "END_NODE"]
    BY <2>2, NodeTagsFact DEF q
  <2> QED BY <2>3, <2>4
<1>17. Tag(P[Count + 1]) = "END"
  <2>1. P[Count + 1] + 1 = Len(flat) + 1
    BY <1>9
  <2>2. At(P[Count + 1]) = [tag |-> "END"]
    BY <2>1, <1>7 DEF At
  <2> QED BY <2>2 DEF Tag
<1>18. Layout(P)
  <2>1. \A i \in 1 .. Count : P[i + 1] = P[i] + 1 + Wide(i) + Up(i)
    BY <1>9, <1>10
  <2>2. Len(fdt) \in Nat /\ Len(fdt) = P[Count + 1] + 1
    BY <1>7, <1>9
  <2> QED BY <2>1, <2>2, <1>9, <1>14, <1>15, <1>16, <1>17, Zenon DEF Layout
<1> QED BY <1>18

LEMMA MinIs ==
  ASSUME NEW S, S \subseteq Int, NEW m \in S, \A k \in S : m <= k
  PROVE  Min(S) = m
<1>1. \A k \in S : k \in Int
  OBVIOUS
<1>2. \A x \in S : (\A k \in S : x <= k) => x = m
  <2>1. ASSUME NEW x \in S, \A k \in S : x <= k PROVE x = m
    <3>1. x <= m /\ m <= x /\ x \in Int /\ m \in Int
      BY <1>1, <2>1
    <3> QED BY <3>1
  <2> QED BY <2>1
<1> QED BY <1>2 DEF Min

LEMMA MaxIs ==
  ASSUME NEW S, S \subseteq Int, NEW m \in S, \A k \in S : k <= m
  PROVE  Max(S) = m
<1>1. \A k \in S : k \in Int
  OBVIOUS
<1>2. \A x \in S : (\A k \in S : x >= k) => x = m
  <2>1. ASSUME NEW x \in S, \A k \in S : x >= k PROVE x = m
    <3>1. x >= m /\ m >= x /\ x \in Int /\ m \in Int
      BY <1>1, <2>1
    <3> QED BY <3>1
  <2> QED BY <2>1
<1>3. \A k \in S : m >= k
  BY <1>1
<1> QED BY <1>2, <1>3 DEF Max

LEMMA MinFact ==
  ASSUME NEW S, S \subseteq Nat, S # {}
  PROVE  Min(S) \in S /\ \A k \in S : Min(S) <= k
<1>1. PICK m \in S : \A k \in S : m <= k
  BY LeastNatural
<1>2. Min(S) = m
  <2>1. S \subseteq Int
    OBVIOUS
  <2> QED BY <1>1, <2>1, MinIs
<1> QED BY <1>1, <1>2

LEMMA MaxFact ==
  ASSUME NEW S, NEW n \in Nat, S \subseteq 0 .. n, S # {}
  PROVE  Max(S) \in S /\ \A k \in S : k <= Max(S)
<1>1. PICK m \in S : \A k \in S : k <= m
  BY GreatestNatural
<1>2. Max(S) = m
  <2>1. S \subseteq Int
    OBVIOUS
  <2> QED BY <1>1, <2>1, MaxIs
<1> QED BY <1>1, <1>2

LEMMA PlaceFact ==
  ASSUME FromFile, NEW P, Layout(P)
  PROVE  /\ P \in [1 .. Count + 1 -> Nat] /\ P[1] = 0
         /\ \A i \in 1 .. Count + 1 : P[i] \in Nat
         /\ \A i, j \in 1 .. Count + 1 : i < j => P[i] < P[j]
         /\ Len(fdt) \in Nat /\ P[Count + 1] = Len(fdt) - 1
<1>1. /\ P \in [1 .. Count + 1 -> Nat] /\ P[1] = 0
      /\ Len(fdt) \in Nat /\ Len(fdt) = P[Count + 1] + 1
      /\ \A i \in 1 .. Count : P[i + 1] = P[i] + 1 + Wide(i) + Up(i)
  BY Zenon DEF Layout
<1>2. Count \in Nat /\ \A i \in 1 .. Count : Up(i) \in Nat
  BY TreeFact
<1>3. \A i \in 1 .. Count : Wide(i) \in Nat
  BY PropsFact
<1>4. \A i \in 1 .. Count : P[i] < P[i + 1]
  <2>1. ASSUME NEW i \in 1 .. Count PROVE P[i] < P[i + 1]
    <3> DEFINE p == P[i]
               q == P[i + 1]
               w == Wide(i)
               u == Up(i)
    <3>1. q = p + 1 + w + u /\ w \in Nat /\ u \in Nat
      BY <1>1, <1>2, <1>3, Zenon
    <3>2. p \in Nat
      BY <1>1, <1>2
    <3> HIDE DEF p, q, w, u
    <3>3. p < q
      BY <3>1, <3>2
    <3> QED BY <3>3 DEF p, q
  <2> QED BY <2>1
<1>5. \A i, j \in 1 .. Count + 1 : i < j => P[i] < P[j]
  BY <1>1, <1>2, <1>4, Increasing
<1>6. \A i \in 1 .. Count + 1 : P[i] \in Nat
  BY <1>1
<1>7. P[Count + 1] = Len(fdt) - 1
  <2>1. P[Count + 1] \in Nat
    BY <1>2, <1>6
  <2> QED BY <1>1, <2>1
<1> QED BY <1>1, <1>5, <1>6, <1>7, Zenon

LEMMA PropFields ==
  ASSUME NEW n, NEW v
  PROVE  Prop(n, v).tag = "PROP" /\ Prop(n, v).name = n /\ Prop(n, v).val = v
  BY DEF Prop

(* What lies from one node to the next: p and q are their offsets.         *)
LEMMA SegmentFact ==
  ASSUME FromFile, NEW P, Layout(P), NEW i \in 1 .. Count
  PROVE  /\ P[i] \in Nat /\ P[i + 1] \in Nat /\ Up(i) \in Nat
         /\ Wide(i) \in Nat /\ Wide(i) >= 1
         /\ P[i + 1] = P[i] + 1 + Wide(i) + Up(i)
         /\ P[i + 1] <= Len(fdt) - 1 /\ Len(fdt) \in Nat
         /\ Tag(P[i]) = "BEGIN_NODE"
         /\ \A o \in P[i] + 1 .. P[i] + Wide(i) : Tag(o) \in {"PROP", "NOP"}
         /\ \A o \in P[i + 1] - Up(i) .. P[i + 1] - 1 : Tag(o) = "END_NODE"
         /\ i = Count => Tag(P[i + 1]) = "END"
         /\ i < Count => i + 1 \in 1 .. Count /\ Tag(P[i + 1]) = "BEGIN_NODE"
<1> DEFINE p == P[i]
           q == P[i + 1]
           w == Wide(i)
           u == Up(i)
<1>1. Count \in Nat /\ u \in Nat /\ w \in Nat /\ w >= 1
  BY TreeFact, PropsFact, Zenon
<1>2. i + 1 \in 1 .. Count + 1 /\ i \in 1 .. Count + 1 /\ Count + 1 \in 1 .. Count + 1
  BY <1>1
<1>3. p \in Nat /\ q \in Nat /\ Len(fdt) \in Nat /\ P[Count + 1] = Len(fdt) - 1 /\ P[Count + 1] \in Nat
  BY <1>2, PlaceFact, Zenon
<1>4. q = p + 1 + w + u /\ Tag(p) = "BEGIN_NODE"
  BY Zenon DEF Layout
<1>5. \A o \in q - u .. q - 1 : Tag(o) = "END_NODE"
  BY Zenon DEF Layout
<1>6. q <= Len(fdt) - 1
  <2>1. CASE i = Count
    BY <2>1, <1>3
  <2>2. CASE i # Count
    <3>1. i + 1 < Count + 1
      <4>1. Count \in Nat
        BY <1>1
      <4> QED BY <2>2, <4>1
    <3>2. q < P[Count + 1]
      BY <1>2, <3>1, PlaceFact, Zenon
    <3> HIDE DEF q
    <3> QED BY <3>2, <1>3
  <2> QED BY <2>1, <2>2
<1>7. i = Count => Tag(q) = "END"
  BY Zenon DEF Layout
<1>8. i < Count => i + 1 \in 1 .. Count /\ Tag(q) = "BEGIN_NODE"
  <2>1. i < Count => i + 1 \in 1 .. Count
    BY <1>1
  <2> QED BY <2>1, Zenon DEF Layout
<1>9. ASSUME NEW o \in p + 1 .. p + w PROVE Tag(o) \in {"PROP", "NOP"}
  <2> DEFINE j == o - p
             ps == PropsOf(tree, i)
  <2>1. j \in 1 .. w /\ p + j = o
    <3> HIDE DEF p, w
    <3> QED BY <1>1, <1>3
  <2>2. Tag(o) = ps[j].tag
    <3>1. Tag(p + j) = ps[j].tag
      BY <2>1, Zenon DEF Layout
    <3> QED BY <2>1, <3>1, Zenon
  <2>3. ps[j].tag \in {"PROP", "NOP"}
    <3>1. CASE j = 1
      <4>1. ps[1] = IF tree.ihandle[i] = 0 THEN [tag |-> "NOP"] ELSE Prop("linux,phandle", tree.ihandle[i])
        BY PropsFact, Zenon
      <4>2. CASE tree.ihandle[i] = 0
        <5>1. ps[j] = [tag |-> "NOP"]
          BY <3>1, <4>1, <4>2, Zenon
        <5> HIDE DEF ps, j
        <5> QED BY <5>1
      <4>3. CASE tree.ihandle[i] # 0
        <5>1. ps[j] = Prop("linux,phandle", tree.ihandle[i])
          BY <3>1, <4>1, <4>3, Zenon
        <5>2. Prop("linux,phandle", tree.ihandle[i]).tag = "PROP"
          BY PropFields
        <5>3. ps[j].tag = "PROP"
          BY <5>1, <5>2, Zenon
        <5> QED BY <5>3, Zenon
      <4> QED BY <4>2, <4>3
    <3>2. CASE j # 1
      <4>1. tree.name[i].base = "aliases" /\ w = 1 + Len(Aliases)
        <5>1. tree.name[i].base # "aliases" => w = 1
          BY PropsFact, Zenon
        <5>2. tree.name[i].base = "aliases" => w = 1 + Len(Aliases)
          BY PropsFact, Zenon
        <5> HIDE DEF w, j
        <5> QED BY <5>1, <5>2, <3>2, <2>1
      <4>2. DOMAIN Aliases = 1 .. Len(Aliases) /\ Len(Aliases) \in Nat
        BY PathsAssumption, SeqDomain, Zenon
      <4>3. j - 1 \in DOMAIN Aliases /\ 1 + (j - 1) = j
        <5> HIDE DEF w, j
        <5> QED BY <2>1, <3>2, <4>1, <4>2
      <4>4. ps[1 + (j - 1)] = Prop(Aliases[j - 1].name, Aliases[j - 1].path)
        BY <4>1, <4>3, PropsFact, Zenon
      <4> HIDE DEF ps, j
      <4>5. ps[j] = Prop(Aliases[j - 1].name, Aliases[j - 1].path)
        BY <4>3, <4>4
      <4>6. Prop(Aliases[j - 1].name, Aliases[j - 1].path).tag = "PROP"
        BY PropFields
      <4>7. ps[j].tag = "PROP"
        BY <4>5, <4>6, Zenon
      <4> QED BY <4>7, Zenon
    <3> QED BY <3>1, <3>2
  <2> QED BY <2>2, <2>3
<1> QED BY <1>1, <1>3, <1>4, <1>5, <1>6, <1>7, <1>8, <1>9, Zenon

LEMMA NextNode ==
  ASSUME FromFile, NEW P, Layout(P), NEW i \in 1 .. Count, NEW d \in Nat
  PROVE  fdt_next_node(P[i], d) =
           IF d < Up(i) THEN [offset |-> 1 + (P[i + 1] - Up(i) + d), depth |-> -1]
           ELSE IF i = Count THEN [offset |-> NOTFOUND, depth |-> d - Up(i)]
           ELSE [offset |-> P[i + 1], depth |-> d - Up(i) + 1]
<1> DEFINE p == P[i]
           q == P[i + 1]
           w == Wide(i)
           u == Up(i)
           l == Len(fdt)
           start == IF p >= 0 THEN _fdt_check_node_offset(p) ELSE 0
           stop == Min({k \in start .. l - 1 : Tag(k) \in {"BEGIN_NODE", "END"}})
           closed == {k \in start .. stop : Tag(k) = "END_NODE"}
           left(k) == d - Cardinality(closed \cap (start .. k))
           over == {k \in closed : left(k) < 0}
<1>1. fdt_next_node(p, d) =
        IF start < 0 THEN [offset |-> start, depth |-> d]
        ELSE IF left(stop) < 0 THEN [offset |-> 1 + Min(over), depth |-> -1]
        ELSE IF Tag(stop) = "END" THEN [offset |-> NOTFOUND, depth |-> left(stop)]
        ELSE [offset |-> stop, depth |-> left(stop) + 1]
  BY Zenon DEF fdt_next_node
<1>2. /\ p \in Nat /\ q \in Nat /\ u \in Nat /\ w \in Nat /\ w >= 1
      /\ q = p + 1 + w + u /\ q <= l - 1 /\ l \in Nat
      /\ Tag(p) = "BEGIN_NODE"
      /\ \A o \in p + 1 .. p + w : Tag(o) \in {"PROP", "NOP"}
      /\ \A o \in q - u .. q - 1 : Tag(o) = "END_NODE"
      /\ i = Count => Tag(q) = "END"
      /\ i < Count => Tag(q) = "BEGIN_NODE"
  BY SegmentFact, Zenon
<1> HIDE DEF p, q, w, u, l
<1>3. start = p + 1
  BY <1>2 DEF _fdt_check_node_offset, IsNode
<1> HIDE DEF start
<1>4. Count \in Nat /\ (i = Count \/ i < Count)
  <2>1. Count \in Nat
    BY TreeFact
  <2> QED BY <2>1
<1>5. Tag(q) \in {"BEGIN_NODE", "END"}
  BY <1>2, <1>4
<1>6. ASSUME NEW k \in p + 1 .. q - 1
      PROVE  /\ Tag(k) \notin {"BEGIN_NODE", "END"}
             /\ Tag(k) = "END_NODE" <=> k \in q - u .. q - 1
  <2>1. CASE k \in q - u .. q - 1
    <3>1. Tag(k) = "END_NODE"
      BY <1>2, <2>1
    <3> QED BY <2>1, <3>1
  <2>2. CASE k \notin q - u .. q - 1
    <3>1. k \in p + 1 .. p + w
      BY <1>2, <2>2
    <3>2. Tag(k) \in {"PROP", "NOP"}
      BY <1>2, <3>1
    <3> QED BY <2>2, <3>2
  <2> QED BY <2>1, <2>2
<1>7. stop = q
  <2> DEFINE S == {k \in p + 1 .. l - 1 : Tag(k) \in {"BEGIN_NODE", "END"}}
  <2>1. S \subseteq Int
    OBVIOUS
  <2>2. q \in S
    BY <1>2, <1>5
  <2>3. \A k \in S : q <= k
    <3>1. ASSUME NEW k \in S, k < q PROVE FALSE
      <4>1. k \in p + 1 .. q - 1 /\ Tag(k) \in {"BEGIN_NODE", "END"}
        BY <1>2, <3>1
      <4> QED BY <4>1, <1>6
    <3> QED BY <1>2, <3>1
  <2> HIDE DEF S
  <2>4. Min(S) = q
    BY <2>1, <2>2, <2>3, MinIs
  <2> QED BY <2>4, <1>3 DEF S
<1> HIDE DEF stop
<1>8. closed = q - u .. q - 1
  <2>1. closed = {k \in p + 1 .. q : Tag(k) = "END_NODE"}
    BY <1>3, <1>7
  <2>2. Tag(q) # "END_NODE"
    BY <1>5
  <2>3. ASSUME NEW k \in p + 1 .. q, Tag(k) = "END_NODE" PROVE k \in q - u .. q - 1
    <3>1. k \in p + 1 .. q - 1
      BY <1>2, <2>2, <2>3
    <3> QED BY <3>1, <1>6, <2>3
  <2>4. ASSUME NEW k \in q - u .. q - 1 PROVE k \in p + 1 .. q /\ Tag(k) = "END_NODE"
    BY <1>2
  <2> HIDE DEF closed
  <2> QED BY <2>1, <2>3, <2>4
<1> HIDE DEF closed
<1>9. ASSUME NEW k \in q - u .. q PROVE left(k) = d - (IF k = q THEN u ELSE k - (q - u) + 1)
  <2>1. CASE k = q
    <3>1. closed \cap (start .. k) = q - u .. q - 1
      BY <2>1, <1>2, <1>3, <1>8
    <3>2. Cardinality(q - u .. q - 1) = u
      <4>1. q - u \in Int /\ q - 1 \in Int
        BY <1>2
      <4>2. Cardinality(q - u .. q - 1) = IF q - u > q - 1 THEN 0 ELSE (q - 1) - (q - u) + 1
        BY <4>1, FS_Interval
      <4> QED BY <4>2, <1>2
    <3> QED BY <2>1, <3>1, <3>2
  <2>2. CASE k # q
    <3>1. closed \cap (start .. k) = q - u .. k
      BY <2>2, <1>2, <1>3, <1>8
    <3>2. Cardinality(q - u .. k) = k - (q - u) + 1
      <4>1. q - u \in Int /\ k \in Int /\ k >= q - u
        BY <1>2
      <4>2. Cardinality(q - u .. k) = IF q - u > k THEN 0 ELSE k - (q - u) + 1
        BY <4>1, FS_Interval
      <4> QED BY <4>1, <4>2
    <3> QED BY <2>2, <3>1, <3>2
  <2> QED BY <2>1, <2>2
<1>10. left(stop) = d - u
  <2>1. q \in q - u .. q
    BY <1>2
  <2> HIDE DEF left
  <2> QED BY <2>1, <1>7, <1>9
<1> HIDE DEF left
<1>11. d < u => Min(over) = q - u + d
  <2>1. SUFFICES ASSUME d < u PROVE Min(over) = q - u + d
    OBVIOUS
  <2>2. ASSUME NEW k \in q - u .. q - 1 PROVE left(k) < 0 <=> k >= q - u + d
    <3>1. k \in q - u .. q /\ k # q
      BY <1>2
    <3>2. left(k) = d - (k - (q - u) + 1)
      BY <1>9, <3>1
    <3> QED BY <3>2, <1>2
  <2>3. q - u + d \in q - u .. q - 1
    BY <1>2, <2>1
  <2>4. over \subseteq Int /\ q - u + d \in over
    BY <1>8, <2>2, <2>3
  <2>5. \A k \in over : q - u + d <= k
    BY <1>8, <2>2
  <2> HIDE DEF over
  <2> QED BY <2>4, <2>5, MinIs
<1> HIDE DEF over
<1>12. Tag(stop) = "END" <=> i = Count
  BY <1>2, <1>4, <1>7
<1>13. ~(start < 0)
  BY <1>2, <1>3
<1>14. left(stop) < 0 <=> d < u
  BY <1>2, <1>10
<1>15. fdt_next_node(p, d) =
         IF d < u THEN [offset |-> 1 + Min(over), depth |-> -1]
         ELSE IF i = Count THEN [offset |-> NOTFOUND, depth |-> d - u]
         ELSE [offset |-> q, depth |-> d - u + 1]
  BY <1>1, <1>7, <1>10, <1>12, <1>13, <1>14, Zenon
<1>16. fdt_next_node(p, d) =
         IF d < u THEN [offset |-> 1 + (q - u + d), depth |-> -1]
         ELSE IF i = Count THEN [offset |-> NOTFOUND, depth |-> d - u]
         ELSE [offset |-> q, depth |-> d - u + 1]
  BY <1>11, <1>15, Zenon
<1> QED BY <1>16 DEF p, q, u

LEMMA NodesFact ==
  ASSUME FromFile, NEW P, Layout(P)
  PROVE  /\ Nodes = {P[i] : i \in 1 .. Count}
         /\ \A i \in 1 .. Count : P[i] \in Nodes /\ IsNode(P[i])
         /\ \A o : IsNode(o) => \E i \in 1 .. Count : o = P[i]
<1>1. ASSUME NEW i \in 1 .. Count PROVE P[i] \in Nodes /\ IsNode(P[i])
  <2> DEFINE p == P[i]
             q == P[i + 1]
             l == Len(fdt)
  <2>1. /\ p \in Nat /\ q \in Nat /\ Wide(i) \in Nat /\ Up(i) \in Nat /\ l \in Nat
        /\ q = p + 1 + Wide(i) + Up(i) /\ q <= l - 1 /\ Tag(p) = "BEGIN_NODE"
    BY SegmentFact, Zenon
  <2> HIDE DEF p, q, l
  <2>2. p \in 0 .. l - 1
    BY <2>1
  <2> QED BY <2>1, <2>2 DEF Nodes, IsNode, p, l
<1>2. ASSUME NEW o, IsNode(o) PROVE \E i \in 1 .. Count : o = P[i]
  <2>1. Tag(o) = "BEGIN_NODE" /\ o \in 0 .. Len(fdt) - 1
    BY <1>2 DEF IsNode, Tag
  <2>2. /\ P \in [1 .. Count + 1 -> Nat] /\ P[1] = 0 /\ Count \in Nat
        /\ Len(fdt) \in Nat /\ P[Count + 1] = Len(fdt) - 1 /\ Tag(P[Count + 1]) = "END"
    BY PlaceFact, TreeFact, Zenon DEF Layout
  <2>3. o # P[Count + 1]
    BY <2>1, <2>2
  <2>4. o \in Nat /\ o < P[Count + 1]
    BY <2>1, <2>2, <2>3
  <2>5. PICK i \in 1 .. Count : P[i] <= o /\ o < P[i + 1]
    BY <2>2, <2>4, Between
  <2> DEFINE p == P[i]
             q == P[i + 1]
             w == Wide(i)
             u == Up(i)
  <2>6. /\ p \in Nat /\ q \in Nat /\ u \in Nat /\ w \in Nat
        /\ q = p + 1 + w + u
        /\ \A k \in p + 1 .. p + w : Tag(k) \in {"PROP", "NOP"}
        /\ \A k \in q - u .. q - 1 : Tag(k) = "END_NODE"
    BY SegmentFact, Zenon
  <2>7. p <= o /\ o < q
    BY <2>5
  <2> HIDE DEF p, q, w, u
  <2>8. o \notin p + 1 .. p + w /\ o \notin q - u .. q - 1
    BY <2>1, <2>6
  <2>9. o = p
    BY <2>4, <2>6, <2>7, <2>8
  <2> QED BY <2>9 DEF p
<1>3. Nodes \subseteq {P[i] : i \in 1 .. Count}
  BY <1>2 DEF Nodes
<1> QED BY <1>1, <1>2, <1>3

LEMMA NotANode ==
  ASSUME NEW o \in Nat, NEW d, ~IsNode(o)
  PROVE  fdt_next_node(o, d) = [offset |-> BADOFFSET, depth |-> d]
<1>1. (IF o >= 0 THEN _fdt_check_node_offset(o) ELSE 0) = BADOFFSET /\ BADOFFSET < 0
  BY DEF _fdt_check_node_offset, BADOFFSET
<1> QED BY <1>1, Zenon DEF fdt_next_node

-----------------------------------------------------------------------------
(* A loop over fdt_next_node counts depths from e below the root's.        *)
States == [offset : Int, depth : Int]

State(P, i, e) == [offset |-> P[i], depth |-> Depth(i) - e]

(* The last node the loop sees, and the values it ends with there.         *)
IsReach(m, i, e) ==
  /\ m \in i .. Count
  /\ \A k \in i + 1 .. m : Depth(k) > e
  /\ m < Count => Depth(m + 1) <= e

Reach(i, e) == CHOOSE m : IsReach(m, i, e)

After(P, m, e) ==
  IF m = Count /\ e < 0 THEN [offset |-> NOTFOUND, depth |-> - e - 1]
  ELSE [offset |-> 1 + (P[m + 1] - Up(m) + (Depth(m) - e)), depth |-> -1]

Trail(P, i, e) ==
  LET n == Reach(i, e) - i + 1
  IN  [k \in 1 .. n + 1 |-> IF k <= n THEN State(P, i + k - 1, e) ELSE After(P, Reach(i, e), e)]

Goes(i, e) == i < Count /\ Depth(i + 1) > e

LEMMA NextState ==
  ASSUME FromFile, NEW P, Layout(P), NEW i \in 1 .. Count, NEW e \in Int, e <= Depth(i)
  PROVE  fdt_next_node(P[i], Depth(i) - e) = IF Goes(i, e) THEN State(P, i + 1, e) ELSE After(P, i, e)
<1> DEFINE d == Depth(i) - e
           u == Up(i)
           off == 1 + (P[i + 1] - u + d)
<1>1. Count \in Nat /\ Depth(i) \in Nat /\ u \in Nat
  BY TreeFact
<1>2. i < Count => Depth(i + 1) \in Nat /\ u = Depth(i) - Depth(i + 1) + 1
  <2>1. i < Count => i + 1 \in 1 .. Count /\ i # Count
    BY <1>1
  <2>2. \A k \in 1 .. Count : Depth(k) \in Nat
    BY TreeFact
  <2> QED BY <2>1, <2>2, Zenon DEF Up
<1>3. i = Count => u = Depth(i) + 1
  BY DEF Up
<1>4. d \in Nat
  BY <1>1
<1>5. fdt_next_node(P[i], d) =
        IF d < u THEN [offset |-> off, depth |-> -1]
        ELSE IF i = Count THEN [offset |-> NOTFOUND, depth |-> d - u]
        ELSE [offset |-> P[i + 1], depth |-> d - u + 1]
  BY <1>4, NextNode, Zenon
<1> HIDE DEF u
<1>6. CASE Goes(i, e)
  <2>1. ~(d < u) /\ i # Count /\ d - u + 1 = Depth(i + 1) - e
    BY <1>1, <1>2, <1>6 DEF Goes
  <2> HIDE DEF d
  <2>2. fdt_next_node(P[i], d) = [offset |-> P[i + 1], depth |-> Depth(i + 1) - e]
    BY <1>5, <2>1, Zenon
  <2> QED BY <1>6, <2>2, Zenon DEF State, d
<1>7. CASE ~Goes(i, e) /\ i < Count
  <2>1. d < u /\ i # Count
    BY <1>1, <1>2, <1>7 DEF Goes
  <2>2. fdt_next_node(P[i], d) = [offset |-> off, depth |-> -1]
    BY <1>5, <2>1, Zenon
  <2> QED BY <1>7, <2>1, <2>2, Zenon DEF After, u
<1>8. CASE i = Count /\ e < 0
  <2>1. ~(d < u) /\ d - u = - e - 1 /\ ~Goes(i, e)
    BY <1>1, <1>3, <1>8 DEF Goes
  <2> HIDE DEF d
  <2>2. fdt_next_node(P[i], d) = [offset |-> NOTFOUND, depth |-> - e - 1]
    BY <1>5, <1>8, <2>1, Zenon
  <2> QED BY <1>8, <2>1, <2>2, Zenon DEF After, d
<1>9. CASE i = Count /\ ~(e < 0)
  <2>1. d < u /\ ~Goes(i, e)
    BY <1>1, <1>3, <1>9 DEF Goes
  <2>2. fdt_next_node(P[i], d) = [offset |-> off, depth |-> -1]
    BY <1>5, <2>1, Zenon
  <2> QED BY <1>9, <2>1, <2>2, Zenon DEF After, u
<1> QED BY <1>1, <1>6, <1>7, <1>8, <1>9

LEMMA ReachFact ==
  ASSUME FromFile, NEW i \in 1 .. Count, NEW e \in Int
  PROVE  /\ IsReach(Reach(i, e), i, e)
         /\ \A m : IsReach(m, i, e) => m = Reach(i, e)
<1>1. Count \in Nat /\ \A k \in 1 .. Count : Depth(k) \in Nat
  BY TreeFact
<1> DEFINE S == {m \in 0 .. Count : m >= i /\ \A k \in i + 1 .. m : Depth(k) > e}
<1>2. i \in S
  BY <1>1
<1>3. PICK m \in S : \A k \in S : k <= m
  <2>1. S # {} /\ S \subseteq 0 .. Count
    BY <1>2
  <2> HIDE DEF S
  <2> QED BY <1>1, <2>1, GreatestNatural
<1>4. ASSUME m < Count PROVE Depth(m + 1) <= e
  <2>1. SUFFICES ASSUME ~(Depth(m + 1) <= e) PROVE FALSE
    OBVIOUS
  <2>2. m + 1 \in 1 .. Count
    BY <1>1, <1>4
  <2>3. Depth(m + 1) > e
    BY <1>1, <2>1, <2>2
  <2>4. \A k \in i + 1 .. m + 1 : k = m + 1 \/ k \in i + 1 .. m
    BY <1>1
  <2>5. m + 1 \in S
    BY <1>1, <2>2, <2>3, <2>4
  <2> HIDE DEF S
  <2>6. m + 1 <= m
    BY <1>3, <2>5
  <2>7. m \in Int
    BY DEF S
  <2> QED BY <2>6, <2>7
<1>5. IsReach(m, i, e)
  BY <1>1, <1>4 DEF IsReach
<1>6. ASSUME NEW a, NEW b, IsReach(a, i, e), IsReach(b, i, e), a < b PROVE FALSE
  <2>1. a \in i .. Count /\ b \in i .. Count
    BY <1>6 DEF IsReach
  <2>2. a < Count /\ a + 1 \in i + 1 .. b /\ a + 1 \in 1 .. Count
    BY <1>1, <1>6, <2>1
  <2>3. Depth(a + 1) > e /\ Depth(a + 1) <= e
    BY <1>6, <2>2 DEF IsReach
  <2>4. Depth(a + 1) \in Nat
    BY <1>1, <2>2
  <2> QED BY <2>3, <2>4
<1>7. ASSUME NEW a, NEW b, IsReach(a, i, e), IsReach(b, i, e) PROVE a = b
  <2>1. a \in i .. Count /\ b \in i .. Count
    BY <1>7 DEF IsReach
  <2>2. ~(a < b) /\ ~(b < a)
    BY <1>6, <1>7
  <2> QED BY <1>1, <2>1, <2>2
<1>8. IsReach(Reach(i, e), i, e)
  BY <1>5, Zenon DEF Reach
<1> QED BY <1>7, <1>8

LEMMA ReachStep ==
  ASSUME FromFile, NEW i \in 1 .. Count, NEW e \in Int
  PROVE  /\ Reach(i, e) \in i .. Count /\ Reach(i, e) \in Nat
         /\ Goes(i, e) => Reach(i, e) = Reach(i + 1, e)
         /\ ~Goes(i, e) => Reach(i, e) = i
<1>1. Count \in Nat /\ \A k \in 1 .. Count : Depth(k) \in Nat
  BY TreeFact
<1>2. Reach(i, e) \in i .. Count
  BY ReachFact DEF IsReach
<1>3. ASSUME ~Goes(i, e) PROVE Reach(i, e) = i
  <2>1. i \in i .. Count /\ \A k \in i + 1 .. i : Depth(k) > e
    BY <1>1
  <2>2. i < Count => Depth(i + 1) <= e
    <3>1. i < Count => i + 1 \in 1 .. Count
      BY <1>1
    <3>2. i < Count => Depth(i + 1) \in Nat /\ ~(Depth(i + 1) > e)
      BY <1>1, <1>3, <3>1 DEF Goes
    <3> QED BY <3>2
  <2> QED BY <2>1, <2>2, ReachFact, Zenon DEF IsReach
<1>4. ASSUME Goes(i, e) PROVE Reach(i, e) = Reach(i + 1, e)
  <2> DEFINE m == Reach(i + 1, e)
  <2>1. i + 1 \in 1 .. Count /\ Depth(i + 1) > e
    BY <1>1, <1>4 DEF Goes
  <2>2. /\ m \in i + 1 .. Count
        /\ \A k \in (i + 1) + 1 .. m : Depth(k) > e
        /\ m < Count => Depth(m + 1) <= e
    BY <2>1, ReachFact, Zenon DEF IsReach
  <2> HIDE DEF m
  <2>3. \A k \in i + 1 .. m : k = i + 1 \/ k \in (i + 1) + 1 .. m
    BY <1>1, <2>1, <2>2
  <2>4. m \in i .. Count /\ \A k \in i + 1 .. m : Depth(k) > e
    BY <2>1, <2>2, <2>3
  <2>5. IsReach(m, i, e)
    BY <2>2, <2>4, Zenon DEF IsReach
  <2> QED BY <2>5, ReachFact DEF m
<1>5. Reach(i, e) \in Nat
  BY <1>1, <1>2
<1> QED BY <1>2, <1>3, <1>4, <1>5

LEMMA Consed ==
  ASSUME NEW S, NEW s \in S, NEW t \in Seq(S)
  PROVE  /\ <<s>> \o t \in Seq(S) /\ Len(<<s>> \o t) = 1 + Len(t) /\ Len(t) \in Nat
         /\ <<s>> \o t = [k \in 1 .. 1 + Len(t) |-> IF k = 1 THEN s ELSE t[k - 1]]
  OBVIOUS

LEMMA Coupled ==
  ASSUME NEW S, NEW s \in S, NEW a \in S
  PROVE  <<s>> \o <<a>> = [k \in 1 .. 1 + 1 |-> IF k = 1 THEN s ELSE a]
<1> DEFINE t == <<a>>
<1>1. t \in Seq(S) /\ Len(t) = 1 /\ t[1] = a
  OBVIOUS
<1> HIDE DEF t
<1> DEFINE x == <<s>> \o t
<1>2. x = [k \in 1 .. 1 + Len(t) |-> IF k = 1 THEN s ELSE t[k - 1]]
  <2>1. t \in Seq(S)
    BY <1>1
  <2> QED BY <2>1, Consed
<1> HIDE DEF x
<1>3. \A k \in 1 .. 1 + 1 : k # 1 => k - 1 = 1
  OBVIOUS
<1>4. [k \in 1 .. 1 + 1 |-> IF k = 1 THEN s ELSE t[k - 1]] = [k \in 1 .. 1 + 1 |-> IF k = 1 THEN s ELSE a]
  BY <1>1, <1>3, Zenon
<1>5. x = [k \in 1 .. 1 + 1 |-> IF k = 1 THEN s ELSE a]
  BY <1>1, <1>2, <1>4, Zenon
<1> QED BY <1>5 DEF t, x

LEMMA TrailStep ==
  ASSUME FromFile, NEW P, Layout(P), NEW i \in 1 .. Count, NEW e \in Int
  PROVE  /\ Trail(P, i, e) \in Seq(States) /\ Len(Trail(P, i, e)) = Reach(i, e) - i + 2
         /\ State(P, i, e) \in States /\ After(P, i, e) \in States
         /\ Goes(i, e) => Trail(P, i, e) = <<State(P, i, e)>> \o Trail(P, i + 1, e)
         /\ ~Goes(i, e) => Trail(P, i, e) = <<State(P, i, e)>> \o <<After(P, i, e)>>
<1>1. Count \in Nat /\ \A k \in 1 .. Count : Depth(k) \in Nat /\ Up(k) \in Nat
  BY TreeFact
<1>2. \A k \in 1 .. Count + 1 : P[k] \in Nat
  BY PlaceFact
<1>3. ASSUME NEW k \in 1 .. Count PROVE State(P, k, e) \in States
  <2>1. P[k] \in Nat /\ Depth(k) \in Nat
    BY <1>1, <1>2
  <2> QED BY <2>1 DEF State, States
<1>4. ASSUME NEW k \in 1 .. Count PROVE After(P, k, e) \in States
  <2> DEFINE off == 1 + (P[k + 1] - Up(k) + (Depth(k) - e))
  <2>1. k + 1 \in 1 .. Count + 1
    BY <1>1
  <2>2. P[k + 1] \in Nat /\ Depth(k) \in Nat /\ Up(k) \in Nat
    BY <1>1, <1>2, <2>1
  <2>3. off \in Int
    BY <2>2
  <2> HIDE DEF off
  <2>4. [offset |-> off, depth |-> -1] \in States /\ [offset |-> NOTFOUND, depth |-> - e - 1] \in States
    BY <2>3 DEF States, NOTFOUND
  <2>5. After(P, k, e) = IF k = Count /\ e < 0 THEN [offset |-> NOTFOUND, depth |-> - e - 1]
                         ELSE [offset |-> off, depth |-> -1]
    BY Zenon DEF After, off
  <2> QED BY <2>4, <2>5, Zenon
<1>5. ASSUME NEW j \in 1 .. Count
      PROVE  LET n == Reach(j, e) - j + 1
             IN  /\ n \in Nat /\ n > 0
                 /\ Trail(P, j, e) \in [1 .. n + 1 -> States]
                 /\ Trail(P, j, e) \in Seq(States) /\ Len(Trail(P, j, e)) = n + 1
  <2> DEFINE r == Reach(j, e)
             n == r - j + 1
             t == Trail(P, j, e)
  <2>1. r \in j .. Count /\ r \in 1 .. Count
    BY ReachStep, <1>1
  <2>2. n \in Nat /\ n > 0
    BY <2>1
  <2>3. t = [k \in 1 .. n + 1 |-> IF k <= n THEN State(P, j + k - 1, e) ELSE After(P, r, e)]
    BY Zenon DEF Trail
  <2>4. ASSUME NEW k \in 1 .. n + 1
        PROVE  (IF k <= n THEN State(P, j + k - 1, e) ELSE After(P, r, e)) \in States
    <3>1. k <= n => j + k - 1 \in 1 .. Count
      BY <1>1, <2>1
    <3> QED BY <2>1, <3>1, <1>3, <1>4, Zenon
  <2> HIDE DEF n, r, t
  <2>5. t \in [1 .. n + 1 -> States]
    BY <2>3, <2>4
  <2>6. t \in Seq(States) /\ Len(t) = n + 1
    BY <2>2, <2>5
  <2> QED BY <2>2, <2>5, <2>6 DEF n, r, t
<1>6. ASSUME Goes(i, e) PROVE Trail(P, i, e) = <<State(P, i, e)>> \o Trail(P, i + 1, e)
  <2> DEFINE r == Reach(i, e)
             n == r - i + 1
             t == Trail(P, i + 1, e)
             s == State(P, i, e)
             x == <<s>> \o t
  <2>1. i + 1 \in 1 .. Count
    BY <1>1, <1>6 DEF Goes
  <2>2. Reach(i + 1, e) = r /\ r \in i .. Count /\ r \in i + 1 .. Count
    BY <1>6, <2>1, ReachStep, Zenon
  <2>3. n \in Nat /\ n > 1 /\ r - (i + 1) + 1 = n - 1
    BY <2>2
  <2>4. t \in Seq(States) /\ Len(t) = n
    <3>1. t \in Seq(States) /\ Len(t) = (Reach(i + 1, e) - (i + 1) + 1) + 1
      BY <1>5, <2>1, Zenon
    <3> HIDE DEF t, n, r
    <3> QED BY <3>1, <2>2, <2>3
  <2>5. x = [k \in 1 .. 1 + n |-> IF k = 1 THEN s ELSE t[k - 1]]
    <3>1. s \in States
      BY <1>3
    <3> HIDE DEF t, s, n
    <3> QED BY <2>4, <3>1, Consed
  <2>6. t = [k \in 1 .. n |-> IF k <= n - 1 THEN State(P, (i + 1) + k - 1, e) ELSE After(P, r, e)]
    <3>1. t = [k \in 1 .. (r - (i + 1) + 1) + 1 |->
                 IF k <= r - (i + 1) + 1 THEN State(P, (i + 1) + k - 1, e) ELSE After(P, r, e)]
      BY <2>2, Zenon DEF Trail
    <3>2. (n - 1) + 1 = n
      BY <2>3
    <3> HIDE DEF t, n, r
    <3> QED BY <3>1, <3>2, <2>3, Zenon
  <2>7. Trail(P, i, e) = [k \in 1 .. n + 1 |-> IF k <= n THEN State(P, i + k - 1, e) ELSE After(P, r, e)]
    BY Zenon DEF Trail
  <2>8. ASSUME NEW k \in 1 .. n + 1
        PROVE  (IF k = 1 THEN s ELSE t[k - 1]) = IF k <= n THEN State(P, i + k - 1, e) ELSE After(P, r, e)
    <3>1. CASE k = 1
      <4>1. k <= n /\ i + k - 1 = i
        BY <2>3, <3>1
      <4> QED BY <3>1, <4>1, Zenon
    <3>2. CASE k # 1
      <4>1. k - 1 \in 1 .. n /\ (k - 1 <= n - 1 <=> k <= n) /\ (i + 1) + (k - 1) - 1 = i + k - 1
        BY <2>3, <3>2
      <4> HIDE DEF t, n, r
      <4>2. t[k - 1] = IF k - 1 <= n - 1 THEN State(P, (i + 1) + (k - 1) - 1, e) ELSE After(P, r, e)
        BY <4>1, <2>6, Zenon
      <4> QED BY <3>2, <4>1, <4>2, Zenon
    <3> QED BY <3>1, <3>2
  <2>9. 1 + n = n + 1
    BY <2>3
  <2> HIDE DEF t, n, r, s, x
  <2>10. x = Trail(P, i, e)
    BY <2>5, <2>7, <2>8, <2>9, Zenon
  <2> QED BY <2>10 DEF x, s, t
<1>7. ASSUME ~Goes(i, e) PROVE Trail(P, i, e) = <<State(P, i, e)>> \o <<After(P, i, e)>>
  <2> DEFINE s == State(P, i, e)
             a == After(P, i, e)
  <2>1. Reach(i, e) = i
    BY <1>7, ReachStep
  <2>2. s \in States /\ a \in States
    BY <1>3, <1>4
  <2>3. i - i + 1 = 1 /\ i + 1 - 1 = i
    OBVIOUS
  <2>4. Trail(P, i, e) = [k \in 1 .. 1 + 1 |-> IF k <= 1 THEN State(P, i + k - 1, e) ELSE a]
    BY <2>1, <2>3, Zenon DEF Trail
  <2>5. \A k \in 1 .. 1 + 1 : (IF k <= 1 THEN State(P, i + k - 1, e) ELSE a) = IF k = 1 THEN s ELSE a
    <3>1. \A k \in 1 .. 1 + 1 : k <= 1 <=> k = 1
      OBVIOUS
    <3> QED BY <3>1, <2>3, Zenon
  <2>6. Trail(P, i, e) = [k \in 1 .. 1 + 1 |-> IF k = 1 THEN s ELSE a]
    BY <2>4, <2>5, Zenon
  <2> HIDE DEF s, a
  <2>7. <<s>> \o <<a>> = [k \in 1 .. 1 + 1 |-> IF k = 1 THEN s ELSE a]
    BY <2>2, Coupled
  <2> QED BY <2>6, <2>7 DEF s, a
<1>8. Len(Trail(P, i, e)) = Reach(i, e) - i + 2
  <2>1. Len(Trail(P, i, e)) = (Reach(i, e) - i + 1) + 1
    BY <1>5, Zenon
  <2>2. Reach(i, e) \in Nat
    BY ReachStep
  <2> QED BY <2>1, <2>2
<1> QED BY <1>3, <1>4, <1>5, <1>6, <1>7, <1>8, Zenon

Done(s) == s.offset < 0 \/ s.depth < 0

IsWalk(f) ==
  f = [s \in States |-> IF Done(s) THEN <<s>> ELSE <<s>> \o f[fdt_next_node(s.offset, s.depth)]]

LEMMA AfterFact ==
  ASSUME FromFile, NEW P, Layout(P), NEW i \in 1 .. Count, NEW e \in Int
  PROVE  Done(After(P, i, e)) /\ After(P, i, e) \in States
<1>1. CASE i = Count /\ e < 0
  <2>1. After(P, i, e) = [offset |-> NOTFOUND, depth |-> - e - 1]
    BY <1>1, Zenon DEF After
  <2>2. Done([offset |-> NOTFOUND, depth |-> - e - 1])
    BY DEF Done, NOTFOUND
  <2> QED BY <2>1, <2>2, TrailStep, Zenon
<1>2. CASE ~(i = Count /\ e < 0)
  <2> DEFINE off == 1 + (P[i + 1] - Up(i) + (Depth(i) - e))
  <2>1. After(P, i, e) = [offset |-> off, depth |-> -1]
    BY <1>2, Zenon DEF After
  <2> HIDE DEF off
  <2>2. Done([offset |-> off, depth |-> -1])
    BY DEF Done
  <2> QED BY <2>1, <2>2, TrailStep, Zenon
<1> QED BY <1>1, <1>2

LEMMA StateFact ==
  ASSUME FromFile, NEW P, Layout(P), NEW i \in 1 .. Count, NEW e \in Int, e <= Depth(i)
  PROVE  /\ State(P, i, e) \in States /\ ~Done(State(P, i, e))
         /\ State(P, i, e).offset = P[i] /\ State(P, i, e).depth = Depth(i) - e
<1>1. P[i] \in Nat /\ Depth(i) \in Nat
  BY SegmentFact, TreeFact, Zenon
<1>2. State(P, i, e).offset = P[i] /\ State(P, i, e).depth = Depth(i) - e
  BY DEF State
<1>3. ~(P[i] < 0) /\ ~(Depth(i) - e < 0)
  BY <1>1
<1>4. ~Done(State(P, i, e))
  BY <1>2, <1>3, Zenon DEF Done
<1> QED BY <1>2, <1>4, TrailStep, Zenon

LEMMA WalkTrail ==
  ASSUME FromFile, NEW P, Layout(P), NEW f, IsWalk(f)
  PROVE  \A i \in 1 .. Count : \A e \in Int : e <= Depth(i) => f[State(P, i, e)] = Trail(P, i, e)
<1>1. Count \in Nat /\ \A k \in 1 .. Count : Depth(k) \in Nat
  BY TreeFact
<1>2. \A s \in States : Done(s) => f[s] = <<s>>
  BY Zenon DEF IsWalk
<1>3. \A s \in States : ~Done(s) => f[s] = <<s>> \o f[fdt_next_node(s.offset, s.depth)]
  BY Zenon DEF IsWalk
<1>4. ASSUME NEW i \in 1 .. Count, NEW e \in Int, e <= Depth(i),
             Goes(i, e) => f[State(P, i + 1, e)] = Trail(P, i + 1, e)
      PROVE  f[State(P, i, e)] = Trail(P, i, e)
  <2> DEFINE s == State(P, i, e)
             t == Trail(P, i + 1, e)
             a == After(P, i, e)
  <2>1. s \in States /\ ~Done(s) /\ s.offset = P[i] /\ s.depth = Depth(i) - e
    BY <1>4, StateFact, Zenon
  <2>2. f[s] = <<s>> \o f[fdt_next_node(P[i], Depth(i) - e)]
    BY <2>1, <1>3, Zenon
  <2>3. fdt_next_node(P[i], Depth(i) - e) = IF Goes(i, e) THEN State(P, i + 1, e) ELSE a
    BY <1>4, NextState, Zenon
  <2>4. Trail(P, i, e) = IF Goes(i, e) THEN <<s>> \o t ELSE <<s>> \o <<a>>
    BY TrailStep, Zenon
  <2>5. f[a] = <<a>>
    BY <1>2, AfterFact, Zenon
  <2> HIDE DEF s, t, a
  <2>6. CASE Goes(i, e)
    <3>1. f[fdt_next_node(P[i], Depth(i) - e)] = t
      BY <1>4, <2>3, <2>6, Zenon DEF t
    <3> QED BY <2>2, <2>4, <2>6, <3>1, Zenon DEF s
  <2>7. CASE ~Goes(i, e)
    <3>1. f[fdt_next_node(P[i], Depth(i) - e)] = <<a>>
      BY <2>3, <2>5, <2>7, Zenon
    <3> QED BY <2>2, <2>4, <2>7, <3>1, Zenon DEF s
  <2> QED BY <2>6, <2>7
<1> DEFINE T == {n \in Nat : \A i \in 1 .. Count : Count - i = n =>
                               \A e \in Int : e <= Depth(i) => f[State(P, i, e)] = Trail(P, i, e)}
<1>5. 0 \in T
  <2>1. ASSUME NEW i \in 1 .. Count, Count - i = 0, NEW e \in Int, e <= Depth(i)
        PROVE  f[State(P, i, e)] = Trail(P, i, e)
    <3>1. ~Goes(i, e)
      BY <1>1, <2>1 DEF Goes
    <3> QED BY <2>1, <3>1, <1>4
  <2> QED BY <2>1
<1>6. ASSUME NEW n \in Nat, n \in T PROVE n + 1 \in T
  <2>1. ASSUME NEW i \in 1 .. Count, Count - i = n + 1, NEW e \in Int, e <= Depth(i)
        PROVE  f[State(P, i, e)] = Trail(P, i, e)
    <3>1. i + 1 \in 1 .. Count /\ Count - (i + 1) = n
      BY <1>1, <2>1
    <3>2. Goes(i, e) => e <= Depth(i + 1)
      <4>1. Depth(i + 1) \in Nat
        BY <1>1, <3>1
      <4> QED BY <4>1 DEF Goes
    <3>3. Goes(i, e) => f[State(P, i + 1, e)] = Trail(P, i + 1, e)
      BY <1>6, <3>1, <3>2, Zenon
    <3> QED BY <2>1, <3>3, <1>4
  <2> QED BY <2>1
<1> HIDE DEF T
<1>7. Nat \subseteq T
  BY <1>5, <1>6, SetInduction
<1>8. ASSUME NEW i \in 1 .. Count, NEW e \in Int, e <= Depth(i)
      PROVE  f[State(P, i, e)] = Trail(P, i, e)
  <2>1. Count - i \in T
    BY <1>1, <1>7
  <2> QED BY <2>1, <1>8, Zenon DEF T
<1> QED BY <1>8

LEMMA WalkExists ==
  ASSUME FromFile, NEW P, Layout(P)
  PROVE  \E f : IsWalk(f)
<1> DEFINE index(o) == CHOOSE i \in 1 .. Count : P[i] = o
           bad(s) == [offset |-> BADOFFSET, depth |-> s.depth]
           g == [s \in States |->
                   IF Done(s) THEN <<s>>
                   ELSE IF ~IsNode(s.offset) THEN <<s>> \o <<bad(s)>>
                   ELSE Trail(P, index(s.offset), Depth(index(s.offset)) - s.depth)]
<1>1. Count \in Nat /\ \A k \in 1 .. Count : Depth(k) \in Nat
  BY TreeFact
<1>2. ASSUME NEW i \in 1 .. Count PROVE index(P[i]) = i
  <2>1. ASSUME NEW j \in 1 .. Count, P[j] = P[i] PROVE j = i
    <3>1. i \in 1 .. Count + 1 /\ j \in 1 .. Count + 1
      BY <1>1
    <3>2. P[i] \in Nat /\ (j < i => P[j] < P[i]) /\ (i < j => P[i] < P[j])
      BY <3>1, PlaceFact, Zenon
    <3>3. ~(j < i) /\ ~(i < j)
      BY <2>1, <3>2
    <3> QED BY <3>3
  <2> QED BY <2>1, Zenon
<1> HIDE DEF index
<1>3. ASSUME NEW s \in States PROVE bad(s) \in States /\ Done(bad(s))
  <2>1. s.depth \in Int
    BY DEF States
  <2> QED BY <2>1 DEF States, Done, BADOFFSET
<1>4. \A s \in States : Done(s) => g[s] = <<s>>
  BY Zenon
<1>5. ASSUME NEW i \in 1 .. Count, NEW e \in Int, e <= Depth(i)
      PROVE  g[State(P, i, e)] = Trail(P, i, e)
  <2> DEFINE s == State(P, i, e)
  <2>1. s \in States /\ ~Done(s) /\ s.offset = P[i] /\ s.depth = Depth(i) - e
    BY <1>5, StateFact, Zenon
  <2>2. IsNode(P[i])
    BY NodesFact
  <2>3. Depth(i) - (Depth(i) - e) = e
    BY <1>1
  <2> HIDE DEF s
  <2>4. g[s] = Trail(P, index(s.offset), Depth(index(s.offset)) - s.depth)
    BY <2>1, <2>2, Zenon
  <2>5. g[s] = Trail(P, i, e)
    BY <2>1, <2>3, <2>4, <1>2, Zenon
  <2> QED BY <2>5 DEF s
<1>6. \A s \in States : ~Done(s) /\ ~IsNode(s.offset) => g[s] = <<s>> \o <<bad(s)>>
  BY Zenon
<1> HIDE DEF g
<1>7. ASSUME NEW s \in States, ~Done(s)
      PROVE  g[s] = <<s>> \o g[fdt_next_node(s.offset, s.depth)]
  <2>1. s.offset \in Int /\ s.depth \in Int
    BY DEF States
  <2>2. s.offset \in Nat /\ s.depth \in Nat
    BY <2>1, <1>7 DEF Done
  <2>3. CASE ~IsNode(s.offset)
    <3>1. fdt_next_node(s.offset, s.depth) = bad(s)
      BY <2>2, <2>3, NotANode
    <3>2. g[bad(s)] = <<bad(s)>>
      BY <1>3, <1>4, Zenon
    <3> HIDE DEF bad
    <3> QED BY <1>6, <1>7, <2>3, <3>1, <3>2, Zenon
  <2>4. CASE IsNode(s.offset)
    <3>1. PICK i \in 1 .. Count : s.offset = P[i]
      BY <2>4, NodesFact
    <3> DEFINE e == Depth(i) - s.depth
               t == Trail(P, i + 1, e)
               a == After(P, i, e)
    <3>2. Depth(i) \in Nat
      BY <1>1
    <3>3. e \in Int /\ e <= Depth(i) /\ Depth(i) - e = s.depth
      BY <2>2, <3>2
    <3> HIDE DEF e
    <3>4. s = State(P, i, e)
      <4>1. s = [offset |-> s.offset, depth |-> s.depth]
        BY DEF States
      <4> QED BY <3>1, <3>3, <4>1, Zenon DEF State
    <3>5. g[s] = Trail(P, i, e)
      BY <1>5, <3>3, <3>4, Zenon
    <3>6. fdt_next_node(s.offset, s.depth) = IF Goes(i, e) THEN State(P, i + 1, e) ELSE a
      <4>1. fdt_next_node(P[i], Depth(i) - e) = IF Goes(i, e) THEN State(P, i + 1, e) ELSE a
        BY <3>3, NextState, Zenon
      <4> QED BY <3>1, <3>3, <4>1, Zenon
    <3>7. Trail(P, i, e) = IF Goes(i, e) THEN <<State(P, i, e)>> \o t ELSE <<State(P, i, e)>> \o <<a>>
      BY <3>3, TrailStep, Zenon
    <3>8. g[a] = <<a>>
      BY <1>4, <3>3, AfterFact, Zenon
    <3>9. Goes(i, e) => g[State(P, i + 1, e)] = t
      <4>1. SUFFICES ASSUME Goes(i, e) PROVE g[State(P, i + 1, e)] = t
        OBVIOUS
      <4>2. i + 1 \in 1 .. Count /\ Depth(i + 1) > e
        BY <1>1, <4>1 DEF Goes
      <4>3. e <= Depth(i + 1)
        <5>1. Depth(i + 1) \in Nat
          BY <1>1, <4>2
        <5> QED BY <4>2, <3>3, <5>1
      <4> QED BY <4>2, <4>3, <3>3, <1>5, Zenon
    <3> HIDE DEF t, a
    <3>10. CASE Goes(i, e)
      <4>1. g[fdt_next_node(s.offset, s.depth)] = t
        BY <3>6, <3>9, <3>10, Zenon
      <4> QED BY <3>4, <3>5, <3>7, <3>10, <4>1, Zenon
    <3>11. CASE ~Goes(i, e)
      <4>1. g[fdt_next_node(s.offset, s.depth)] = <<a>>
        BY <3>6, <3>8, <3>11, Zenon
      <4> QED BY <3>4, <3>5, <3>7, <3>11, <4>1, Zenon
    <3> QED BY <3>10, <3>11
  <2> QED BY <2>3, <2>4
<1>8. \A s \in States : g[s] = IF Done(s) THEN <<s>> ELSE <<s>> \o g[fdt_next_node(s.offset, s.depth)]
  BY <1>4, <1>7, Zenon
<1>9. g = [s \in States |-> g[s]]
  BY Zenon DEF g
<1>10. IsWalk(g)
  BY <1>8, <1>9, Zenon DEF IsWalk
<1> QED BY <1>10

LEMMA WalkFact ==
  ASSUME FromFile, NEW P, Layout(P), NEW i \in 1 .. Count, NEW e \in Int, e <= Depth(i)
  PROVE  Walk(P[i], Depth(i) - e) = Trail(P, i, e)
<1> DEFINE f == CHOOSE f : IsWalk(f)
<1>1. IsWalk(f)
  BY WalkExists
<1>2. f[State(P, i, e)] = Trail(P, i, e)
  <2> HIDE DEF f
  <2> QED BY <1>1, WalkTrail, Zenon
<1>3. Walk(P[i], Depth(i) - e) = f[State(P, i, e)]
  BY Zenon DEF Walk, IsWalk, Done, States, State
<1> QED BY <1>2, <1>3

TrailIs(P, i, e) ==
  LET n == Reach(i, e) - i + 1
      w == Trail(P, i, e)
  IN  /\ n \in Nat /\ n > 0 /\ Len(w) = n + 1 /\ DOMAIN w = 1 .. n + 1 /\ w \in Seq(States)
      /\ \A k \in 1 .. n : /\ w[k] = State(P, i + k - 1, e) /\ i + k - 1 \in i .. Reach(i, e)
                           /\ w[k].offset = P[i + k - 1]
                           /\ w[k].depth = Depth(i + k - 1) - e
      /\ w[n + 1] = After(P, Reach(i, e), e) /\ Last(w) = After(P, Reach(i, e), e)

LEMMA TrailAt ==
  ASSUME FromFile, NEW P, Layout(P), NEW i \in 1 .. Count, NEW e \in Int
  PROVE  TrailIs(P, i, e)
<1> DEFINE r == Reach(i, e)
           n == r - i + 1
           w == Trail(P, i, e)
<1>1. Count \in Nat
  BY TreeFact
<1>2. r \in i .. Count
  BY ReachStep
<1>3. n \in Nat /\ n > 0
  BY <1>1, <1>2
<1>4. w \in Seq(States) /\ Len(w) = r - i + 2
  BY TrailStep, Zenon
<1>5. w = [k \in 1 .. n + 1 |-> IF k <= n THEN State(P, i + k - 1, e) ELSE After(P, r, e)]
  BY Zenon DEF Trail
<1> HIDE DEF r, n, w
<1>6. Len(w) = n + 1 /\ DOMAIN w = 1 .. n + 1
  <2>1. Len(w) = n + 1
    BY <1>2, <1>4 DEF n
  <2> QED BY <2>1, <1>5
<1>7. ASSUME NEW k \in 1 .. n
      PROVE  /\ w[k] = State(P, i + k - 1, e) /\ i + k - 1 \in i .. r
             /\ w[k].offset = P[i + k - 1] /\ w[k].depth = Depth(i + k - 1) - e
  <2>1. k \in 1 .. n + 1 /\ k <= n /\ i + k - 1 \in i .. r
    BY <1>2, <1>3 DEF n
  <2>2. w[k] = State(P, i + k - 1, e)
    BY <2>1, <1>5, Zenon
  <2>3. State(P, i + k - 1, e).offset = P[i + k - 1] /\ State(P, i + k - 1, e).depth = Depth(i + k - 1) - e
    BY DEF State
  <2> QED BY <2>1, <2>2, <2>3, Zenon
<1>8. w[n + 1] = After(P, r, e)
  <2>1. n + 1 \in 1 .. n + 1 /\ ~(n + 1 <= n)
    BY <1>3
  <2> QED BY <2>1, <1>5, Zenon
<1>9. Last(w) = After(P, r, e)
  BY <1>6, <1>8, Zenon DEF Last
<1> QED BY <1>3, <1>4, <1>6, <1>7, <1>8, <1>9, Zenon DEF r, n, w, TrailIs

(* What Scan returns for the places of the hits.                           *)
Found(walk, hits) ==
  IF hits # {} THEN walk[Min(hits)].offset
  ELSE IF Last(walk).depth < 0 THEN NOTFOUND ELSE Last(walk).offset

LEMMA AfterLast ==
  ASSUME NEW P, NEW m, NEW e \in Int
  PROVE  (IF After(P, m, e).depth < 0 THEN NOTFOUND ELSE After(P, m, e).offset) = NOTFOUND
<1>1. CASE m = Count /\ e < 0
  <2>1. After(P, m, e) = [offset |-> NOTFOUND, depth |-> - e - 1]
    BY <1>1, Zenon DEF After
  <2> QED BY <2>1
<1>2. CASE ~(m = Count /\ e < 0)
  <2> DEFINE off == 1 + (P[m + 1] - Up(m) + (Depth(m) - e))
  <2>1. After(P, m, e) = [offset |-> off, depth |-> -1]
    BY <1>2, Zenon DEF After
  <2> HIDE DEF off
  <2> QED BY <2>1
<1> QED BY <1>1, <1>2

(* A loop that looks for nodes of H finds the first of them.               *)
HitsAre(P, i, e, hits, H) ==
  /\ H \subseteq i .. Reach(i, e)
  /\ hits = {k \in 1 .. Len(Trail(P, i, e)) - 1 : i + k - 1 \in H}

Finds(P, i, e, hits, H) ==
  Found(Trail(P, i, e), hits) = IF H = {} THEN NOTFOUND ELSE P[Min(H)]

LEMMA FoundFirst ==
  ASSUME FromFile, NEW P, Layout(P), NEW i \in 1 .. Count, NEW e \in Int,
         NEW H, NEW hits, HitsAre(P, i, e, hits, H)
  PROVE  Finds(P, i, e, hits, H)
<1>0. /\ H \subseteq i .. Reach(i, e)
      /\ hits = {k \in 1 .. Len(Trail(P, i, e)) - 1 : i + k - 1 \in H}
  BY Zenon DEF HitsAre
<1> DEFINE r == Reach(i, e)
           n == r - i + 1
           w == Trail(P, i, e)
<1>1. /\ n \in Nat /\ Len(w) = n + 1
      /\ \A k \in 1 .. n : w[k].offset = P[i + k - 1]
      /\ Last(w) = After(P, r, e)
  BY TrailAt, ZenonT(90) DEF TrailIs
<1>2. Count \in Nat /\ r \in i .. Count
  BY TreeFact, ReachStep, Zenon
<1> HIDE DEF r, w
<1>3. hits = {k \in 1 .. n : i + k - 1 \in H}
  BY <1>0, <1>1, <1>2 DEF w
<1>4. CASE H = {}
  <2>1. hits = {}
    BY <1>3, <1>4
  <2> QED BY <1>1, <1>4, <2>1, AfterLast, ZenonT(90) DEF Finds, Found, w
<1>5. CASE H # {}
  <2>1. H \subseteq Nat
    BY <1>0, <1>2 DEF r
  <2>2. Min(H) \in H /\ \A j \in H : Min(H) <= j
    BY <2>1, <1>5, MinFact
  <2> DEFINE k == Min(H) - i + 1
  <2>3. Min(H) \in i .. r /\ k \in 1 .. n /\ i + k - 1 = Min(H)
    <3> DEFINE h == Min(H)
    <3>1. h \in i .. r
      BY <1>0, <2>2 DEF r
    <3> HIDE DEF h
    <3>2. h - i + 1 \in 1 .. r - i + 1 /\ i + (h - i + 1) - 1 = h
      BY <3>1, <1>2
    <3> QED BY <3>1, <3>2 DEF h
  <2>4. k \in hits
    BY <2>2, <2>3, <1>3
  <2>5. \A j \in hits : k <= j
    <3>1. ASSUME NEW j \in hits PROVE k <= j
      <4>1. j \in 1 .. n /\ Min(H) <= i + j - 1
        BY <1>3, <2>2
      <4> QED BY <4>1, <2>3, <1>2
    <3> QED BY <3>1
  <2>6. hits \subseteq Int
    BY <1>3
  <2> HIDE DEF k
  <2>7. Min(hits) = k
    BY <2>4, <2>5, <2>6, MinIs
  <2>8. w[k].offset = P[Min(H)]
    BY <1>1, <2>3, Zenon
  <2> QED BY <1>5, <2>4, <2>7, <2>8, Zenon DEF Finds, Found, w
<1> QED BY <1>4, <1>5

-----------------------------------------------------------------------------
(* The tree behind the block.                                              *)
Kids(i) ==
  {n \in 1 .. Count : i < n /\ Depth(i) = Depth(n) - 1 /\ \A m \in i + 1 .. n - 1 : Depth(m) >= Depth(n)}

LEMMA KidsFact ==
  ASSUME FromFile, NEW i \in 1 .. Count
  PROVE  Kids(i) = {j \in i .. Reach(i, Depth(i)) : Depth(j) - Depth(i) = 1}
<1> DEFINE e == Depth(i)
           r == Reach(i, e)
<1>1. Count \in Nat /\ \A k \in 1 .. Count : Depth(k) \in Nat
  BY TreeFact
<1>2. e \in Int
  BY <1>1
<1>3. /\ r \in i .. Count
      /\ \A k \in i + 1 .. r : Depth(k) > e
      /\ r < Count => Depth(r + 1) <= e
  BY <1>2, ReachFact, Zenon DEF IsReach
<1> HIDE DEF r, e
<1>4. ASSUME NEW n \in Kids(i) PROVE n \in i .. r /\ Depth(n) - e = 1
  <2>1. n \in 1 .. Count /\ i < n /\ e = Depth(n) - 1 /\ \A m \in i + 1 .. n - 1 : Depth(m) >= Depth(n)
    BY DEF Kids, e
  <2>2. Depth(n) \in Nat
    BY <2>1, <1>1
  <2>3. n <= r
    <3>1. SUFFICES ASSUME r < n PROVE FALSE
      BY <1>1, <1>3, <2>1
    <3>2. r < Count /\ r + 1 \in i + 1 .. n /\ r + 1 \in 1 .. Count
      BY <1>1, <1>3, <2>1, <3>1
    <3>3. Depth(r + 1) <= e /\ Depth(r + 1) \in Nat
      BY <1>1, <1>3, <3>2
    <3>4. Depth(r + 1) >= Depth(n)
      <4>1. CASE r + 1 = n
        BY <4>1, <2>2
      <4>2. CASE r + 1 # n
        <5>1. r + 1 \in i + 1 .. n - 1
          BY <3>2, <4>2, <2>1
        <5> QED BY <5>1, <2>1
      <4> QED BY <4>1, <4>2
    <3> QED BY <3>3, <3>4, <2>1, <2>2, <1>2
  <2> QED BY <1>1, <1>3, <2>1, <2>2, <2>3
<1>5. ASSUME NEW n \in i .. r, Depth(n) - e = 1 PROVE n \in Kids(i)
  <2>1. n \in 1 .. Count /\ Depth(n) \in Nat /\ e \in Int
    <3>1. n \in 1 .. Count
      BY <1>1, <1>3
    <3> QED BY <3>1, <1>1, <1>2
  <2>2. i < n
    <3>1. n # i
      BY <1>5, <2>1 DEF e
    <3> QED BY <3>1, <2>1
  <2>3. e = Depth(n) - 1
    BY <1>5, <2>1
  <2>4. ASSUME NEW m \in i + 1 .. n - 1 PROVE Depth(m) >= Depth(n)
    <3>1. m \in i + 1 .. r /\ m \in 1 .. Count
      BY <1>1, <1>3, <2>1
    <3>2. Depth(m) > e /\ Depth(m) \in Nat
      BY <3>1, <1>1, <1>3
    <3> QED BY <3>2, <2>1, <2>3
  <2> QED BY <2>1, <2>2, <2>3, <2>4 DEF Kids, e
<1>6. Kids(i) = {j \in i .. r : Depth(j) - e = 1}
  BY <1>4, <1>5
<1> QED BY <1>6 DEF r, e

TrailNodes(P, i, e) ==
  LET w == Trail(P, i, e)
  IN  /\ \A k \in 1 .. Len(w) - 1 : i + k - 1 \in i .. Reach(i, e) /\ i + k - 1 \in 1 .. Count
      /\ \A k \in 1 .. Len(w) - 1 : w[k].offset = P[i + k - 1] /\ w[k].depth = Depth(i + k - 1) - e

LEMMA ScanFound ==
  ASSUME FromFile, NEW P, Layout(P), NEW i \in 1 .. Count, NEW e \in Int
  PROVE  TrailNodes(P, i, e)
<1> DEFINE w == Trail(P, i, e)
           n == Reach(i, e) - i + 1
<1>1. /\ n \in Nat /\ Len(w) = n + 1
      /\ \A k \in 1 .. n : i + k - 1 \in i .. Reach(i, e)
      /\ \A k \in 1 .. n : w[k].offset = P[i + k - 1] /\ w[k].depth = Depth(i + k - 1) - e
  BY TrailAt, ZenonT(90) DEF TrailIs
<1>2. Count \in Nat /\ Reach(i, e) \in i .. Count
  BY TreeFact, ReachStep, Zenon
<1> HIDE DEF n, w
<1>3. Len(w) - 1 = n
  BY <1>1
<1>4. \A k \in i .. Reach(i, e) : k \in 1 .. Count
  BY <1>2
<1> QED BY <1>1, <1>3, <1>4, Zenon DEF w, TrailNodes

LEMMA SubnodeFact ==
  ASSUME FromFile, NEW P, Layout(P), NEW i \in 1 .. Count
  PROVE  fdt_subnode(P[i]) = IF Kids(i) = {} THEN NOTFOUND ELSE P[Min(Kids(i))]
<1> DEFINE e == Depth(i)
           w == Trail(P, i, e)
           hits == {k \in 1 .. Len(w) - 1 : w[k].depth = 1}
<1>0. e \in Int
  <2>1. e \in Nat
    BY TreeFact
  <2> QED BY <2>1
<1>1. e <= e /\ e - e = 0
  BY <1>0
<1>2. Walk(P[i], 0) = w
  BY <1>0, <1>1, WalkFact, Zenon
<1>3. fdt_subnode(P[i]) = Found(w, hits)
  BY <1>2, Zenon DEF fdt_subnode, Scan, Found
<1>4. /\ \A k \in 1 .. Len(w) - 1 : i + k - 1 \in i .. Reach(i, e)
      /\ \A k \in 1 .. Len(w) - 1 : w[k].depth = Depth(i + k - 1) - e
  <2>1. TrailNodes(P, i, e)
    BY <1>0, ScanFound, Zenon
  <2> QED BY <2>1, Zenon DEF TrailNodes
<1>5. Kids(i) = {j \in i .. Reach(i, e) : Depth(j) - e = 1}
  BY KidsFact
<1>6. hits = {k \in 1 .. Len(w) - 1 : i + k - 1 \in Kids(i)}
  <2> HIDE DEF e, w
  <2> QED BY <1>4, <1>5, Zenon
<1>7. Kids(i) \subseteq i .. Reach(i, e)
  BY <1>5, Zenon
<1> HIDE DEF hits
<1>8. Found(w, hits) = IF Kids(i) = {} THEN NOTFOUND ELSE P[Min(Kids(i))]
  <2>1. HitsAre(P, i, e, hits, Kids(i))
    BY <1>6, <1>7, Zenon DEF HitsAre
  <2>2. Finds(P, i, e, hits, Kids(i))
    BY <1>0, <2>1, FoundFirst, Zenon
  <2> QED BY <2>2, Zenon DEF Finds
<1> QED BY <1>3, <1>8, Zenon

(* The children that a name stands for.                                    *)
Named(i, s) ==
  {j \in Kids(i) : tree.name[j] = s \/ (s.at = "" /\ tree.name[j].base = s.base)}

LEMMA SubnodeOffsetFact ==
  ASSUME FromFile, NEW P, Layout(P), NEW i \in 1 .. Count, NEW s
  PROVE  fdt_subnode_offset(P[i], s) = IF Named(i, s) = {} THEN NOTFOUND ELSE P[Min(Named(i, s))]
<1> DEFINE e == Depth(i)
           w == Trail(P, i, e)
           hits == {k \in 1 .. Len(w) - 1 : w[k].depth = 1 /\ _fdt_nodename_eq(w[k].offset, s)}
<1>0. e \in Int
  <2>1. e \in Nat
    BY TreeFact
  <2> QED BY <2>1
<1>1. e <= e /\ e - e = 0
  BY <1>0
<1>2. Walk(P[i], 0) = w
  BY <1>0, <1>1, WalkFact, Zenon
<1>3. fdt_subnode_offset(P[i], s) = Found(w, hits)
  BY <1>2, Zenon DEF fdt_subnode_offset, Scan, Found
<1>4. /\ \A k \in 1 .. Len(w) - 1 : i + k - 1 \in i .. Reach(i, e) /\ i + k - 1 \in 1 .. Count
      /\ \A k \in 1 .. Len(w) - 1 : w[k].offset = P[i + k - 1] /\ w[k].depth = Depth(i + k - 1) - e
  <2>1. TrailNodes(P, i, e)
    BY <1>0, ScanFound, Zenon
  <2> QED BY <2>1, Zenon DEF TrailNodes
<1>5. Kids(i) = {j \in i .. Reach(i, e) : Depth(j) - e = 1}
  BY KidsFact
<1>6. \A j \in 1 .. Count : At(P[j]).name = tree.name[j]
  BY Zenon DEF Layout
<1>7. \A j \in 1 .. Count : _fdt_nodename_eq(P[j], s) <=> (tree.name[j] = s \/ (s.at = "" /\ tree.name[j].base = s.base))
  BY <1>6, Zenon DEF _fdt_nodename_eq
<1>8. hits = {k \in 1 .. Len(w) - 1 : i + k - 1 \in Named(i, s)}
  <2> HIDE DEF e, w
  <2> QED BY <1>4, <1>5, <1>7, Zenon DEF Named
<1>9. Named(i, s) \subseteq i .. Reach(i, e)
  BY <1>5, Zenon DEF Named
<1> HIDE DEF hits
<1>10. Found(w, hits) = IF Named(i, s) = {} THEN NOTFOUND ELSE P[Min(Named(i, s))]
  <2>1. HitsAre(P, i, e, hits, Named(i, s))
    BY <1>8, <1>9, Zenon DEF HitsAre
  <2>2. Finds(P, i, e, hits, Named(i, s))
    BY <1>0, <2>1, FoundFirst, Zenon
  <2> QED BY <2>2, Zenon DEF Finds
<1> QED BY <1>3, <1>10, Zenon

LEMMA TailConsed ==
  ASSUME NEW S, NEW s \in S, NEW t \in Seq(S)
  PROVE  Tail(<<s>> \o t) = t
  OBVIOUS

(* The siblings after a node.                                              *)
Sibs(i) ==
  {j \in i + 1 .. Count : Depth(j) = Depth(i) /\ \A m \in i + 1 .. j : Depth(m) >= Depth(i)}

LEMMA SiblingFact ==
  ASSUME FromFile, NEW P, Layout(P), NEW i \in 1 .. Count
  PROVE  fdt_sibling(P[i]) = IF Sibs(i) = {} THEN NOTFOUND ELSE P[Min(Sibs(i))]
<1> DEFINE e == Depth(i) - 1
           w == Trail(P, i, e)
           t == Tail(w)
           hits == {k \in 1 .. Len(t) - 1 : t[k].depth = 1}
<1>1. Count \in Nat /\ \A k \in 1 .. Count : Depth(k) \in Nat
  BY TreeFact
<1>0. e \in Int
  BY <1>1
<1>2. e \in Int /\ e <= Depth(i) /\ Depth(i) - e = 1
  BY <1>1
<1>3. Walk(P[i], 1) = w
  BY <1>2, WalkFact, Zenon
<1>4. fdt_sibling(P[i]) = Found(t, hits)
  BY <1>3, Zenon DEF fdt_sibling, Scan, Found
<1> HIDE DEF w, t
<1>5. CASE Goes(i, e)
  <2> DEFINE x == Trail(P, i + 1, e)
  <2>1. i + 1 \in 1 .. Count
    BY <1>1, <1>5 DEF Goes
  <2>2. t = x
    <3>1. w = <<State(P, i, e)>> \o x
      BY <1>2, <1>5, TrailStep, Zenon DEF w
    <3>2. x \in Seq(States) /\ State(P, i, e) \in States
      BY <1>2, <2>1, TrailStep, Zenon
    <3> DEFINE s == State(P, i, e)
    <3> HIDE DEF x, s
    <3>3. Tail(<<s>> \o x) = x
      BY <3>2, TailConsed DEF s
    <3> QED BY <3>1, <3>3 DEF t, s
  <2>3. /\ \A k \in 1 .. Len(x) - 1 : (i + 1) + k - 1 \in i + 1 .. Reach(i + 1, e)
        /\ \A k \in 1 .. Len(x) - 1 : x[k].depth = Depth((i + 1) + k - 1) - e
    <3>1. TrailNodes(P, i + 1, e)
      BY <1>0, <2>1, ScanFound, Zenon
    <3> QED BY <3>1, Zenon DEF TrailNodes
  <2> DEFINE r == Reach(i + 1, e)
  <2>4. /\ r \in i + 1 .. Count
        /\ \A k \in (i + 1) + 1 .. r : Depth(k) > e
        /\ r < Count => Depth(r + 1) <= e
    BY <1>2, <2>1, ReachFact, Zenon DEF IsReach
  <2> HIDE DEF x, r
  <2>5. Sibs(i) = {j \in i + 1 .. r : Depth(j) - e = 1}
    <3>1. ASSUME NEW j \in Sibs(i) PROVE j \in i + 1 .. r /\ Depth(j) - e = 1
      <4>1. j \in i + 1 .. Count /\ Depth(j) = Depth(i) /\ \A m \in i + 1 .. j : Depth(m) >= Depth(i)
        BY DEF Sibs
      <4>2. j <= r
        <5>1. SUFFICES ASSUME r < j PROVE FALSE
          BY <1>1, <2>4, <4>1
        <5>2. r < Count /\ r + 1 \in i + 1 .. j /\ r + 1 \in 1 .. Count
          BY <1>1, <2>4, <4>1, <5>1
        <5>3. Depth(r + 1) <= e /\ Depth(r + 1) >= Depth(i) /\ Depth(r + 1) \in Nat
          BY <1>1, <2>4, <4>1, <5>2
        <5> QED BY <5>3, <1>1
      <4> QED BY <1>1, <1>2, <2>4, <4>1, <4>2
    <3>2. ASSUME NEW j \in i + 1 .. r, Depth(j) - e = 1 PROVE j \in Sibs(i)
      <4>1. j \in i + 1 .. Count /\ j \in 1 .. Count /\ Depth(j) = Depth(i)
        <5>1. j \in i + 1 .. Count /\ j \in 1 .. Count
          BY <1>1, <2>4
        <5> QED BY <5>1, <1>1, <1>2, <3>2
      <4>2. ASSUME NEW m \in i + 1 .. j PROVE Depth(m) >= Depth(i)
        <5>1. m \in 1 .. Count /\ (m = i + 1 \/ m \in (i + 1) + 1 .. r)
          BY <1>1, <2>1, <2>4, <4>1
        <5>2. Depth(m) > e /\ Depth(m) \in Nat
          BY <5>1, <1>1, <1>5, <2>4 DEF Goes
        <5> QED BY <5>2, <1>1
      <4> QED BY <4>1, <4>2 DEF Sibs
    <3> QED BY <3>1, <3>2
  <2>6. hits = {k \in 1 .. Len(x) - 1 : (i + 1) + k - 1 \in Sibs(i)}
    <3> HIDE DEF e
    <3> QED BY <2>2, <2>3, <2>5, Zenon DEF r
  <2>7. Sibs(i) \subseteq i + 1 .. Reach(i + 1, e)
    BY <2>5, Zenon DEF r
  <2> HIDE DEF hits
  <2>8. Found(x, hits) = IF Sibs(i) = {} THEN NOTFOUND ELSE P[Min(Sibs(i))]
    <3>1. HitsAre(P, i + 1, e, hits, Sibs(i))
      BY <2>6, <2>7, Zenon DEF HitsAre, x
    <3>2. Finds(P, i + 1, e, hits, Sibs(i))
      BY <1>0, <2>1, <3>1, FoundFirst, Zenon
    <3> QED BY <3>2, Zenon DEF Finds, x
  <2> QED BY <1>4, <2>2, <2>8, Zenon
<1>6. CASE ~Goes(i, e)
  <2> DEFINE a == After(P, i, e)
             s == State(P, i, e)
  <2>1. w = <<s>> \o <<a>> /\ s \in States /\ a \in States
    BY <1>2, <1>6, TrailStep, Zenon DEF w
  <2> HIDE DEF s
  <2>2. t = <<a>>
    <3> DEFINE x == <<a>>
    <3>1. x \in Seq(States)
      BY <2>1
    <3> HIDE DEF x
    <3>2. Tail(<<s>> \o x) = x
      BY <2>1, <3>1, TailConsed
    <3> QED BY <2>1, <3>2 DEF t, x
  <2>3. Len(t) - 1 = 0 /\ Last(t) = a
    <3> HIDE DEF a
    <3> QED BY <2>2 DEF Last
  <2>4. hits = {}
    <3>1. 1 .. 0 = {}
      OBVIOUS
    <3> QED BY <2>3, <3>1, Zenon
  <2>5. Found(t, hits) = NOTFOUND
    <3>1. (IF a.depth < 0 THEN NOTFOUND ELSE a.offset) = NOTFOUND
      BY <1>0, AfterLast, Zenon
    <3> HIDE DEF a, hits
    <3> QED BY <2>3, <2>4, <3>1, Zenon DEF Found
  <2>6. Sibs(i) = {}
    <3>1. ASSUME NEW j \in Sibs(i) PROVE FALSE
      <4>1. j \in i + 1 .. Count /\ \A m \in i + 1 .. j : Depth(m) >= Depth(i)
        BY DEF Sibs
      <4>2. i < Count /\ i + 1 \in i + 1 .. j /\ i + 1 \in 1 .. Count
        BY <1>1, <4>1
      <4>3. Depth(i + 1) >= Depth(i) /\ Depth(i + 1) \in Nat /\ ~(Depth(i + 1) > e)
        BY <1>1, <1>6, <4>1, <4>2 DEF Goes
      <4> QED BY <4>3, <1>1
    <3> QED BY <3>1
  <2> QED BY <1>4, <2>5, <2>6, Zenon
<1> QED BY <1>5, <1>6

Ps(i) == PropsOf(tree, i)

(* The properties of a node that have a name.                              *)
Keyed(i, name) == {j \in 1 .. Wide(i) : Ps(i)[j].tag = "PROP" /\ Ps(i)[j].name = name}

LEMMA PropertyAtFact ==
  ASSUME FromFile, NEW P, Layout(P), NEW i \in 1 .. Count, NEW name
  PROVE  PropertyAt(P[i], name) = {P[i] + j : j \in Keyed(i, name)}
<1> DEFINE p == P[i]
           q == P[i + 1]
           w == Wide(i)
           u == Up(i)
           l == Len(fdt)
<1>1. /\ p \in Nat /\ q \in Nat /\ u \in Nat /\ w \in Nat /\ w >= 1
      /\ q = p + 1 + w + u /\ q <= l - 1 /\ l \in Nat
      /\ \A o \in p + 1 .. p + w : Tag(o) \in {"PROP", "NOP"}
      /\ \A o \in q - u .. q - 1 : Tag(o) = "END_NODE"
      /\ i = Count => Tag(q) = "END"
      /\ i < Count => Tag(q) = "BEGIN_NODE"
  BY SegmentFact, Zenon
<1>2. i < Count \/ i = Count
  <2>1. Count \in Nat
    BY TreeFact
  <2> QED BY <2>1
<1>3. \A j \in 1 .. w : Tag(p + j) = Ps(i)[j].tag /\ At(p + j) = Ps(i)[j]
  BY Zenon DEF Layout, Ps
<1>4. i = Count => u >= 1
  <2>1. Depth(i) \in Nat
    BY TreeFact
  <2>2. i = Count => Up(i) = Depth(i) + 1
    BY Zenon DEF Up
  <2> QED BY <2>1, <2>2
<1> HIDE DEF p, q, w, u, l
<1>5. Tag(p + w + 1) \in {"BEGIN_NODE", "END_NODE"} /\ p + w + 1 <= l - 1
  <2>1. CASE u = 0
    <3>1. p + w + 1 = q /\ i < Count
      BY <2>1, <1>1, <1>2, <1>4
    <3> QED BY <3>1, <1>1
  <2>2. CASE u # 0
    <3>1. p + w + 1 = q - u /\ q - u \in q - u .. q - 1
      BY <2>2, <1>1
    <3>2. Tag(p + w + 1) = "END_NODE"
      BY <3>1, <1>1
    <3> QED BY <3>1, <3>2, <1>1
  <2> QED BY <2>1, <2>2
<1>6. ASSUME NEW k \in p + 1 .. l - 1, Tag(k) = "PROP", At(k).name = name,
             \A j \in p + 1 .. k : Tag(j) \notin {"BEGIN_NODE", "END_NODE"}
      PROVE  \E j \in Keyed(i, name) : k = p + j
  <2>1. k <= p + w
    <3>1. SUFFICES ASSUME p + w < k PROVE FALSE
      BY <1>1
    <3>2. p + w + 1 \in p + 1 .. k
      BY <1>1, <3>1
    <3> QED BY <3>2, <1>5, <1>6
  <2>2. k - p \in 1 .. w /\ p + (k - p) = k
    BY <2>1, <1>1
  <2>3. k - p \in Keyed(i, name)
    BY <2>2, <1>3, <1>6, Zenon DEF Keyed, w
  <2> QED BY <2>2, <2>3
<1>7. ASSUME NEW j \in Keyed(i, name)
      PROVE  /\ p + j \in p + 1 .. l - 1 /\ Tag(p + j) = "PROP" /\ At(p + j).name = name
             /\ \A k \in p + 1 .. p + j : Tag(k) \notin {"BEGIN_NODE", "END_NODE"}
  <2>1. j \in 1 .. w /\ Ps(i)[j].tag = "PROP" /\ Ps(i)[j].name = name
    BY Zenon DEF Keyed, w
  <2>2. p + j \in p + 1 .. l - 1 /\ p + j <= p + w
    BY <2>1, <1>1
  <2>3. Tag(p + j) = "PROP" /\ At(p + j).name = name
    BY <2>1, <1>3, Zenon
  <2>4. ASSUME NEW k \in p + 1 .. p + j PROVE Tag(k) \notin {"BEGIN_NODE", "END_NODE"}
    <3>1. k \in p + 1 .. p + w
      BY <2>1, <1>1
    <3>2. Tag(k) \in {"PROP", "NOP"}
      BY <3>1, <1>1
    <3> QED BY <3>2
  <2> QED BY <2>2, <2>3, <2>4
<1>8. PropertyAt(p, name) = {k \in p + 1 .. l - 1 :
                               /\ Tag(k) = "PROP" /\ At(k).name = name
                               /\ \A j \in p + 1 .. k : Tag(j) \notin {"BEGIN_NODE", "END_NODE"}}
  BY Zenon DEF PropertyAt, _fdt_string_eq, l
<1>9. PropertyAt(p, name) = {p + j : j \in Keyed(i, name)}
  <2> DEFINE S == {k \in p + 1 .. l - 1 :
                     /\ Tag(k) = "PROP" /\ At(k).name = name
                     /\ \A j \in p + 1 .. k : Tag(j) \notin {"BEGIN_NODE", "END_NODE"}}
  <2>1. ASSUME NEW k \in S PROVE \E j \in Keyed(i, name) : k = p + j
    BY <1>6, Zenon
  <2>2. ASSUME NEW j \in Keyed(i, name) PROVE p + j \in S
    BY <1>7, Zenon
  <2>3. PropertyAt(p, name) = S
    BY <1>8
  <2> HIDE DEF S
  <2>4. S = {p + j : j \in Keyed(i, name)}
    BY <2>1, <2>2
  <2> QED BY <2>3, <2>4, Zenon
<1> QED BY <1>9 DEF p

(* What a lookup of a property gives.                                      *)
LEMMA PropertyFact ==
  ASSUME FromFile, NEW P, Layout(P), NEW i \in 1 .. Count, NEW name
  PROVE  /\ HasProp(P[i], name) <=> Keyed(i, name) # {}
         /\ Keyed(i, name) # {} =>
              /\ fdt_getprop(P[i], name) = Ps(i)[Min(Keyed(i, name))].val
              /\ Min(Keyed(i, name)) \in Keyed(i, name)
              /\ \A j \in Keyed(i, name) : Min(Keyed(i, name)) <= j
<1> DEFINE p == P[i]
           K == Keyed(i, name)
           S == {p + j : j \in K}
<1>1. PropertyAt(p, name) = S
  BY PropertyAtFact, Zenon
<1>2. IsNode(p) /\ p \in Nat /\ Wide(i) \in Nat
  BY NodesFact, SegmentFact, Zenon
<1>3. K \subseteq 1 .. Wide(i)
  BY Zenon DEF Keyed
<1>4. \A j \in 1 .. Wide(i) : At(p + j) = Ps(i)[j]
  BY Zenon DEF Layout, Ps
<1> HIDE DEF p, K
<1>5. HasProp(p, name) <=> K # {}
  <2>1. S # {} <=> K # {}
    BY Zenon
  <2> HIDE DEF S
  <2> QED BY <1>1, <1>2, <2>1, Zenon DEF HasProp
<1>6. ASSUME K # {}
      PROVE  fdt_getprop(p, name) = Ps(i)[Min(K)].val /\ Min(K) \in K /\ \A j \in K : Min(K) <= j
  <2>1. K \subseteq Nat
    BY <1>2, <1>3
  <2>2. Min(K) \in K /\ \A j \in K : Min(K) <= j
    BY <1>6, <2>1, MinFact
  <2> DEFINE m == Min(K)
  <2>3. m \in K /\ m \in Nat /\ m \in 1 .. Wide(i) /\ \A j \in K : m <= j
    BY <1>3, <2>1, <2>2
  <2> HIDE DEF m
  <2>4. Min(S) = p + m
    <3>1. S \subseteq Int /\ p + m \in S
      BY <1>2, <2>1, <2>3
    <3>2. \A k \in S : p + m <= k
      BY <1>2, <2>1, <2>3
    <3> HIDE DEF S
    <3> QED BY <3>1, <3>2, MinIs
  <2>5. fdt_getprop(p, name) = At(p + m).val
    <3> HIDE DEF S
    <3> QED BY <1>1, <2>4, Zenon DEF fdt_getprop
  <2> QED BY <1>4, <2>2, <2>3, <2>5, Zenon DEF m
<1> QED BY <1>5, <1>6, Zenon DEF p, K

LEMMA PhandleKey ==
  ASSUME FromFile, NEW i \in 1 .. Count
  PROVE  Keyed(i, "linux,phandle") = IF tree.ihandle[i] = 0 THEN {} ELSE {1}
<1>1. /\ Wide(i) \in Nat /\ Wide(i) >= 1
      /\ Ps(i)[1] = IF tree.ihandle[i] = 0 THEN [tag |-> "NOP"]
                    ELSE Prop("linux,phandle", tree.ihandle[i])
      /\ tree.name[i].base # "aliases" => Wide(i) = 1
      /\ tree.name[i].base = "aliases" =>
           /\ Wide(i) = 1 + Len(Aliases)
           /\ \A a \in DOMAIN Aliases : Ps(i)[1 + a] = Prop(Aliases[a].name, Aliases[a].path)
  BY PropsFact, Zenon DEF Ps
<1>0. Wide(i) \in Nat /\ Wide(i) >= 1
  BY <1>1, Zenon
<1>2. DOMAIN Aliases = 1 .. Len(Aliases) /\ Len(Aliases) \in Nat
  BY PathsAssumption, SeqDomain, Zenon
<1>3. ASSUME NEW j \in 1 .. Wide(i), j # 1 PROVE Ps(i)[j].name # "linux,phandle"
  <2>1. tree.name[i].base = "aliases"
    <3>1. Wide(i) # 1
      BY <1>0, <1>3
    <3> QED BY <1>1, <3>1, Zenon
  <2>2. Wide(i) = 1 + Len(Aliases)
    BY <2>1, <1>1, Zenon
  <2> DEFINE a == j - 1
  <2>3. a \in DOMAIN Aliases /\ 1 + a = j
    BY <1>2, <1>3, <2>2
  <2> HIDE DEF a
  <2>4. Ps(i)[j] = Prop(Aliases[a].name, Aliases[a].path)
    BY <2>1, <2>3, <1>1, Zenon
  <2>5. Aliases[a] \in [name : STRING \ {"linux,phandle"}, path : Seq(Names)]
    BY <1>2, <2>3, PathsAssumption, ElementOfSeq, Zenon
  <2>6. Aliases[a].name # "linux,phandle"
    BY <2>5
  <2>7. Ps(i)[j].name = Aliases[a].name
    <3>1. Prop(Aliases[a].name, Aliases[a].path).name = Aliases[a].name
      BY PropFields
    <3> QED BY <2>4, <3>1, Zenon
  <2> QED BY <2>6, <2>7, Zenon
<1>4. 1 \in 1 .. Wide(i)
  BY <1>0
<1>5. CASE tree.ihandle[i] = 0
  <2>1. Ps(i)[1] = [tag |-> "NOP"]
    BY <1>1, <1>5, Zenon
  <2> DEFINE x == Ps(i)[1]
  <2>2. x.tag # "PROP"
    <3>1. x = [tag |-> "NOP"]
      BY <2>1
    <3> HIDE DEF x
    <3> QED BY <3>1
  <2> QED BY <1>3, <1>5, <2>2, Zenon DEF Keyed
<1>6. CASE tree.ihandle[i] # 0
  <2>1. Ps(i)[1] = Prop("linux,phandle", tree.ihandle[i])
    BY <1>1, <1>6, Zenon
  <2>2. Ps(i)[1].tag = "PROP" /\ Ps(i)[1].name = "linux,phandle"
    <3>1. /\ Prop("linux,phandle", tree.ihandle[i]).tag = "PROP"
          /\ Prop("linux,phandle", tree.ihandle[i]).name = "linux,phandle"
      BY PropFields
    <3> QED BY <2>1, <3>1, Zenon
  <2> QED BY <1>3, <1>4, <1>6, <2>2, Zenon DEF Keyed
<1> QED BY <1>5, <1>6

LEMMA PhandleFact ==
  ASSUME FromFile, NEW P, Layout(P), NEW i \in 1 .. Count
  PROVE  fdt_get_phandle(P[i]) = tree.ihandle[i]
<1> DEFINE K == Keyed(i, "linux,phandle")
<1>1. K = IF tree.ihandle[i] = 0 THEN {} ELSE {1}
  BY PhandleKey
<1>2. /\ HasProp(P[i], "linux,phandle") <=> K # {}
      /\ K # {} => /\ fdt_getprop(P[i], "linux,phandle") = Ps(i)[Min(K)].val
                   /\ Min(K) \in K
  BY PropertyFact, Zenon
<1> HIDE DEF K
<1>3. CASE tree.ihandle[i] = 0
  BY <1>1, <1>2, <1>3, Zenon DEF fdt_get_phandle
<1>4. CASE tree.ihandle[i] # 0
  <2>1. K = {1} /\ Min(K) = 1
    BY <1>1, <1>2, <1>4, Zenon
  <2>2. Ps(i)[1] = Prop("linux,phandle", tree.ihandle[i])
    BY <1>4, PropsFact, Zenon DEF Ps
  <2>3. Ps(i)[1].val = tree.ihandle[i]
    <3>1. Prop("linux,phandle", tree.ihandle[i]).val = tree.ihandle[i]
      BY PropFields, ZenonT(60)
    <3> QED BY <2>2, <3>1, Zenon
  <2> QED BY <1>2, <2>1, <2>3, Zenon DEF fdt_get_phandle
<1> QED BY <1>3, <1>4

(* The nodes an instance handle names.                                     *)
Instances(ih) == {j \in 1 .. Count : tree.ihandle[j] = ih}

LEMMA FirstNode ==
  ASSUME FromFile, NEW P, Layout(P)
  PROVE  fdt_next_node(-1, Len(fdt)) = [offset |-> 0, depth |-> Len(fdt) + 1]
<1> DEFINE l == Len(fdt)
           o == -1
           start == IF o >= 0 THEN _fdt_check_node_offset(o) ELSE 0
           stop == Min({k \in start .. l - 1 : Tag(k) \in {"BEGIN_NODE", "END"}})
           closed == {k \in start .. stop : Tag(k) = "END_NODE"}
           left(k) == l - Cardinality(closed \cap (start .. k))
           over == {k \in closed : left(k) < 0}
<1>1. fdt_next_node(o, l) =
        IF start < 0 THEN [offset |-> start, depth |-> l]
        ELSE IF left(stop) < 0 THEN [offset |-> 1 + Min(over), depth |-> -1]
        ELSE IF Tag(stop) = "END" THEN [offset |-> NOTFOUND, depth |-> left(stop)]
        ELSE [offset |-> stop, depth |-> left(stop) + 1]
  BY Zenon DEF fdt_next_node
<1>2. l \in Nat /\ Tag(0) = "BEGIN_NODE" /\ 0 \in 0 .. l - 1
  <2>1. 1 \in 1 .. Count
    <3>1. Count \in Nat /\ Count > 0
      BY TreeFact
    <3> QED BY <3>1
  <2>2. P[1] = 0 /\ P[1] \in Nodes /\ IsNode(P[1]) /\ l \in Nat
    BY <2>1, NodesFact, PlaceFact, Zenon
  <2> QED BY <2>2 DEF Nodes, IsNode
<1>3. start = 0
  OBVIOUS
<1> HIDE DEF start, l
<1>4. stop = 0
  <2> DEFINE S == {k \in 0 .. l - 1 : Tag(k) \in {"BEGIN_NODE", "END"}}
  <2>1. S \subseteq Int /\ 0 \in S /\ \A k \in S : 0 <= k
    BY <1>2
  <2> HIDE DEF S
  <2>2. Min(S) = 0
    BY <2>1, MinIs
  <2> QED BY <2>2, <1>3 DEF S
<1> HIDE DEF stop
<1>5. closed = {}
  BY <1>2, <1>3, <1>4
<1> HIDE DEF closed
<1>6. left(stop) = l
  <2>1. closed \cap (start .. stop) = {}
    BY <1>5
  <2>2. Cardinality({}) = 0
    BY FS_EmptySet
  <2>3. left(stop) = l - 0
    BY <2>1, <2>2, Zenon
  <2> HIDE DEF left
  <2> QED BY <2>3, <1>2
<1> HIDE DEF left, over
<1>7. ~(start < 0) /\ ~(left(stop) < 0) /\ Tag(stop) # "END"
  BY <1>2, <1>3, <1>4, <1>6
<1>8. fdt_next_node(o, l) = [offset |-> stop, depth |-> left(stop) + 1]
  BY <1>1, <1>7, Zenon
<1> QED BY <1>4, <1>6, <1>8 DEF l

LEMMA InstanceFact ==
  ASSUME FromFile, NEW P, Layout(P), NEW ih, ih \notin {0, -1}
  PROVE  fdt_node_offset_by_phandle(ih) = IF Instances(ih) = {} THEN NOTFOUND ELSE P[Min(Instances(ih))]
<1> DEFINE e == - (Len(fdt) + 1)
           w == Trail(P, 1, e)
           hits == {k \in 1 .. Len(w) - 1 : fdt_get_phandle(w[k].offset) = ih}
<1>1. /\ Count \in Nat /\ Count > 0 /\ \A k \in 1 .. Count : Depth(k) \in Nat
      /\ Depth(1) = 0 /\ Len(fdt) \in Nat /\ P[1] = 0
  BY TreeFact, PlaceFact, Zenon
<1>2. e \in Int /\ e <= Depth(1) /\ Depth(1) - e = Len(fdt) + 1 /\ 1 \in 1 .. Count /\ e < 0
  BY <1>1
<1> HIDE DEF e
<1>3. Walk(0, Len(fdt) + 1) = w
  BY <1>1, <1>2, WalkFact, Zenon
<1>4. fdt_node_offset_by_phandle(ih) = Found(w, hits)
  <2> DEFINE first == fdt_next_node(-1, Len(fdt))
  <2>1. first = [offset |-> 0, depth |-> Len(fdt) + 1]
    BY FirstNode
  <2> HIDE DEF first
  <2>2. first.offset = 0 /\ first.depth = Len(fdt) + 1
    BY <2>1
  <2>3. fdt_node_offset_by_phandle(ih) = Scan(Walk(first.offset, first.depth), LAMBDA s : fdt_get_phandle(s.offset) = ih)
    BY Zenon DEF fdt_node_offset_by_phandle, first
  <2> QED BY <1>3, <2>2, <2>3, Zenon DEF Scan, Found
<1>5. Reach(1, e) = Count
  <2>1. IsReach(Count, 1, e)
    <3>1. Count \in 1 .. Count /\ ~(Count < Count)
      BY <1>1
    <3>2. ASSUME NEW k \in 1 + 1 .. Count PROVE Depth(k) > e
      <4>1. k \in 1 .. Count
        BY <1>1
      <4>2. Depth(k) \in Nat
        BY <4>1, <1>1
      <4> QED BY <4>2, <1>2
    <3> QED BY <3>1, <3>2, Zenon DEF IsReach
  <2> QED BY <2>1, <1>2, ReachFact, Zenon
<1>6. /\ \A k \in 1 .. Len(w) - 1 : 1 + k - 1 \in 1 .. Reach(1, e) /\ 1 + k - 1 \in 1 .. Count
      /\ \A k \in 1 .. Len(w) - 1 : w[k].offset = P[1 + k - 1]
  <2>1. TrailNodes(P, 1, e)
    BY <1>2, ScanFound, Zenon
  <2> QED BY <2>1, Zenon DEF TrailNodes
<1>7. \A j \in 1 .. Count : fdt_get_phandle(P[j]) = tree.ihandle[j]
  BY PhandleFact
<1>8. hits = {k \in 1 .. Len(w) - 1 : 1 + k - 1 \in Instances(ih)}
  <2> HIDE DEF w
  <2> QED BY <1>6, <1>7, Zenon DEF Instances
<1>9. Instances(ih) \subseteq 1 .. Reach(1, e)
  BY <1>5, Zenon DEF Instances
<1> HIDE DEF hits
<1>10. HitsAre(P, 1, e, hits, Instances(ih))
  BY <1>8, <1>9, Zenon DEF HitsAre
<1>11. Finds(P, 1, e, hits, Instances(ih))
  BY <1>2, <1>10, FoundFirst, Zenon
<1> QED BY <1>4, <1>11, Zenon DEF Finds

(* The nodes on the way to a node, itself among them, one of each depth.   *)
Line(i) == {m \in 1 .. Count : m <= i /\ \A k \in m + 1 .. i : Depth(k) > Depth(m)}

Above(i, d) == CHOOSE m \in Line(i) : Depth(m) = d

LEMMA AboveFact ==
  ASSUME FromFile, NEW i \in 1 .. Count, NEW d \in 0 .. Depth(i)
  PROVE  /\ Above(i, d) \in Line(i) /\ Above(i, d) \in 1 .. i /\ Above(i, d) \in 1 .. Count
         /\ Depth(Above(i, d)) = d
         /\ \A m \in Line(i) : Depth(m) = d => m = Above(i, d)
         /\ \A k \in Above(i, d) + 1 .. i : Depth(k) > d
<1>1. Count \in Nat /\ \A k \in 1 .. Count : Depth(k) \in Nat
  BY TreeFact
<1>2. d \in Nat /\ d <= Depth(i)
  BY <1>1
<1> DEFINE S == {k \in 0 .. i : k >= 1 /\ Depth(k) <= d}
<1>3. S \subseteq 0 .. i /\ S # {}
  <2>1. Depth(1) = 0
    BY TreeFact
  <2> QED BY <1>2, <2>1
<1>4. PICK m \in S : \A k \in S : k <= m
  <2>1. i \in Nat
    OBVIOUS
  <2> HIDE DEF S
  <2> QED BY <1>3, <2>1, GreatestNatural
<1>5. m \in 1 .. i /\ Depth(m) <= d /\ m \in 1 .. Count
  BY <1>1
<1>6. ASSUME NEW k \in m + 1 .. i PROVE Depth(k) > d /\ k \in 1 .. Count
  <2>1. k \in 1 .. Count /\ k > m /\ k \in 0 .. i /\ k >= 1
    BY <1>1, <1>5
  <2>2. ~(Depth(k) <= d)
    <3>1. ASSUME Depth(k) <= d PROVE FALSE
      <4>1. k \in S
        BY <2>1, <3>1
      <4> HIDE DEF S
      <4>2. k <= m
        BY <1>4, <4>1
      <4> QED BY <2>1, <4>2, <1>5
    <3> QED BY <3>1
  <2> QED BY <2>1, <2>2, <1>1, <1>2
<1> HIDE DEF S
<1>7. Depth(m) = d
  <2>1. CASE m = i
    BY <2>1, <1>1, <1>2, <1>5
  <2>2. CASE m # i
    <3>1. m + 1 \in m + 1 .. i /\ m + 1 \in 2 .. Count /\ (m + 1) - 1 = m
      BY <2>2, <1>1, <1>5
    <3>2. Depth(m + 1) > d /\ Depth(m + 1) \in Nat
      BY <3>1, <1>1, <1>6
    <3>3. Depth(m + 1) <= Depth(m) + 1
      BY <3>1, TreeFact
    <3>4. Depth(m) \in Nat
      BY <1>1, <1>5
    <3> QED BY <3>2, <3>3, <3>4, <1>2, <1>5
  <2> QED BY <2>1, <2>2
<1>8. m \in Line(i)
  BY <1>5, <1>6, <1>7 DEF Line
<1>9. ASSUME NEW n \in Line(i), Depth(n) = d PROVE n = m
  <2>1. n \in 1 .. Count /\ n <= i /\ \A k \in n + 1 .. i : Depth(k) > d
    BY <1>9 DEF Line
  <2>2. ~(n < m)
    <3>1. ASSUME n < m PROVE FALSE
      <4>1. m \in n + 1 .. i
        BY <2>1, <3>1, <1>5
      <4>2. Depth(m) > d
        BY <2>1, <4>1
      <4> QED BY <4>2, <1>2, <1>7
    <3> QED BY <3>1
  <2>3. ~(m < n)
    <3>1. ASSUME m < n PROVE FALSE
      <4>1. n \in m + 1 .. i
        BY <2>1, <3>1, <1>5
      <4>2. Depth(n) > d
        BY <4>1, <1>6
      <4> QED BY <4>2, <1>2, <1>9
    <3> QED BY <3>1
  <2> QED BY <2>1, <2>2, <2>3, <1>5
<1>10. Above(i, d) = m
  BY <1>7, <1>8, <1>9, Zenon DEF Above
<1> QED BY <1>5, <1>6, <1>7, <1>8, <1>9, <1>10, Zenon

(* The node before a node on the way to it.                                *)
Parent(i) == Above(i, Depth(i) - 1)

LEMMA ParentFact ==
  ASSUME FromFile, NEW i \in 1 .. Count
  PROVE  /\ i # 1 => /\ Depth(i) >= 1 /\ Parent(i) \in 1 .. Count /\ Parent(i) < i
                     /\ Depth(Parent(i)) = Depth(i) - 1
                     /\ \A k \in Parent(i) + 1 .. i : Depth(k) >= Depth(i)
         /\ \A p \in 1 .. Count : i \in Kids(p) <=> i # 1 /\ p = Parent(i)
<1>1. Count \in Nat /\ (\A k \in 1 .. Count : Depth(k) \in Nat) /\ Depth(1) = 0
  BY TreeFact
<1>2. ASSUME i # 1
      PROVE  /\ Depth(i) >= 1 /\ Parent(i) \in 1 .. Count /\ Parent(i) < i
             /\ Depth(Parent(i)) = Depth(i) - 1
             /\ \A k \in Parent(i) + 1 .. i : Depth(k) >= Depth(i)
             /\ \A m \in Line(i) : Depth(m) = Depth(i) - 1 => m = Parent(i)
  <2> DEFINE d == Depth(i) - 1
             p == Parent(i)
  <2>1. Depth(i) >= 1 /\ Depth(i) \in Nat
    <3>1. i \in 2 .. Count
      BY <1>1, <1>2
    <3> QED BY <3>1, <1>1, TreeFact
  <2>2. d \in 0 .. Depth(i)
    BY <2>1
  <2>3. /\ p \in Line(i) /\ p \in 1 .. i /\ p \in 1 .. Count /\ Depth(p) = d
        /\ \A m \in Line(i) : Depth(m) = d => m = p
        /\ \A k \in p + 1 .. i : Depth(k) > d
    BY <2>2, AboveFact, Zenon DEF Parent
  <2> HIDE DEF p
  <2>4. p < i
    <3>1. p # i
      BY <2>1, <2>3
    <3> QED BY <2>3, <3>1
  <2>5. ASSUME NEW k \in p + 1 .. i PROVE Depth(k) >= Depth(i)
    <3>1. k \in 1 .. Count
      BY <1>1, <2>3
    <3>2. Depth(k) > d /\ Depth(k) \in Nat
      BY <3>1, <1>1, <2>3
    <3> QED BY <3>2, <2>1
  <2> QED BY <2>1, <2>3, <2>4, <2>5, Zenon DEF p
<1>3. ASSUME NEW p \in 1 .. Count, i \in Kids(p) PROVE i # 1 /\ p = Parent(i)
  <2>1. /\ p < i /\ Depth(p) = Depth(i) - 1
        /\ \A m \in p + 1 .. i - 1 : Depth(m) >= Depth(i)
    BY <1>3 DEF Kids
  <2>2. i # 1
    BY <2>1
  <2>3. Depth(i) \in Nat /\ Depth(p) \in Nat
    BY <1>1
  <2>4. ASSUME NEW k \in p + 1 .. i PROVE Depth(k) > Depth(p)
    <3>1. CASE k = i
      BY <3>1, <2>1, <2>3
    <3>2. CASE k # i
      <4>1. k \in p + 1 .. i - 1 /\ k \in 1 .. Count
        BY <3>2, <1>1
      <4>2. Depth(k) >= Depth(i) /\ Depth(k) \in Nat
        BY <4>1, <2>1, <1>1
      <4> QED BY <4>2, <2>1, <2>3
    <3> QED BY <3>1, <3>2
  <2>5. p \in Line(i)
    <3>1. p <= i
      BY <2>1
    <3> QED BY <3>1, <2>4 DEF Line
  <2> QED BY <1>2, <2>1, <2>2, <2>5
<1>4. ASSUME i # 1 PROVE i \in Kids(Parent(i))
  <2> DEFINE p == Parent(i)
  <2>1. /\ p \in 1 .. Count /\ p < i /\ Depth(p) = Depth(i) - 1
        /\ \A k \in p + 1 .. i : Depth(k) >= Depth(i)
    BY <1>2, <1>4
  <2> HIDE DEF p
  <2>2. \A m \in p + 1 .. i - 1 : m \in p + 1 .. i
    BY <2>1
  <2>3. i \in Kids(p)
    BY <2>1, <2>2, Zenon DEF Kids
  <2> QED BY <2>3 DEF p
<1> QED BY <1>2, <1>3, <1>4, Zenon

(* Siblings have the same parent.                                          *)
LEMMA SibsFact ==
  ASSUME FromFile, NEW i \in 1 .. Count
  PROVE  Sibs(i) = {m \in 1 .. Count : m > i /\ \E p \in 1 .. Count : i \in Kids(p) /\ m \in Kids(p)}
<1>1. Count \in Nat /\ (\A k \in 1 .. Count : Depth(k) \in Nat) /\ Depth(1) = 0
  BY TreeFact
<1>2. ASSUME NEW m \in Sibs(i)
      PROVE  m \in 1 .. Count /\ m > i /\ \E p \in 1 .. Count : i \in Kids(p) /\ m \in Kids(p)
  <2>1. m \in i + 1 .. Count /\ Depth(m) = Depth(i) /\ \A k \in i + 1 .. m : Depth(k) >= Depth(i)
    BY DEF Sibs
  <2>2. m \in 1 .. Count /\ m > i
    BY <1>1, <2>1
  <2>3. i # 1
    <3>1. m \in 2 .. Count
      BY <1>1, <2>1
    <3>2. Depth(m) >= 1
      BY <3>1, TreeFact
    <3> QED BY <3>2, <2>1, <1>1
  <2> DEFINE p == Parent(i)
  <2>4. /\ p \in 1 .. Count /\ p < i /\ Depth(p) = Depth(i) - 1
        /\ \A k \in p + 1 .. i : Depth(k) >= Depth(i)
        /\ i \in Kids(p)
    BY <2>3, ParentFact, Zenon
  <2> HIDE DEF p
  <2>5. ASSUME NEW k \in p + 1 .. m - 1 PROVE Depth(k) >= Depth(m)
    <3>1. k \in p + 1 .. i \/ k \in i + 1 .. m
      BY <2>1, <2>4
    <3> QED BY <3>1, <2>1, <2>4
  <2>6. p < m /\ Depth(p) = Depth(m) - 1
    BY <2>1, <2>2, <2>4
  <2>7. m \in Kids(p)
    BY <2>2, <2>5, <2>6 DEF Kids
  <2> QED BY <2>2, <2>4, <2>7
<1>3. ASSUME NEW m \in 1 .. Count, m > i, NEW p \in 1 .. Count, i \in Kids(p), m \in Kids(p)
      PROVE  m \in Sibs(i)
  <2>1. /\ p < i /\ Depth(p) = Depth(i) - 1
        /\ p < m /\ Depth(p) = Depth(m) - 1 /\ \A k \in p + 1 .. m - 1 : Depth(k) >= Depth(m)
    BY <1>3 DEF Kids
  <2>2. Depth(m) = Depth(i) /\ Depth(m) \in Nat
    <3>1. Depth(m) \in Nat /\ Depth(i) \in Nat
      BY <1>1
    <3> QED BY <3>1, <2>1
  <2>3. ASSUME NEW k \in i + 1 .. m PROVE Depth(k) >= Depth(i)
    <3>1. CASE k = m
      BY <3>1, <2>2
    <3>2. CASE k # m
      <4>1. k \in p + 1 .. m - 1
        BY <3>2, <2>1
      <4> QED BY <4>1, <2>1, <2>2
    <3> QED BY <3>1, <3>2
  <2>4. m \in i + 1 .. Count
    BY <1>3
  <2> QED BY <2>2, <2>3, <2>4 DEF Sibs
<1> QED BY <1>2, <1>3

-----------------------------------------------------------------------------
(* What a scan from the root up to a node sees.                            *)
LEMMA UpToFact ==
  ASSUME FromFile, NEW P, Layout(P), NEW i \in 1 .. Count
  PROVE  /\ UpTo(P[i]) \in Seq(States) /\ Len(UpTo(P[i])) = i /\ DOMAIN UpTo(P[i]) = 1 .. i
         /\ \A k \in 1 .. i : UpTo(P[i])[k] = State(P, k, 0)
         /\ ToSet(UpTo(P[i])) = {State(P, k, 0) : k \in 1 .. i}
<1> DEFINE w == Trail(P, 1, 0)
           S == {k \in DOMAIN w : w[k].offset \in 0 .. P[i]}
<1>1. /\ Count \in Nat /\ Count > 0 /\ \A k \in 1 .. Count : Depth(k) \in Nat
      /\ Depth(1) = 0 /\ P[1] = 0 /\ 1 \in 1 .. Count
  <2>1. /\ Count \in Nat /\ Count > 0 /\ \A k \in 1 .. Count : Depth(k) \in Nat
        /\ Depth(1) = 0 /\ P[1] = 0
    BY TreeFact, PlaceFact, Zenon
  <2> QED BY <2>1
<1>2. Walk(0, 0) = w
  <2>1. 0 \in Int /\ 0 <= Depth(1) /\ Depth(1) - 0 = 0
    BY <1>1
  <2> QED BY <1>1, <2>1, WalkFact, Zenon
<1>3. Reach(1, 0) = Count
  <2>1. IsReach(Count, 1, 0)
    <3>1. Count \in 1 .. Count /\ ~(Count < Count)
      BY <1>1
    <3>2. ASSUME NEW k \in 1 + 1 .. Count PROVE Depth(k) > 0
      <4>1. k \in 2 .. Count /\ k \in 1 .. Count
        BY <1>1
      <4>2. Depth(k) >= 1 /\ Depth(k) \in Nat
        BY <4>1, <1>1, TreeFact
      <4> QED BY <4>2
    <3> QED BY <3>1, <3>2, Zenon DEF IsReach
  <2>2. 0 \in Int
    OBVIOUS
  <2> QED BY <1>1, <2>1, <2>2, ReachFact, Zenon
<1>4. /\ w \in Seq(States) /\ Len(w) = Count + 1 /\ DOMAIN w = 1 .. Count + 1
      /\ \A k \in 1 .. Count : w[k] = State(P, k, 0) /\ w[k].offset = P[k]
      /\ w[Count + 1] = After(P, Count, 0)
  <2> DEFINE n == Reach(1, 0) - 1 + 1
  <2>1. 0 \in Int
    OBVIOUS
  <2>2. /\ Len(w) = n + 1 /\ DOMAIN w = 1 .. n + 1 /\ w \in Seq(States)
        /\ \A k \in 1 .. n : w[k] = State(P, 1 + k - 1, 0) /\ w[k].offset = P[1 + k - 1]
        /\ w[n + 1] = After(P, Reach(1, 0), 0)
    <3>1. TrailIs(P, 1, 0)
      BY <1>1, <2>1, TrailAt, Zenon
    <3> QED BY <3>1, Zenon DEF TrailIs
  <2>3. n = Count
    BY <1>1, <1>3
  <2>4. \A k \in 1 .. Count : 1 + k - 1 = k
    OBVIOUS
  <2> HIDE DEF w, n
  <2> QED BY <1>3, <2>2, <2>3, <2>4, Zenon
<1> HIDE DEF w
<1>5. ASSUME NEW j \in 1 .. Count + 1, NEW k \in 1 .. Count + 1
      PROVE  P[j] \in Nat /\ (j <= k <=> P[j] <= P[k])
  <2>1. P[j] \in Nat /\ P[k] \in Nat /\ (j < k => P[j] < P[k]) /\ (k < j => P[k] < P[j])
    BY PlaceFact, Zenon
  <2>2. j = k \/ j < k \/ k < j
    OBVIOUS
  <2> QED BY <2>1, <2>2
<1>6. w[Count + 1].offset = P[Count + 1]
  <2> DEFINE c == Count
             off == 1 + (P[c + 1] - Up(c) + (Depth(c) - 0))
  <2>1. After(P, c, 0) = [offset |-> off, depth |-> -1]
    <3>1. ~(0 < 0)
      OBVIOUS
    <3> QED BY <3>1, Zenon DEF After
  <2>2. c \in 1 .. Count /\ c + 1 \in 1 .. Count + 1
    BY <1>1
  <2>3. Up(c) = Depth(c) + 1 /\ Depth(c) \in Nat /\ P[c + 1] \in Nat
    BY <1>1, <1>5, <2>2 DEF Up
  <2>4. off = P[c + 1]
    BY <2>3
  <2> HIDE DEF c, off
  <2>5. After(P, c, 0).offset = off
    BY <2>1
  <2> QED BY <1>4, <2>4, <2>5, Zenon DEF c
<1>7. S = 1 .. i
  <2>1. i \in 1 .. Count + 1 /\ \A k \in 1 .. Count + 1 : k \in 1 .. Count \/ k = Count + 1
    BY <1>1
  <2>2. \A k \in 1 .. Count + 1 : w[k].offset = P[k]
    BY <1>4, <1>6, <2>1, Zenon
  <2>3. \A k \in 1 .. Count + 1 : P[k] \in Nat /\ (P[k] <= P[i] <=> k <= i)
    BY <1>5, <2>1, Zenon
  <2>4. \A k \in 1 .. Count + 1 : w[k].offset \in 0 .. P[i] <=> k <= i
    <3>1. ASSUME NEW k \in 1 .. Count + 1 PROVE w[k].offset \in 0 .. P[i] <=> k <= i
      <4> DEFINE o == w[k].offset
                 p == P[i]
      <4>1. o \in Nat /\ p \in Nat /\ (o <= p <=> k <= i)
        BY <2>1, <2>2, <2>3, Zenon
      <4> HIDE DEF o, p
      <4>2. o \in 0 .. p <=> k <= i
        BY <4>1
      <4> QED BY <4>2 DEF o, p
    <3> QED BY <3>1
  <2>5. S = {k \in 1 .. Count + 1 : k <= i}
    BY <1>4, <2>4, Zenon
  <2>6. Count \in Nat
    BY <1>1
  <2> HIDE DEF S
  <2> QED BY <2>5, <2>6
<1>8. Cardinality(S) = i
  <2>1. Cardinality(1 .. i) = IF 1 > i THEN 0 ELSE i - 1 + 1
    BY FS_Interval
  <2> HIDE DEF S
  <2> QED BY <1>7, <2>1
<1> DEFINE x == SubSeq(w, 1, i)
<1>9. UpTo(P[i]) = x
  BY <1>2, <1>8, Zenon DEF UpTo
<1>10. x \in Seq(States) /\ Len(x) = i /\ DOMAIN x = 1 .. i /\ \A k \in 1 .. i : x[k] = w[k]
  <2>1. i \in 1 .. Len(w) /\ w \in Seq(States) /\ Len(w) \in Nat
    BY <1>1, <1>4
  <2> QED BY <2>1
<1> HIDE DEF x
<1>11. \A k \in 1 .. i : x[k] = State(P, k, 0)
  <2>1. \A k \in 1 .. i : k \in 1 .. Count
    BY <1>1
  <2> QED BY <1>4, <1>10, <2>1, Zenon
<1>12. ToSet(x) = {State(P, k, 0) : k \in 1 .. i}
  BY <1>10, <1>11, Zenon DEF ToSet
<1> QED BY <1>9, <1>10, <1>11, <1>12, Zenon

(* The scans up to a node, for its depth and for what is above it.         *)
LEMMA SeenFact ==
  ASSUME FromFile, NEW P, Layout(P), NEW i \in 1 .. Count
  PROVE  Seen(UpTo(P[i]), P[i]) = {State(P, i, 0)}
<1>1. ToSet(UpTo(P[i])) = {State(P, k, 0) : k \in 1 .. i}
  BY UpToFact, Zenon
<1>2. Count \in Nat
  BY TreeFact, Zenon
<1>3. i \in 1 .. i /\ \A k \in 1 .. i : k \in 1 .. Count
  BY <1>2
<1>4. ASSUME NEW k \in 1 .. i, P[k] = P[i] PROVE k = i
  <2>1. SUFFICES ASSUME k # i PROVE FALSE
    OBVIOUS
  <2>2. k < i /\ k \in 1 .. Count + 1 /\ i \in 1 .. Count + 1
    BY <1>2, <2>1
  <2>3. P[k] < P[i] /\ P[k] \in Nat
    BY <2>2, PlaceFact, Zenon
  <2> QED BY <2>3, <1>4
<1>5. \A k \in 1 .. i : State(P, k, 0).offset = P[k]
  BY DEF State
<1> QED BY <1>1, <1>3, <1>4, <1>5, Zenon DEF Seen

LEMMA DepthFact ==
  ASSUME FromFile, NEW P, Layout(P), NEW i \in 1 .. Count
  PROVE  fdt_node_depth(P[i]) = Depth(i)
<1> DEFINE s == State(P, i, 0)
<1>1. Seen(UpTo(P[i]), P[i]) = {s}
  BY SeenFact, Zenon
<1>2. Depth(i) \in Nat
  BY TreeFact, Zenon
<1>3. s.depth = Depth(i)
  <2>1. Depth(i) - 0 = Depth(i)
    BY <1>2
  <2>2. s.depth = Depth(i) - 0
    BY DEF State
  <2> QED BY <2>1, <2>2, Zenon
<1> HIDE DEF s
<1>4. (CHOOSE t \in {s} : TRUE) = s /\ {s} # {}
  OBVIOUS
<1> QED BY <1>1, <1>3, <1>4, Zenon DEF fdt_node_depth

LEMMA SupernodeFact ==
  ASSUME FromFile, NEW P, Layout(P), NEW i \in 1 .. Count, NEW d \in 0 .. Depth(i)
  PROVE  fdt_supernode_atdepth_offset(P[i], d) = P[Above(i, d)]
<1> DEFINE S == {s.offset : s \in {t \in ToSet(UpTo(P[i])) : t.depth = d}}
           a == Above(i, d)
<1>1. ToSet(UpTo(P[i])) = {State(P, k, 0) : k \in 1 .. i}
  BY UpToFact, Zenon
<1>2. Count \in Nat /\ \A k \in 1 .. Count : Depth(k) \in Nat
  BY TreeFact, Zenon
<1>3. \A k \in 1 .. i : k \in 1 .. Count /\ k \in 1 .. Count + 1
  BY <1>2
<1>4. \A k \in 1 .. i : State(P, k, 0).offset = P[k] /\ State(P, k, 0).depth = Depth(k)
  <2>1. \A k \in 1 .. i : Depth(k) - 0 = Depth(k)
    BY <1>2, <1>3
  <2> QED BY <2>1 DEF State
<1> DEFINE W == ToSet(UpTo(P[i]))
<1>5. S = {P[k] : k \in {k \in 1 .. i : Depth(k) = d}}
  <2> DEFINE T == {t \in W : t.depth = d}
             K == {k \in 1 .. i : Depth(k) = d}
  <2>1. \A t : t \in T <=> t \in W /\ t.depth = d
    OBVIOUS
  <2>2. \A k : k \in K <=> k \in 1 .. i /\ Depth(k) = d
    OBVIOUS
  <2>3. \A t : t \in W <=> \E k \in 1 .. i : t = State(P, k, 0)
    BY <1>1, Zenon
  <2> HIDE DEF W, T, K
  <2>4. ASSUME NEW t \in T PROVE \E k \in K : t.offset = P[k]
    <3>1. t \in W /\ t.depth = d
      BY <2>1, Zenon
    <3>2. PICK k \in 1 .. i : t = State(P, k, 0)
      BY <2>3, <3>1, Zenon
    <3>3. t.depth = Depth(k) /\ t.offset = P[k]
      BY <1>4, <3>2, Zenon
    <3> QED BY <2>2, <3>1, <3>3, Zenon
  <2>5. ASSUME NEW k \in K PROVE \E t \in T : t.offset = P[k]
    BY <1>4, <2>1, <2>2, <2>3, Zenon
  <2>6. {s.offset : s \in T} = {P[k] : k \in K}
    <3>1. ASSUME NEW x \in {s.offset : s \in T} PROVE x \in {P[k] : k \in K}
      BY <2>4, Zenon
    <3>2. ASSUME NEW x \in {P[k] : k \in K} PROVE x \in {s.offset : s \in T}
      BY <2>5, Zenon
    <3> QED BY <3>1, <3>2, Zenon
  <2> QED BY <2>6 DEF W, T, K
<1>6. a \in 1 .. i /\ Depth(a) = d /\ \A k \in a + 1 .. i : Depth(k) > d
  BY AboveFact, Zenon
<1> HIDE DEF a, S
<1>7. ASSUME NEW k \in 1 .. i, Depth(k) = d PROVE P[k] <= P[a]
  <2>1. d \in Nat
    BY <1>2
  <2>2. k <= a
    <3>1. SUFFICES ASSUME k > a PROVE FALSE
      BY <1>6
    <3>2. k \in a + 1 .. i
      BY <3>1, <1>6
    <3>3. Depth(k) > d
      BY <3>2, <1>6
    <3> QED BY <3>3, <1>7, <2>1
  <2>3. CASE k = a
    <3>1. P[a] \in Nat
      BY <1>3, <1>6, PlaceFact, Zenon
    <3> QED BY <2>3, <3>1
  <2>4. CASE k # a
    <3>1. k < a
      BY <2>2, <2>4, <1>6
    <3>2. P[k] < P[a] /\ P[k] \in Nat /\ P[a] \in Nat
      BY <1>3, <1>6, <3>1, PlaceFact, Zenon
    <3> QED BY <3>2
  <2> QED BY <2>3, <2>4
<1>8. P[a] \in S /\ S \subseteq Int /\ \A k \in S : k <= P[a]
  <2>1. P[a] \in S
    BY <1>5, <1>6, Zenon
  <2>2. \A k \in 1 .. i : P[k] \in Nat
    BY <1>3, PlaceFact, Zenon
  <2>3. Nat \subseteq Int
    OBVIOUS
  <2>4. S \subseteq Int
    BY <1>5, <2>2, <2>3, Zenon
  <2>5. \A k \in S : k <= P[a]
    BY <1>5, <1>7, Zenon
  <2> QED BY <2>1, <2>4, <2>5
<1>9. Max(S) = P[a]
  BY <1>8, MaxIs, Zenon
<1>10. ~(d < 0)
  OBVIOUS
<1>11. Seen(UpTo(P[i]), P[i]) # {}
  BY SeenFact, Zenon
<1> QED BY <1>9, <1>10, <1>11, Zenon DEF fdt_supernode_atdepth_offset, S, a

LEMMA ParentOffsetFact ==
  ASSUME FromFile, NEW P, Layout(P), NEW i \in 1 .. Count
  PROVE  fdt_parent_offset(P[i]) = IF i = 1 THEN NOTFOUND ELSE P[Parent(i)]
<1>1. fdt_node_depth(P[i]) = Depth(i) /\ Depth(i) \in Nat /\ Depth(1) = 0 /\ Count \in Nat
  BY DepthFact, TreeFact, Zenon
<1>2. ~(Depth(i) < 0)
  BY <1>1
<1>3. fdt_parent_offset(P[i]) = fdt_supernode_atdepth_offset(P[i], Depth(i) - 1)
  BY <1>1, <1>2, Zenon DEF fdt_parent_offset
<1>4. CASE i = 1
  <2>1. Depth(i) - 1 < 0
    BY <1>1, <1>4
  <2> QED BY <1>3, <1>4, <2>1, Zenon DEF fdt_supernode_atdepth_offset
<1>5. CASE i # 1
  <2>1. Depth(i) >= 1
    BY <1>5, ParentFact, Zenon
  <2>2. Depth(i) - 1 \in 0 .. Depth(i)
    BY <1>1, <2>1
  <2> QED BY <1>3, <1>5, <2>2, SupernodeFact, Zenon DEF Parent
<1> QED BY <1>4, <1>5

(* FoldLeft computes on subsets of its sequence's domain; only the prefixes *)
(* matter.                                                                 *)
IsIter(f, base, F, n) ==
  /\ f[{}] = base
  /\ \A s \in SUBSET (1 .. n) : s # {} => f[s] = F[<<f[s \ {Max(s)}], Max(s)>>]

LEMMA SubsetMax ==
  ASSUME NEW n \in Nat, NEW s \in SUBSET (1 .. n), s # {}
  PROVE  /\ Max(s) \in s /\ Max(s) \in 1 .. n /\ \A k \in s : k <= Max(s)
         /\ s \ {Max(s)} \in SUBSET (1 .. n)
<1>1. s \subseteq 0 .. n
  OBVIOUS
<1>2. Max(s) \in s /\ \A k \in s : k <= Max(s)
  BY <1>1, MaxFact, Zenon
<1> QED BY <1>2

LEMMA IterExists ==
  ASSUME NEW A, NEW base \in A, NEW N \in Nat, NEW F \in [A \X (1 .. N) -> A]
  PROVE  \E f \in [SUBSET (1 .. N) -> A] : IsIter(f, base, F, N)
<1> DEFINE T == {n \in Nat : n <= N => \E f \in [SUBSET (1 .. n) -> A] : IsIter(f, base, F, n)}
<1>1. 0 \in T
  <2> DEFINE f == [s \in SUBSET (1 .. 0) |-> base]
  <2>1. \A s \in SUBSET (1 .. 0) : s = {}
    OBVIOUS
  <2>2. {} \in SUBSET (1 .. 0)
    OBVIOUS
  <2>3. f \in [SUBSET (1 .. 0) -> A] /\ f[{}] = base
    BY <2>2
  <2> HIDE DEF f
  <2>4. IsIter(f, base, F, 0)
    BY <2>1, <2>3, Zenon DEF IsIter
  <2>5. \E g \in [SUBSET (1 .. 0) -> A] : IsIter(g, base, F, 0)
    BY <2>3, <2>4, Zenon
  <2>6. 0 \in Nat
    OBVIOUS
  <2> QED BY <2>5, <2>6, Zenon
<1>2. ASSUME NEW n \in Nat, n \in T PROVE n + 1 \in T
  <2>1. SUFFICES ASSUME n + 1 <= N PROVE \E f \in [SUBSET (1 .. n + 1) -> A] : IsIter(f, base, F, n + 1)
    <3>1. n + 1 \in Nat
      OBVIOUS
    <3> QED BY <3>1, Zenon
  <2>2. n <= N
    BY <2>1
  <2>3. PICK g \in [SUBSET (1 .. n) -> A] : IsIter(g, base, F, n)
    BY <1>2, <2>2
  <2> DEFINE m == n + 1
             f == [s \in SUBSET (1 .. m) |-> IF m \in s THEN F[<<g[s \ {m}], m>>] ELSE g[s]]
  <2>4. ASSUME NEW s \in SUBSET (1 .. m)
        PROVE  s \ {m} \in SUBSET (1 .. n) /\ (m \notin s => s \in SUBSET (1 .. n))
    OBVIOUS
  <2>5. m \in 1 .. N /\ m \in Nat
    BY <2>1
  <2>6. ASSUME NEW s \in SUBSET (1 .. m) PROVE f[s] \in A
    <3>1. CASE m \in s
      <4>1. g[s \ {m}] \in A
        BY <2>4, Zenon
      <4>2. <<g[s \ {m}], m>> \in A \X (1 .. N)
        BY <4>1, <2>5, Zenon
      <4>3. F[<<g[s \ {m}], m>>] \in A
        BY <4>2, Zenon
      <4> QED BY <3>1, <4>3, Zenon
    <3>2. CASE m \notin s
      <4>1. g[s] \in A
        BY <2>4, <3>2, Zenon
      <4> QED BY <3>2, <4>1, Zenon
    <3> QED BY <3>1, <3>2
  <2>7. f \in [SUBSET (1 .. m) -> A]
    BY <2>6, Zenon
  <2>8. \A s \in SUBSET (1 .. m) : f[s] = IF m \in s THEN F[<<g[s \ {m}], m>>] ELSE g[s]
    BY Zenon
  <2> HIDE DEF f
  <2>9. f[{}] = base
    <3>1. {} \in SUBSET (1 .. m) /\ m \notin {}
      OBVIOUS
    <3> QED BY <2>3, <2>8, <3>1, Zenon DEF IsIter
  <2>10. ASSUME NEW s \in SUBSET (1 .. m), s # {} PROVE f[s] = F[<<f[s \ {Max(s)}], Max(s)>>]
    <3>1. CASE m \in s
      <4>1. \A k \in s : k <= m
        BY <2>10
      <4>2. s \subseteq Int
        BY <2>10
      <4>3. Max(s) = m
        BY <3>1, <4>1, <4>2, MaxIs, Zenon
      <4>4. s \ {m} \in SUBSET (1 .. m) /\ m \notin s \ {m}
        OBVIOUS
      <4>5. f[s \ {m}] = g[s \ {m}]
        BY <2>8, <4>4, Zenon
      <4> QED BY <2>8, <3>1, <4>3, <4>5, Zenon
    <3>2. CASE m \notin s
      <4>1. s \in SUBSET (1 .. n)
        BY <2>4, <3>2, Zenon
      <4>2. g[s] = F[<<g[s \ {Max(s)}], Max(s)>>]
        BY <2>3, <2>10, <4>1, Zenon DEF IsIter
      <4>3. s \ {Max(s)} \in SUBSET (1 .. m) /\ m \notin s \ {Max(s)}
        BY <3>2, Zenon
      <4>4. f[s] = g[s] /\ f[s \ {Max(s)}] = g[s \ {Max(s)}]
        BY <2>8, <3>2, <4>3, Zenon
      <4> QED BY <4>2, <4>4, Zenon
    <3> QED BY <3>1, <3>2
  <2>11. IsIter(f, base, F, m)
    BY <2>9, <2>10, Zenon DEF IsIter
  <2> QED BY <2>7, <2>11
<1> HIDE DEF T
<1>3. Nat \subseteq T
  BY <1>1, <1>2, SetInduction
<1>4. N \in T /\ N <= N
  BY <1>3
<1> QED BY <1>4 DEF T

(* A prefix is of the domain, and has the prefix before it.                *)
LEMMA Prefix ==
  ASSUME NEW n \in Nat, NEW k \in 1 .. n
  PROVE  /\ 1 .. k \in SUBSET (1 .. n) /\ 1 .. k # {}
         /\ Max(1 .. k) = k /\ (1 .. k) \ {k} = 1 .. k - 1
<1>1. 1 .. k \subseteq Int /\ k \in 1 .. k /\ \A j \in 1 .. k : j <= k
  OBVIOUS
<1>2. Max(1 .. k) = k
  <2> DEFINE s == 1 .. k
  <2>1. s \subseteq Int /\ k \in s /\ \A j \in s : j <= k
    BY <1>1
  <2> HIDE DEF s
  <2>2. Max(s) = k
    BY <2>1, MaxIs, Zenon
  <2> QED BY <2>2 DEF s
<1>3. 1 .. k \in SUBSET (1 .. n) /\ 1 .. k # {} /\ (1 .. k) \ {k} = 1 .. k - 1
  OBVIOUS
<1> QED BY <1>2, <1>3

Stays(n, A, F) == \A k \in 1 .. n : \A y \in A : F[<<y, k>>] \in A

Follows(v, n, A, F) == \A k \in 1 .. n : v[k - 1] \in A => v[k] = F[<<v[k - 1], k>>]

(* Two runs along the same steps end alike.                                *)
LEMMA ChainsAgree ==
  ASSUME NEW n \in Nat, NEW A, NEW F, NEW v, NEW w, v[0] = w[0], v[0] \in A,
         Stays(n, A, F), Follows(v, n, A, F), Follows(w, n, A, F)
  PROVE  \A k \in 0 .. n : v[k] = w[k] /\ v[k] \in A
<1> DEFINE T == {k \in Nat : k <= n => v[k] = w[k] /\ v[k] \in A}
<1>1. 0 \in T
  OBVIOUS
<1>2. ASSUME NEW k \in Nat, k \in T PROVE k + 1 \in T
  <2> DEFINE m == k + 1
  <2>1. m \in Nat /\ m - 1 = k
    OBVIOUS
  <2>2. ASSUME m <= n PROVE v[m] = w[m] /\ v[m] \in A
    <3>1. m \in 1 .. n /\ k <= n
      BY <2>2
    <3>2. v[k] = w[k] /\ v[k] \in A
      BY <1>2, <3>1, Zenon
    <3> HIDE DEF m
    <3>3. v[m] = F[<<v[k], m>>] /\ w[m] = F[<<w[k], m>>]
      BY <2>1, <3>1, <3>2, Zenon DEF Follows
    <3>4. F[<<v[k], m>>] \in A
      BY <3>1, <3>2, Zenon DEF Stays
    <3> QED BY <3>2, <3>3, <3>4, Zenon
  <2> QED BY <2>1, <2>2, Zenon
<1> HIDE DEF T
<1>3. Nat \subseteq T
  BY <1>1, <1>2, SetInduction
<1>4. \A k \in 0 .. n : k \in Nat /\ k <= n
  OBVIOUS
<1> QED BY <1>3, <1>4, Zenon DEF T

(* The names of a path, added up from the first.                           *)
IsSum(f, names) ==
  f = [s \in SUBSET DOMAIN names |->
         IF s = {} THEN 0 ELSE f[s \ {Max(s)}] + names[Max(s)].length + 1]

SumChain(v, names) ==
  /\ v[0] = 0
  /\ \A k \in 1 .. Len(names) : v[k] = v[k - 1] + names[k].length + 1

LEMMA NameLength ==
  ASSUME NEW names \in Seq(Names), NEW k \in 1 .. Len(names)
  PROVE  names[k] \in Names /\ names[k].length \in Nat
<1>1. names[k] \in Names
  BY ElementOfSeq, Zenon
<1> QED BY <1>1 DEF Names

LEMMA SumExists ==
  ASSUME NEW names \in Seq(Names)
  PROVE  \E f : IsSum(f, names)
<1> DEFINE n == Len(names)
           F == [z \in Nat \X (1 .. n) |-> z[1] + names[z[2]].length + 1]
<1>1. n \in Nat /\ DOMAIN names = 1 .. n
  BY SeqDomain, Zenon
<1>2. ASSUME NEW y \in Nat, NEW k \in 1 .. n
      PROVE  F[<<y, k>>] = y + names[k].length + 1 /\ F[<<y, k>>] \in Nat
  <2>1. names[k].length \in Nat
    BY NameLength, Zenon
  <2>2. <<y, k>> \in Nat \X (1 .. n) /\ F[<<y, k>>] = y + names[k].length + 1
    OBVIOUS
  <2> QED BY <2>1, <2>2
<1>3. F \in [Nat \X (1 .. n) -> Nat]
  <2>1. ASSUME NEW z \in Nat \X (1 .. n) PROVE z[1] + names[z[2]].length + 1 \in Nat
    <3>1. names[z[2]].length \in Nat
      BY NameLength
    <3> QED BY <3>1
  <2> QED BY <2>1
<1> HIDE DEF F, n
<1>4. 0 \in Nat
  OBVIOUS
<1>5. PICK f \in [SUBSET (1 .. n) -> Nat] : IsIter(f, 0, F, n)
  BY <1>1, <1>3, <1>4, IterExists, Zenon
<1>6. ASSUME NEW s \in SUBSET (1 .. n), s # {}
      PROVE  f[s] = f[s \ {Max(s)}] + names[Max(s)].length + 1
  <2> DEFINE m == Max(s)
             r == s \ {m}
  <2>1. m \in 1 .. n /\ r \in SUBSET (1 .. n)
    BY <1>1, <1>6, SubsetMax, Zenon
  <2>2. f[s] = F[<<f[r], m>>]
    BY <1>5, <1>6, Zenon DEF IsIter
  <2>3. f[r] \in Nat
    BY <2>1, Zenon
  <2> HIDE DEF m, r
  <2>4. F[<<f[r], m>>] = f[r] + names[m].length + 1
    BY <1>2, <2>1, <2>3, Zenon
  <2> QED BY <2>2, <2>4 DEF m, r
<1>7. f[{}] = 0
  BY <1>5, Zenon DEF IsIter
<1>8. \A s \in SUBSET (1 .. n) : f[s] = IF s = {} THEN 0 ELSE f[s \ {Max(s)}] + names[Max(s)].length + 1
  BY <1>6, <1>7, Zenon
<1>9. f = [s \in SUBSET (1 .. n) |-> f[s]]
  BY <1>5, Zenon
<1>10. f = [s \in SUBSET (1 .. n) |-> IF s = {} THEN 0 ELSE f[s \ {Max(s)}] + names[Max(s)].length + 1]
  BY <1>8, <1>9, Zenon
<1> QED BY <1>1, <1>10, Zenon DEF IsSum

LEMMA BytesChain ==
  ASSUME NEW names \in Seq(Names)
  PROVE  \E v : SumChain(v, names) /\ Bytes(names) = v[Len(names)]
<1> DEFINE n == Len(names)
           f == CHOOSE f : IsSum(f, names)
           v == [k \in 0 .. n |-> f[1 .. k]]
<1>1. n \in Nat /\ DOMAIN names = 1 .. n
  BY SeqDomain, Zenon
<1>2. IsSum(f, names)
  BY SumExists, Zenon
<1>3. Bytes(names) = f[DOMAIN names]
  BY Zenon DEF Bytes, FoldLeft, MapThenFoldSet, IsSum
<1>4. \A s \in SUBSET (1 .. n) : f[s] = IF s = {} THEN 0 ELSE f[s \ {Max(s)}] + names[Max(s)].length + 1
  BY <1>1, <1>2, Zenon DEF IsSum
<1> HIDE DEF f
<1>5. \A k \in 0 .. n : v[k] = f[1 .. k]
  BY Zenon
<1> HIDE DEF v
<1>6. 0 \in 0 .. n /\ n \in 0 .. n /\ 1 .. 0 = {} /\ {} \in SUBSET (1 .. n)
  BY <1>1
<1>7. v[0] = 0
  BY <1>4, <1>5, <1>6, Zenon
<1>8. ASSUME NEW k \in 1 .. n PROVE v[k] = v[k - 1] + names[k].length + 1
  <2>1. /\ 1 .. k \in SUBSET (1 .. n) /\ 1 .. k # {}
        /\ Max(1 .. k) = k /\ (1 .. k) \ {k} = 1 .. k - 1
    BY <1>1, Prefix, Zenon
  <2>2. k \in 0 .. n /\ k - 1 \in 0 .. n
    BY <1>1
  <2>3. f[1 .. k] = f[1 .. k - 1] + names[k].length + 1
    BY <1>4, <2>1, Zenon
  <2> QED BY <1>5, <2>2, <2>3, Zenon
<1>9. SumChain(v, names)
  BY <1>7, <1>8, Zenon DEF SumChain
<1>10. Bytes(names) = v[n]
  BY <1>1, <1>3, <1>5, <1>6, Zenon
<1> QED BY <1>9, <1>10

Begins(s, t) == Len(s) <= Len(t) /\ \A k \in 1 .. Len(s) : t[k] = s[k]

LEMMA SumUnique ==
  ASSUME NEW names \in Seq(Names), NEW t \in Seq(Names), Begins(names, t),
         NEW v, SumChain(v, names), NEW w, SumChain(w, t)
  PROVE  \A k \in 0 .. Len(names) : v[k] = w[k] /\ v[k] \in Nat
<1> DEFINE n == Len(names)
           F == [z \in Nat \X (1 .. n) |-> z[1] + names[z[2]].length + 1]
<1>1. n \in Nat /\ Len(t) \in Nat
  BY SeqDomain, Zenon
<1>2. ASSUME NEW y \in Nat, NEW k \in 1 .. n
      PROVE  F[<<y, k>>] = y + names[k].length + 1 /\ F[<<y, k>>] \in Nat
  <2>1. names[k].length \in Nat
    BY NameLength, Zenon
  <2>2. <<y, k>> \in Nat \X (1 .. n) /\ F[<<y, k>>] = y + names[k].length + 1
    OBVIOUS
  <2> QED BY <2>1, <2>2
<1>3. v[0] = 0 /\ w[0] = 0 /\ 0 \in Nat
  BY DEF SumChain
<1>4. \A k \in 1 .. n : v[k] = v[k - 1] + names[k].length + 1
  BY Zenon DEF SumChain
<1>5. n <= Len(t) /\ \A k \in 1 .. n : t[k] = names[k]
  BY Zenon DEF Begins
<1>51. \A k \in 1 .. n : k \in 1 .. Len(t)
  BY <1>1, <1>5
<1>6. \A k \in 1 .. n : w[k] = w[k - 1] + names[k].length + 1
  BY <1>5, <1>51, Zenon DEF SumChain
<1> HIDE DEF F, n
<1>7. Follows(v, n, Nat, F)
  BY <1>2, <1>4, ZenonT(90) DEF Follows
<1>8. Follows(w, n, Nat, F)
  BY <1>2, <1>6, ZenonT(90) DEF Follows
<1>9. Stays(n, Nat, F)
  BY <1>2, Zenon DEF Stays
<1>10. \A k \in 0 .. n : v[k] = w[k] /\ v[k] \in Nat
  <2>1. v[0] = w[0] /\ v[0] \in Nat
    BY <1>3
  <2> QED BY <1>1, <1>7, <1>8, <1>9, <2>1, ChainsAgree, Zenon
<1> QED BY <1>10 DEF n

LEMMA AppendBegins ==
  ASSUME NEW S, NEW s \in Seq(S), NEW x \in S
  PROVE  /\ Begins(s, Append(s, x)) /\ Append(s, x) \in Seq(S)
         /\ Len(Append(s, x)) = Len(s) + 1 /\ Len(s) \in Nat
         /\ Append(s, x)[Len(s) + 1] = x
<1>1. /\ Append(s, x) \in Seq(S) /\ Len(Append(s, x)) = Len(s) + 1
      /\ Append(s, x)[Len(s) + 1] = x /\ Len(s) \in Nat
  OBVIOUS
<1>2. Begins(s, Append(s, x))
  <2>1. Len(s) <= Len(Append(s, x)) /\ \A k \in 1 .. Len(s) : Append(s, x)[k] = s[k]
    OBVIOUS
  <2> QED BY <2>1, Zenon DEF Begins
<1> QED BY <1>1, <1>2

LEMMA BytesFact ==
  /\ Bytes(<<>>) = 0
  /\ \A s \in Seq(Names) : Bytes(s) \in Nat
  /\ \A s \in Seq(Names), x \in Names : Bytes(Append(s, x)) = Bytes(s) + x.length + 1
<1>1. Bytes(<<>>) = 0
  <2>1. <<>> \in Seq(Names) /\ Len(<<>>) = 0
    OBVIOUS
  <2> QED BY <2>1, BytesChain, Zenon DEF SumChain
<1>2. ASSUME NEW s \in Seq(Names) PROVE Bytes(s) \in Nat
  <2>1. PICK v : SumChain(v, s) /\ Bytes(s) = v[Len(s)]
    BY BytesChain, Zenon
  <2>2. Begins(s, s) /\ Len(s) \in 0 .. Len(s)
    BY DEF Begins
  <2> QED BY <2>1, <2>2, SumUnique, ZenonT(90)
<1>3. ASSUME NEW s \in Seq(Names), NEW x \in Names PROVE Bytes(Append(s, x)) = Bytes(s) + x.length + 1
  <2> DEFINE t == Append(s, x)
  <2>1. /\ Begins(s, t) /\ t \in Seq(Names)
        /\ Len(t) = Len(s) + 1 /\ Len(s) \in Nat /\ t[Len(s) + 1] = x
    BY AppendBegins, Zenon
  <2> HIDE DEF t
  <2>2. PICK v : SumChain(v, s) /\ Bytes(s) = v[Len(s)]
    BY BytesChain, Zenon
  <2>3. PICK w : SumChain(w, t) /\ Bytes(t) = w[Len(t)]
    BY <2>1, BytesChain, Zenon
  <2>4. Len(s) \in 0 .. Len(s)
    BY <2>1
  <2>5. v[Len(s)] = w[Len(s)]
    <3>1. Begins(s, t) /\ t \in Seq(Names) /\ SumChain(v, s) /\ SumChain(w, t)
      BY <2>1, <2>2, <2>3
    <3>2. \A k \in 0 .. Len(s) : v[k] = w[k] /\ v[k] \in Nat
      BY <3>1, SumUnique, Zenon
    <3> QED BY <2>4, <3>2, Zenon
  <2>6. Len(s) + 1 \in 1 .. Len(t) /\ (Len(s) + 1) - 1 = Len(s)
    BY <2>1
  <2>7. w[Len(s) + 1] = w[Len(s)] + x.length + 1
    BY <2>1, <2>3, <2>6, Zenon DEF SumChain
  <2> QED BY <2>1, <2>2, <2>3, <2>5, <2>7, Zenon DEF t
<1> QED BY <1>1, <1>2, <1>3

(* The way down a path, from a node or from an error, that stays.          *)
Offsets(P) == {P[j] : j \in 1 .. Count} \cup {NOTFOUND, BADPATH}

Hop(at, name) == IF at < 0 THEN at ELSE fdt_subnode_offset(at, name)

IsDescent(f, o, comps) ==
  f = [s \in SUBSET DOMAIN comps |-> IF s = {} THEN o ELSE Hop(f[s \ {Max(s)}], comps[Max(s)])]

DescentChain(v, o, comps) ==
  v[0] = o /\ \A k \in 1 .. Len(comps) : v[k] = Hop(v[k - 1], comps[k])

LEMMA HopFact ==
  ASSUME FromFile, NEW P, Layout(P), NEW name
  PROVE  /\ \A i \in 1 .. Count :
              Hop(P[i], name) = IF Named(i, name) = {} THEN NOTFOUND ELSE P[Min(Named(i, name))]
         /\ \A i \in 1 .. Count : Named(i, name) # {} => Min(Named(i, name)) \in Named(i, name)
         /\ \A i \in 1 .. Count : Named(i, name) \subseteq 1 .. Count
         /\ \A at \in Offsets(P) : Hop(at, name) \in Offsets(P)
<1>1. ASSUME NEW i \in 1 .. Count
      PROVE  Hop(P[i], name) = IF Named(i, name) = {} THEN NOTFOUND ELSE P[Min(Named(i, name))]
  <2>1. Count \in Nat /\ \A j \in 1 .. Count + 1 : P[j] \in Nat
    BY TreeFact, PlaceFact, Zenon
  <2>2. i \in 1 .. Count + 1
    BY <2>1
  <2>3. P[i] \in Nat
    BY <2>1, <2>2
  <2>4. ~(P[i] < 0)
    BY <2>3
  <2> QED BY <2>4, SubnodeOffsetFact, Zenon DEF Hop
<1>2. ASSUME NEW i \in 1 .. Count
      PROVE  /\ Named(i, name) \subseteq 1 .. Count
             /\ Named(i, name) # {} => Min(Named(i, name)) \in Named(i, name)
  <2>1. Named(i, name) \subseteq 1 .. Count
    BY Zenon DEF Named, Kids
  <2>2. 1 .. Count \subseteq Nat
    OBVIOUS
  <2>3. Named(i, name) \subseteq Nat
    BY <2>1, <2>2, Zenon
  <2> QED BY <2>1, <2>3, MinFact, Zenon
<1>3. ASSUME NEW at \in Offsets(P) PROVE Hop(at, name) \in Offsets(P)
  <2>1. CASE at \in {NOTFOUND, BADPATH}
    <3>1. at < 0
      BY <2>1 DEF NOTFOUND, BADPATH
    <3> QED BY <2>1, <3>1, Zenon DEF Hop, Offsets
  <2>2. CASE \E i \in 1 .. Count : at = P[i]
    <3>1. PICK i \in 1 .. Count : at = P[i]
      BY <2>2
    <3> DEFINE m == Min(Named(i, name))
    <3>2. Named(i, name) # {} => m \in 1 .. Count
      BY <1>2, Zenon
    <3>3. Hop(at, name) = IF Named(i, name) = {} THEN NOTFOUND ELSE P[m]
      BY <1>1, <3>1, Zenon
    <3> HIDE DEF m
    <3> QED BY <3>2, <3>3, Zenon DEF Offsets
  <2> QED BY <2>1, <2>2, Zenon DEF Offsets
<1> QED BY <1>1, <1>2, <1>3, Zenon

LEMMA DescentExists ==
  ASSUME FromFile, NEW P, Layout(P), NEW o \in Offsets(P), NEW S, NEW comps \in Seq(S)
  PROVE  \E f : IsDescent(f, o, comps)
<1> DEFINE n == Len(comps)
           A == Offsets(P)
           F == [z \in A \X (1 .. n) |-> Hop(z[1], comps[z[2]])]
<1>1. n \in Nat /\ DOMAIN comps = 1 .. n
  BY SeqDomain, Zenon
<1>2. \A y \in A : \A k \in 1 .. n : F[<<y, k>>] = Hop(y, comps[k])
  OBVIOUS
<1>3. F \in [A \X (1 .. n) -> A]
  <2>1. ASSUME NEW z \in A \X (1 .. n) PROVE Hop(z[1], comps[z[2]]) \in A
    <3>1. z[1] \in A
      OBVIOUS
    <3> QED BY <3>1, HopFact, Zenon
  <2> QED BY <2>1, Zenon
<1> HIDE DEF F, n, A
<1>4. o \in A
  BY DEF A
<1>5. PICK f \in [SUBSET (1 .. n) -> A] : IsIter(f, o, F, n)
  BY <1>1, <1>3, <1>4, IterExists, Zenon
<1>6. ASSUME NEW s \in SUBSET (1 .. n), s # {}
      PROVE  f[s] = Hop(f[s \ {Max(s)}], comps[Max(s)])
  <2> DEFINE m == Max(s)
             r == s \ {m}
  <2>1. m \in 1 .. n /\ r \in SUBSET (1 .. n)
    BY <1>1, <1>6, SubsetMax, Zenon
  <2>2. f[s] = F[<<f[r], m>>]
    BY <1>5, <1>6, Zenon DEF IsIter
  <2>3. f[r] \in A
    BY <2>1, Zenon
  <2> HIDE DEF m, r
  <2>4. F[<<f[r], m>>] = Hop(f[r], comps[m])
    BY <1>2, <2>1, <2>3, Zenon
  <2> QED BY <2>2, <2>4 DEF m, r
<1>7. f[{}] = o
  BY <1>5, Zenon DEF IsIter
<1>8. \A s \in SUBSET (1 .. n) : f[s] = IF s = {} THEN o ELSE Hop(f[s \ {Max(s)}], comps[Max(s)])
  BY <1>6, <1>7, Zenon
<1>9. f = [s \in SUBSET (1 .. n) |-> f[s]]
  BY <1>5, Zenon
<1>10. f = [s \in SUBSET (1 .. n) |-> IF s = {} THEN o ELSE Hop(f[s \ {Max(s)}], comps[Max(s)])]
  BY <1>8, <1>9, Zenon
<1> QED BY <1>1, <1>10, Zenon DEF IsDescent

LEMMA DescendChain ==
  ASSUME FromFile, NEW P, Layout(P), NEW o \in Offsets(P), NEW S, NEW comps \in Seq(S)
  PROVE  \E v : DescentChain(v, o, comps) /\ Descend(o, comps) = v[Len(comps)]
<1> DEFINE n == Len(comps)
           f == CHOOSE f : IsDescent(f, o, comps)
           v == [k \in 0 .. n |-> f[1 .. k]]
<1>1. n \in Nat /\ DOMAIN comps = 1 .. n
  BY SeqDomain, Zenon
<1>2. IsDescent(f, o, comps)
  BY DescentExists, Zenon
<1>3. Descend(o, comps) = f[DOMAIN comps]
  BY Zenon DEF Descend, FoldLeft, MapThenFoldSet, IsDescent, Hop
<1>4. \A s \in SUBSET (1 .. n) : f[s] = IF s = {} THEN o ELSE Hop(f[s \ {Max(s)}], comps[Max(s)])
  BY <1>1, <1>2, Zenon DEF IsDescent
<1> HIDE DEF f
<1>5. \A k \in 0 .. n : v[k] = f[1 .. k]
  BY Zenon
<1> HIDE DEF v
<1>6. 0 \in 0 .. n /\ n \in 0 .. n /\ 1 .. 0 = {} /\ {} \in SUBSET (1 .. n)
  BY <1>1
<1>7. v[0] = o
  BY <1>4, <1>5, <1>6, Zenon
<1>8. ASSUME NEW k \in 1 .. n PROVE v[k] = Hop(v[k - 1], comps[k])
  <2>1. /\ 1 .. k \in SUBSET (1 .. n) /\ 1 .. k # {}
        /\ Max(1 .. k) = k /\ (1 .. k) \ {k} = 1 .. k - 1
    BY <1>1, Prefix, Zenon
  <2>2. k \in 0 .. n /\ k - 1 \in 0 .. n
    BY <1>1
  <2>3. f[1 .. k] = Hop(f[1 .. k - 1], comps[k])
    BY <1>4, <2>1, Zenon
  <2> QED BY <1>5, <2>2, <2>3, Zenon
<1>9. DescentChain(v, o, comps)
  BY <1>7, <1>8, Zenon DEF DescentChain
<1>10. Descend(o, comps) = v[n]
  BY <1>1, <1>3, <1>5, <1>6, Zenon
<1> QED BY <1>9, <1>10

LEMMA DescentStays ==
  ASSUME FromFile, NEW P, Layout(P), NEW o \in Offsets(P), NEW S, NEW comps \in Seq(S),
         NEW v, DescentChain(v, o, comps)
  PROVE  \A k \in 0 .. Len(comps) : v[k] \in Offsets(P)
<1> DEFINE T == {k \in Nat : k <= Len(comps) => v[k] \in Offsets(P)}
<1>1. 0 \in T
  <2>1. v[0] \in Offsets(P) /\ 0 \in Nat
    BY DEF DescentChain
  <2> QED BY <2>1, Zenon
<1>2. ASSUME NEW k \in Nat, k \in T PROVE k + 1 \in T
  <2> DEFINE m == k + 1
  <2>1. m \in Nat /\ m - 1 = k
    OBVIOUS
  <2>2. ASSUME m <= Len(comps) PROVE v[m] \in Offsets(P)
    <3>1. m \in 1 .. Len(comps) /\ k <= Len(comps)
      BY <2>2
    <3>2. v[k] \in Offsets(P)
      BY <1>2, <3>1, Zenon
    <3> HIDE DEF m
    <3>3. v[m] = Hop(v[k], comps[m])
      BY <2>1, <3>1, Zenon DEF DescentChain
    <3> QED BY <3>2, <3>3, HopFact, Zenon
  <2> QED BY <2>1, <2>2, Zenon
<1> HIDE DEF T
<1>3. Nat \subseteq T
  BY <1>1, <1>2, SetInduction
<1>4. \A k \in 0 .. Len(comps) : k \in Nat /\ k <= Len(comps)
  OBVIOUS
<1> QED BY <1>3, <1>4, Zenon DEF T

LEMMA DescendOffset ==
  ASSUME FromFile, NEW P, Layout(P), NEW o \in Offsets(P), NEW S, NEW comps \in Seq(S)
  PROVE  Descend(o, comps) \in Offsets(P)
<1>1. PICK v : DescentChain(v, o, comps) /\ Descend(o, comps) = v[Len(comps)]
  BY DescendChain, Zenon
<1>2. Len(comps) \in 0 .. Len(comps)
  OBVIOUS
<1>3. \A k \in 0 .. Len(comps) : v[k] \in Offsets(P)
  BY <1>1, DescentStays, Zenon
<1> QED BY <1>1, <1>2, <1>3, Zenon

LEMMA RootOffset ==
  ASSUME FromFile, NEW P, Layout(P)
  PROVE  P[1] = 0 /\ 1 \in 1 .. Count /\ 0 \in Offsets(P)
<1>1. P[1] = 0 /\ Count \in Nat /\ Count > 0
  BY PlaceFact, TreeFact, Zenon
<1>2. 1 \in 1 .. Count
  BY <1>1
<1> QED BY <1>1, <1>2, Zenon DEF Offsets

-----------------------------------------------------------------------------
(* Aliases: the node that holds them, and what an alias stands for.        *)
AliasName == [base |-> "aliases", at |-> "", length |-> 7]

Tops == {i \in 1 .. Count : Depth(i) = 1 /\ tree.name[i].base = "aliases"}

Leads(alias) == {a \in DOMAIN Aliases : Aliases[a].name = alias}

Plain(alias) == alias # "linux,phandle"

LEMMA TopsFact ==
  ASSUME FromFile
  PROVE  Named(1, AliasName) = Tops
<1>1. /\ Count \in Nat /\ Count > 0 /\ \A i \in 1 .. Count : Depth(i) \in Nat
      /\ Depth(1) = 0 /\ \A i \in 2 .. Count : Depth(i) >= 1
  BY TreeFact, Zenon
<1>2. ASSUME NEW i \in 1 .. Count PROVE i \in Kids(1) <=> Depth(i) = 1
  <2>1. ASSUME Depth(i) = 1 PROVE i \in Kids(1)
    <3>1. 1 < i
      BY <1>1, <2>1
    <3>2. Depth(1) = Depth(i) - 1
      BY <1>1, <2>1
    <3>3. \A m \in 1 + 1 .. i - 1 : m \in 2 .. Count
      BY <1>1
    <3>4. \A m \in 1 + 1 .. i - 1 : Depth(m) >= Depth(i)
      BY <1>1, <2>1, <3>3, Zenon
    <3> QED BY <3>1, <3>2, <3>4, Zenon DEF Kids
  <2>2. ASSUME i \in Kids(1) PROVE Depth(i) = 1
    <3>1. Depth(1) = Depth(i) - 1
      BY <2>2, Zenon DEF Kids
    <3> QED BY <3>1, <1>1
  <2> QED BY <2>1, <2>2
<1>3. AliasName.at = "" /\ AliasName.base = "aliases"
  BY DEF AliasName
<1>4. \A i \in Kids(1) : i \in 1 .. Count
  BY Zenon DEF Kids
<1>5. \A i : i \in Named(1, AliasName) <=> i \in Kids(1) /\ tree.name[i].base = "aliases"
  BY <1>3, Zenon DEF Named
<1> QED BY <1>2, <1>4, <1>5, Zenon DEF Tops

LEMMA LeadsFact ==
  ASSUME NEW alias, Leads(alias) # {}
  PROVE  /\ Min(Leads(alias)) \in Leads(alias) /\ \A a \in Leads(alias) : Min(Leads(alias)) <= a
         /\ Leads(alias) \subseteq Nat /\ Leads(alias) \subseteq DOMAIN Aliases
         /\ Aliases[Min(Leads(alias))].path \in Seq(Names)
<1> DEFINE R == [name : STRING \ {"linux,phandle"}, path : Seq(Names)]
<1>1. Aliases \in Seq(R)
  BY PathsAssumption, Zenon
<1>2. DOMAIN Aliases = 1 .. Len(Aliases) /\ Len(Aliases) \in Nat
  BY <1>1, SeqDomain, Zenon
<1>3. DOMAIN Aliases \subseteq Nat
  BY <1>2
<1>4. Leads(alias) \subseteq DOMAIN Aliases
  BY Zenon DEF Leads
<1>5. Min(Leads(alias)) \in Leads(alias) /\ \A a \in Leads(alias) : Min(Leads(alias)) <= a
  BY <1>3, <1>4, MinFact, Zenon
<1>6. \A a \in DOMAIN Aliases : Aliases[a] \in R
  BY <1>1, <1>2, ElementOfSeq, Zenon
<1>7. \A r \in R : r.path \in Seq(Names)
  OBVIOUS
<1> QED BY <1>3, <1>4, <1>5, <1>6, <1>7, Zenon

LEMMA AliasKey ==
  ASSUME FromFile, NEW i \in 1 .. Count, tree.name[i].base = "aliases",
         NEW alias, Plain(alias)
  PROVE  /\ Keyed(i, alias) = {1 + a : a \in Leads(alias)}
         /\ \A a \in Leads(alias) : Ps(i)[1 + a].val = Aliases[a].path
<1>1. /\ Wide(i) = 1 + Len(Aliases)
      /\ \A a \in DOMAIN Aliases : Ps(i)[1 + a] = Prop(Aliases[a].name, Aliases[a].path)
      /\ Ps(i)[1] = IF tree.ihandle[i] = 0 THEN [tag |-> "NOP"] ELSE Prop("linux,phandle", tree.ihandle[i])
  BY PropsFact, Zenon DEF Ps
<1>2. DOMAIN Aliases = 1 .. Len(Aliases) /\ Len(Aliases) \in Nat
  BY PathsAssumption, SeqDomain, Zenon
<1>20. Wide(i) = 1 + Len(Aliases)
  BY <1>1, Zenon
<1>3. \A a \in DOMAIN Aliases :
        Ps(i)[1 + a].tag = "PROP" /\ Ps(i)[1 + a].name = Aliases[a].name /\ Ps(i)[1 + a].val = Aliases[a].path
  <2>1. ASSUME NEW a \in DOMAIN Aliases
        PROVE  Ps(i)[1 + a].tag = "PROP" /\ Ps(i)[1 + a].name = Aliases[a].name /\ Ps(i)[1 + a].val = Aliases[a].path
    <3> DEFINE q == Prop(Aliases[a].name, Aliases[a].path)
    <3>1. q.tag = "PROP" /\ q.name = Aliases[a].name /\ q.val = Aliases[a].path
      BY PropFields
    <3>2. Ps(i)[1 + a] = q
      BY <1>1
    <3> QED BY <3>1, <3>2, Zenon
  <2> QED BY <2>1
<1>4. 1 \notin Keyed(i, alias)
  <2>1. CASE tree.ihandle[i] = 0
    <3>1. Ps(i)[1] = [tag |-> "NOP"]
      BY <1>1, <2>1
    <3> DEFINE x == Ps(i)[1]
    <3>2. x.tag # "PROP"
      <4>1. x = [tag |-> "NOP"]
        BY <3>1
      <4> HIDE DEF x
      <4> QED BY <4>1
    <3> QED BY <3>2, Zenon DEF Keyed
  <2>2. CASE tree.ihandle[i] # 0
    <3>1. Ps(i)[1] = Prop("linux,phandle", tree.ihandle[i])
      BY <1>1, <2>2
    <3>2. Ps(i)[1].name = "linux,phandle"
      <4>1. Prop("linux,phandle", tree.ihandle[i]).name = "linux,phandle"
        BY PropFields
      <4> QED BY <3>1, <4>1, Zenon
    <3> QED BY <3>2, Zenon DEF Keyed, Plain
  <2> QED BY <2>1, <2>2
<1>5. ASSUME NEW j \in Keyed(i, alias) PROVE \E a \in Leads(alias) : j = 1 + a
  <2>1. j \in 1 .. Wide(i) /\ Ps(i)[j].name = alias
    BY DEF Keyed
  <2>2. j # 1
    BY <1>4
  <2> DEFINE a == j - 1
  <2>3. a \in DOMAIN Aliases /\ j = 1 + a
    <3>1. j \in 1 .. Wide(i)
      BY <2>1, Zenon
    <3> QED BY <1>2, <1>20, <2>2, <3>1
  <2> HIDE DEF a
  <2>4. a \in Leads(alias)
    BY <1>3, <2>1, <2>3, Zenon DEF Leads
  <2> QED BY <2>3, <2>4
<1>6. ASSUME NEW a \in Leads(alias) PROVE 1 + a \in Keyed(i, alias)
  <2>1. a \in DOMAIN Aliases /\ Aliases[a].name = alias
    BY DEF Leads
  <2>2. 1 + a \in 1 .. Wide(i)
    <3>1. a \in DOMAIN Aliases
      BY <2>1, Zenon
    <3> QED BY <1>2, <1>20, <3>1
  <2> QED BY <1>3, <2>1, <2>2, Zenon DEF Keyed
<1>7. Keyed(i, alias) = {1 + a : a \in Leads(alias)}
  <2>1. ASSUME NEW x \in Keyed(i, alias) PROVE x \in {1 + a : a \in Leads(alias)}
    BY <1>5, Zenon
  <2>2. ASSUME NEW x \in {1 + a : a \in Leads(alias)} PROVE x \in Keyed(i, alias)
    BY <1>6, Zenon
  <2> QED BY <2>1, <2>2
<1> QED BY <1>3, <1>7, Zenon DEF Leads

LEMMA AliasFact ==
  ASSUME FromFile, NEW P, Layout(P), NEW alias, Plain(alias)
  PROVE  fdt_get_alias(alias) = IF Tops = {} \/ Leads(alias) = {} THEN BADPATH
                                ELSE Descend(0, Aliases[Min(Leads(alias))].path)
<1>0. P[1] = 0 /\ 1 \in 1 .. Count /\ 0 \in Offsets(P)
  BY RootOffset, Zenon
<1> DEFINE m == Min(Tops)
<1>1. AliasesNode = IF Tops = {} THEN NOTFOUND ELSE P[m]
  <2> DEFINE comps == <<AliasName>>
  <2>2. comps \in Seq({AliasName}) /\ Len(comps) = 1 /\ comps[1] = AliasName
    OBVIOUS
  <2>3. AliasesNode = Descend(0, comps)
    BY Zenon DEF AliasesNode, AliasName
  <2> HIDE DEF comps
  <2>4. PICK v : DescentChain(v, 0, comps) /\ Descend(0, comps) = v[Len(comps)]
    BY <1>0, <2>2, DescendChain, Zenon
  <2>5. 1 \in 1 .. 1 /\ 1 - 1 = 0
    OBVIOUS
  <2>6. v[1] = Hop(0, AliasName)
    BY <2>2, <2>4, <2>5, Zenon DEF DescentChain
  <2>7. Hop(P[1], AliasName) = IF Named(1, AliasName) = {} THEN NOTFOUND ELSE P[Min(Named(1, AliasName))]
    BY <1>0, HopFact, Zenon
  <2> QED BY <1>0, <2>2, <2>3, <2>4, <2>6, <2>7, TopsFact, Zenon
<1>2. CASE Tops = {}
  <2>1. ~(NOTFOUND >= 0)
    BY DEF NOTFOUND
  <2> QED BY <1>1, <1>2, <2>1, Zenon DEF fdt_get_alias
<1>3. CASE Tops # {}
  <2>1. m \in 1 .. Count /\ tree.name[m].base = "aliases"
    <3>1. 1 .. Count \subseteq Nat /\ Tops \subseteq 1 .. Count
      BY DEF Tops
    <3>2. m \in Tops
      BY <1>3, <3>1, MinFact, Zenon
    <3> QED BY <3>2, Zenon DEF Tops
  <2> HIDE DEF m
  <2>2. P[m] >= 0
    <3>1. Count \in Nat /\ \A j \in 1 .. Count + 1 : P[j] \in Nat
      BY TreeFact, PlaceFact, Zenon
    <3>2. m \in 1 .. Count + 1
      BY <2>1, <3>1
    <3>3. P[m] \in Nat
      BY <3>1, <3>2
    <3> QED BY <3>3
  <2>3. /\ HasProp(P[m], alias) <=> Keyed(m, alias) # {}
        /\ Keyed(m, alias) # {} => fdt_getprop(P[m], alias) = Ps(m)[Min(Keyed(m, alias))].val
    BY <2>1, PropertyFact, Zenon
  <2>4. /\ Keyed(m, alias) = {1 + a : a \in Leads(alias)}
        /\ \A a \in Leads(alias) : Ps(m)[1 + a].val = Aliases[a].path
    BY <2>1, AliasKey, Zenon
  <2>5. CASE Leads(alias) = {}
    <3>1. Keyed(m, alias) = {}
      BY <2>4, <2>5, Zenon
    <3> QED BY <1>1, <1>3, <2>3, <2>5, <3>1, Zenon DEF fdt_get_alias
  <2>6. CASE Leads(alias) # {}
    <3> DEFINE l == Min(Leads(alias))
               K == Keyed(m, alias)
    <3>1. l \in Leads(alias) /\ (\A a \in Leads(alias) : l <= a) /\ Leads(alias) \subseteq Nat
      BY <2>6, LeadsFact, Zenon
    <3>2. 1 + l \in K /\ \A k \in K : \E a \in Leads(alias) : k = 1 + a
      BY <2>4, <3>1, Zenon
    <3> HIDE DEF l, K
    <3>3. K \subseteq Int /\ \A k \in K : 1 + l <= k
      <4>1. ASSUME NEW k \in K PROVE k \in Int /\ 1 + l <= k
        <5>1. PICK a \in Leads(alias) : k = 1 + a
          BY <3>2
        <5>2. a \in Nat /\ l \in Nat /\ l <= a
          BY <3>1
        <5> QED BY <5>1, <5>2
      <4> QED BY <4>1
    <3>4. Min(K) = 1 + l
      BY <3>2, <3>3, MinIs, Zenon
    <3>5. K # {} /\ Ps(m)[1 + l].val = Aliases[l].path
      BY <2>4, <3>1, <3>2, Zenon
    <3>6. HasProp(P[m], alias) /\ fdt_getprop(P[m], alias) = Aliases[l].path
      BY <2>3, <3>4, <3>5, Zenon DEF K
    <3> QED BY <1>1, <1>3, <2>2, <2>6, <3>6, Zenon DEF fdt_get_alias, l
  <2> QED BY <2>5, <2>6
<1> QED BY <1>2, <1>3

(* What finddevice finds is a node, or an error.                           *)
LEMMA PathOffset ==
  ASSUME FromFile, NEW P, Layout(P), NEW path, Plain(path.alias), path.comps \in Seq(Names)
  PROVE  fdt_path_offset(path) \in Offsets(P)
<1>1. 0 \in Offsets(P) /\ BADPATH \in Offsets(P)
  BY RootOffset, Zenon DEF Offsets
<1>2. fdt_get_alias(path.alias) \in Offsets(P)
  <2>1. CASE Tops = {} \/ Leads(path.alias) = {}
    BY <1>1, <2>1, AliasFact, Zenon
  <2>2. CASE ~(Tops = {} \/ Leads(path.alias) = {})
    <3>1. Aliases[Min(Leads(path.alias))].path \in Seq(Names)
      BY <2>2, LeadsFact, Zenon
    <3>2. Descend(0, Aliases[Min(Leads(path.alias))].path) \in Offsets(P)
      BY <1>1, <3>1, DescendOffset, Zenon
    <3> QED BY <2>2, <3>2, AliasFact, Zenon
  <2> QED BY <2>1, <2>2
<1> DEFINE o == IF path.alias = "" THEN 0 ELSE fdt_get_alias(path.alias)
<1>3. o \in Offsets(P)
  BY <1>1, <1>2
<1>4. fdt_path_offset(path) = Descend(o, path.comps)
  BY Zenon DEF fdt_path_offset
<1> HIDE DEF o
<1> QED BY <1>3, <1>4, DescendOffset, Zenon

(* The names on the way to a node, the root's first: its first m.          *)
Cut(k, m) == [d \in 1 .. m |-> tree.name[Above(k, d - 1)]]

LEMMA CutFact ==
  ASSUME FromFile, NEW k \in 1 .. Count, NEW m \in 0 .. Depth(k) + 1
  PROVE  /\ Cut(k, m) \in Seq(Names) /\ Len(Cut(k, m)) = m /\ m \in Nat
         /\ \A d \in 1 .. m : Cut(k, m)[d] = tree.name[Above(k, d - 1)]
<1>1. Depth(k) \in Nat /\ tree.name \in [1 .. Count -> Names]
  BY TreeFact, Zenon
<1>2. m \in Nat
  BY <1>1
<1>3. ASSUME NEW d \in 1 .. m PROVE tree.name[Above(k, d - 1)] \in Names
  <2>1. d - 1 \in 0 .. Depth(k)
    BY <1>1, <1>2
  <2>2. Above(k, d - 1) \in 1 .. Count
    BY <2>1, AboveFact, Zenon
  <2> QED BY <1>1, <2>2, Zenon
<1> DEFINE c == [d \in 1 .. m |-> tree.name[Above(k, d - 1)]]
<1>4. c = Cut(k, m)
  BY Zenon DEF Cut
<1>5. c \in [1 .. m -> Names] /\ \A d \in 1 .. m : c[d] = tree.name[Above(k, d - 1)]
  BY <1>3, Zenon
<1> HIDE DEF c
<1>6. c \in Seq(Names) /\ Len(c) = m
  BY <1>2, <1>5
<1> QED BY <1>2, <1>4, <1>5, <1>6, Zenon

LEMMA SameSeq ==
  ASSUME NEW S, NEW s \in Seq(S), NEW t \in Seq(S), Len(s) = Len(t), \A d \in 1 .. Len(s) : s[d] = t[d]
  PROVE  s = t
  OBVIOUS

LEMMA CutPrefix ==
  ASSUME FromFile, NEW k \in 1 .. Count, NEW m \in 0 .. Depth(k) + 1, NEW l \in 0 .. m
  PROVE  SubSeq(Cut(k, m), 1, l) = Cut(k, l)
<1>1. Depth(k) \in Nat
  BY TreeFact, Zenon
<1>2. l \in 0 .. Depth(k) + 1
  BY <1>1
<1> DEFINE c == Cut(k, m)
           e == Cut(k, l)
           s == SubSeq(c, 1, l)
<1>3. /\ c \in Seq(Names) /\ Len(c) = m
      /\ \A d \in 1 .. m : c[d] = tree.name[Above(k, d - 1)]
  BY CutFact, Zenon
<1>4. /\ e \in Seq(Names) /\ Len(e) = l /\ l \in Nat
      /\ \A d \in 1 .. l : e[d] = tree.name[Above(k, d - 1)]
  BY <1>2, CutFact, Zenon
<1> HIDE DEF c, e
<1>5. s \in Seq(Names) /\ Len(s) = l /\ \A d \in 1 .. l : s[d] = c[d] /\ d \in 1 .. m
  BY <1>3, <1>4
<1> HIDE DEF s
<1>6. \A d \in 1 .. l : s[d] = e[d]
  BY <1>3, <1>4, <1>5, Zenon
<1>7. s = e
  BY <1>4, <1>5, <1>6, SameSeq, Zenon
<1> QED BY <1>7 DEF s, c, e

LEMMA CutAppend ==
  ASSUME FromFile, NEW k \in 1 .. Count, NEW m \in 0 .. Depth(k)
  PROVE  /\ Append(Cut(k, m), tree.name[Above(k, m)]) = Cut(k, m + 1)
         /\ tree.name[Above(k, m)] \in Names
         /\ Bytes(Cut(k, m + 1)) = Bytes(Cut(k, m)) + tree.name[Above(k, m)].length + 1
         /\ Bytes(Cut(k, m)) \in Nat /\ Bytes(Cut(k, m + 1)) \in Nat
         /\ tree.name[Above(k, m)].length \in Nat
<1>1. Depth(k) \in Nat /\ tree.name \in [1 .. Count -> Names]
  BY TreeFact, Zenon
<1>2. m \in 0 .. Depth(k) + 1 /\ m + 1 \in 0 .. Depth(k) + 1 /\ m \in Nat
  BY <1>1
<1> DEFINE x == tree.name[Above(k, m)]
           c == Cut(k, m)
           e == Cut(k, m + 1)
           s == Append(c, x)
<1>3. x \in Names
  <2>1. Above(k, m) \in 1 .. Count
    BY AboveFact, Zenon
  <2> QED BY <1>1, <2>1, Zenon
<1>4. /\ c \in Seq(Names) /\ Len(c) = m
      /\ \A d \in 1 .. m : c[d] = tree.name[Above(k, d - 1)]
  BY <1>2, CutFact, Zenon
<1>5. /\ e \in Seq(Names) /\ Len(e) = m + 1
      /\ \A d \in 1 .. m + 1 : e[d] = tree.name[Above(k, d - 1)]
  BY <1>2, CutFact, Zenon
<1>6. /\ Begins(c, s) /\ s \in Seq(Names) /\ Len(s) = Len(c) + 1 /\ s[Len(c) + 1] = x
  BY <1>3, <1>4, AppendBegins, Zenon
<1>7. m + 1 \in 1 .. m + 1 /\ (m + 1) - 1 = m
  BY <1>2
<1>8. e[m + 1] = x
  BY <1>5, <1>7, Zenon
<1> HIDE DEF s, e, c, x
<1>9. ASSUME NEW d \in 1 .. m + 1 PROVE s[d] = e[d]
  <2>1. CASE d = m + 1
    BY <1>4, <1>6, <1>8, <2>1, Zenon
  <2>2. CASE d # m + 1
    <3>1. d \in 1 .. m
      BY <1>2, <2>2
    <3>2. s[d] = c[d]
      BY <1>4, <1>6, <3>1, Zenon DEF Begins
    <3> QED BY <1>4, <1>5, <3>1, <3>2, Zenon
  <2> QED BY <2>1, <2>2
<1>10. s = e
  <2>1. Len(s) = m + 1
    BY <1>4, <1>6, Zenon
  <2> QED BY <1>5, <1>6, <1>9, <2>1, SameSeq, Zenon
<1>11. Bytes(s) = Bytes(c) + x.length + 1 /\ Bytes(c) \in Nat /\ Bytes(e) \in Nat
  BY <1>3, <1>4, <1>5, BytesFact, Zenon DEF s
<1>12. x.length \in Nat
  BY <1>3 DEF Names
<1> QED BY <1>3, <1>10, <1>11, <1>12, Zenon DEF s, e, c, x

(* A longer way takes more room.                                           *)
LEMMA CutGrows ==
  ASSUME FromFile, NEW k \in 1 .. Count, NEW m \in 0 .. Depth(k) + 1, NEW l \in 0 .. m
  PROVE  Bytes(Cut(k, l)) + (m - l) <= Bytes(Cut(k, m))
<1> DEFINE T == {j \in Nat : l + j <= Depth(k) + 1 => Bytes(Cut(k, l)) + j <= Bytes(Cut(k, l + j))}
<1>1. Depth(k) \in Nat /\ l \in Nat /\ m \in Nat /\ l <= Depth(k) + 1
  <2>1. Depth(k) \in Nat
    BY TreeFact, Zenon
  <2> QED BY <2>1
<1>2. 0 \in T
  <2>1. l + 0 = l /\ l \in 0 .. Depth(k) + 1
    BY <1>1
  <2>2. Cut(k, l) \in Seq(Names)
    BY <2>1, CutFact, Zenon
  <2>3. Bytes(Cut(k, l)) \in Nat
    BY <2>2, BytesFact, Zenon
  <2> DEFINE b == Bytes(Cut(k, l))
  <2>4. b + 0 <= b
    BY <2>3
  <2> HIDE DEF b
  <2>5. l + 0 <= Depth(k) + 1 => Bytes(Cut(k, l)) + 0 <= Bytes(Cut(k, l + 0))
    BY <2>1, <2>4, Zenon DEF b
  <2>6. 0 \in Nat
    OBVIOUS
  <2> QED BY <2>5, <2>6, Zenon
<1>3. ASSUME NEW j \in Nat, j \in T PROVE j + 1 \in T
  <2> DEFINE b == Bytes(Cut(k, l))
             x == l + j
  <2>1. j + 1 \in Nat /\ l + (j + 1) = x + 1
    BY <1>1
  <2>2. ASSUME l + (j + 1) <= Depth(k) + 1 PROVE b + (j + 1) <= Bytes(Cut(k, l + (j + 1)))
    <3>1. x <= Depth(k) + 1 /\ x \in 0 .. Depth(k)
      BY <1>1, <2>2
    <3>2. b + j <= Bytes(Cut(k, x))
      BY <1>3, <3>1, Zenon
    <3> DEFINE n == tree.name[Above(k, x)].length
               c == Bytes(Cut(k, x))
               e == Bytes(Cut(k, x + 1))
    <3>3. e = c + n + 1 /\ c \in Nat /\ n \in Nat /\ e \in Nat
      BY <3>1, CutAppend, Zenon
    <3>4. Cut(k, l) \in Seq(Names)
      <4>1. l \in 0 .. Depth(k) + 1
        BY <1>1
      <4> QED BY <4>1, CutFact, Zenon
    <3>5. b \in Nat
      BY <3>4, BytesFact, Zenon
    <3> HIDE DEF b, x, n, c, e
    <3>6. b + (j + 1) <= e
      BY <3>2, <3>3, <3>5 DEF c
    <3> QED BY <2>1, <3>6, Zenon DEF e
  <2> QED BY <2>1, <2>2, Zenon
<1> HIDE DEF T
<1>4. Nat \subseteq T
  BY <1>2, <1>3, SetInduction
<1> DEFINE j == m - l
<1>5. j \in Nat /\ l + j = m /\ l + j <= Depth(k) + 1
  BY <1>1
<1> HIDE DEF j
<1>6. Bytes(Cut(k, l)) + j <= Bytes(Cut(k, l + j))
  BY <1>4, <1>5, Zenon DEF T
<1> QED BY <1>5, <1>6, Zenon DEF j

(* What is above a node is above the next, as far as that is deep.         *)
LEMMA CutNext ==
  ASSUME FromFile, NEW k \in 1 .. Count, k < Count, NEW m \in 0 .. Depth(k + 1)
  PROVE  m <= Depth(k) + 1 /\ Cut(k + 1, m) = Cut(k, m)
<1>1. /\ Count \in Nat /\ \A i \in 1 .. Count : Depth(i) \in Nat
      /\ \A i \in 2 .. Count : Depth(i) <= Depth(i - 1) + 1
  BY TreeFact, Zenon
<1> DEFINE n == k + 1
<1>2. n \in 1 .. Count /\ n \in 2 .. Count /\ n - 1 = k /\ k \in 1 .. Count
  BY <1>1
<1>3. Depth(n) <= Depth(k) + 1 /\ Depth(n) \in Nat /\ Depth(k) \in Nat
  BY <1>1, <1>2, Zenon
<1>4. m <= Depth(k) + 1
  BY <1>3
<1>5. ASSUME NEW d \in 1 .. m PROVE Above(n, d - 1) = Above(k, d - 1)
  <2> DEFINE e == d - 1
             a == Above(n, e)
  <2>1. e \in 0 .. Depth(n) /\ e \in 0 .. Depth(k) /\ e < Depth(n) /\ e \in Nat
    BY <1>3, <1>4
  <2>2. /\ a \in 1 .. n /\ a \in 1 .. Count /\ Depth(a) = e
        /\ \A j \in a + 1 .. n : Depth(j) > e
    BY <1>2, <2>1, AboveFact, Zenon
  <2> HIDE DEF e, a
  <2>3. a # n
    BY <2>1, <2>2
  <2>4. a <= k /\ \A j \in a + 1 .. k : j \in a + 1 .. n
    BY <1>2, <2>2, <2>3
  <2> HIDE DEF n
  <2>5. a \in Line(k)
    BY <2>2, <2>4, Zenon DEF Line
  <2>6. a = Above(k, e)
    BY <2>1, <2>2, <2>5, AboveFact, Zenon
  <2> QED BY <2>6 DEF a, e
<1>6. Cut(n, m) = Cut(k, m)
  BY <1>5, Zenon DEF Cut
<1> QED BY <1>4, <1>6

(* What fdt_get_path does with each node it sees.                          *)
Push(names, s, buflen) ==
  LET kept == SubSeq(names, 1, Least(Len(names), s.depth))
      name == At(s.offset).name
  IN  IF Len(kept) >= s.depth /\ Bytes(kept) + name.length + 1 <= buflen
        THEN Append(kept, name) ELSE kept

IsPushed(f, walk, buflen) ==
  f = [s \in SUBSET DOMAIN walk |->
         IF s = {} THEN <<>> ELSE Push(f[s \ {Max(s)}], walk[Max(s)], buflen)]

PushChain(v, P, i, buflen) ==
  v[0] = <<>> /\ \A k \in 1 .. i : v[k] = Push(v[k - 1], State(P, k, 0), buflen)

LEMMA Kept ==
  ASSUME NEW names \in Seq(Names), NEW d \in Nat
  PROVE  SubSeq(names, 1, Least(Len(names), d)) \in Seq(Names)
<1>1. Len(names) \in Nat
  OBVIOUS
<1> DEFINE l == Least(Len(names), d)
<1>2. l \in Nat /\ l <= Len(names)
  BY <1>1 DEF Least
<1> HIDE DEF l
<1>3. SubSeq(names, 1, l) \in Seq(Names)
  BY <1>1, <1>2
<1> QED BY <1>3 DEF l

LEMMA PushStays ==
  ASSUME FromFile, NEW P, Layout(P), NEW k \in 1 .. Count, NEW names \in Seq(Names), NEW buflen
  PROVE  Push(names, State(P, k, 0), buflen) \in Seq(Names)
<1> DEFINE s == State(P, k, 0)
           kept == SubSeq(names, 1, Least(Len(names), s.depth))
           name == At(s.offset).name
<1>1. Depth(k) \in Nat /\ tree.name \in [1 .. Count -> Names]
  BY TreeFact, Zenon
<1>2. s.offset = P[k] /\ s.depth = Depth(k)
  <2>1. Depth(k) - 0 = Depth(k)
    BY <1>1
  <2> QED BY <2>1, Zenon DEF State
<1>3. name \in Names
  <2>1. At(P[k]).name = tree.name[k]
    BY Zenon DEF Layout
  <2>2. tree.name[k] \in Names
    BY <1>1, Zenon
  <2> QED BY <1>2, <2>1, <2>2, Zenon
<1>4. kept \in Seq(Names)
  BY <1>1, <1>2, Kept, Zenon
<1>5. Push(names, s, buflen) \in {kept, Append(kept, name)}
  BY Zenon DEF Push
<1> HIDE DEF s, kept, name
<1>6. Append(kept, name) \in Seq(Names)
  BY <1>3, <1>4
<1> QED BY <1>4, <1>5, <1>6, Zenon DEF s

LEMMA PushedExists ==
  ASSUME FromFile, NEW P, Layout(P), NEW i \in 1 .. Count, NEW buflen
  PROVE  \E f : IsPushed(f, UpTo(P[i]), buflen)
<1> DEFINE A == Seq(Names)
           walk == UpTo(P[i])
           F == [z \in A \X (1 .. i) |-> Push(z[1], walk[z[2]], buflen)]
<1>1. i \in Nat /\ DOMAIN walk = 1 .. i /\ \A k \in 1 .. i : walk[k] = State(P, k, 0)
  <2>1. DOMAIN walk = 1 .. i /\ \A k \in 1 .. i : walk[k] = State(P, k, 0)
    BY UpToFact, Zenon
  <2>2. i \in Nat
    OBVIOUS
  <2> QED BY <2>1, <2>2
<1>2. \A y \in A : \A k \in 1 .. i : F[<<y, k>>] = Push(y, walk[k], buflen)
  BY Zenon
<1>3. F \in [A \X (1 .. i) -> A]
  <2>1. ASSUME NEW z \in A \X (1 .. i) PROVE Push(z[1], walk[z[2]], buflen) \in A
    <3>1. z[1] \in A /\ z[2] \in 1 .. i
      BY Zenon
    <3>2. z[2] \in 1 .. Count
      <4>1. Count \in Nat
        BY TreeFact, Zenon
      <4> QED BY <3>1, <4>1
    <3> QED BY <1>1, <3>1, <3>2, PushStays, Zenon
  <2> QED BY <2>1, Zenon
<1>4. <<>> \in A
  OBVIOUS
<1> HIDE DEF F, A, walk
<1>5. PICK f \in [SUBSET (1 .. i) -> A] : IsIter(f, <<>>, F, i)
  BY <1>1, <1>3, <1>4, IterExists, Zenon
<1>6. ASSUME NEW s \in SUBSET (1 .. i), s # {}
      PROVE  f[s] = Push(f[s \ {Max(s)}], walk[Max(s)], buflen)
  <2> DEFINE m == Max(s)
             r == s \ {m}
  <2>1. m \in 1 .. i /\ r \in SUBSET (1 .. i)
    BY <1>1, <1>6, SubsetMax, Zenon
  <2>2. f[s] = F[<<f[r], m>>]
    BY <1>5, <1>6, Zenon DEF IsIter
  <2>3. f[r] \in A
    BY <2>1, Zenon
  <2> HIDE DEF m, r
  <2>4. F[<<f[r], m>>] = Push(f[r], walk[m], buflen)
    BY <1>2, <2>1, <2>3, Zenon
  <2> QED BY <2>2, <2>4 DEF m, r
<1>7. f[{}] = <<>>
  BY <1>5, Zenon DEF IsIter
<1>8. \A s \in SUBSET (1 .. i) : f[s] = IF s = {} THEN <<>> ELSE Push(f[s \ {Max(s)}], walk[Max(s)], buflen)
  BY <1>6, <1>7, Zenon
<1>9. f = [s \in SUBSET (1 .. i) |-> f[s]]
  BY <1>5, Zenon
<1>10. f = [s \in SUBSET (1 .. i) |-> IF s = {} THEN <<>> ELSE Push(f[s \ {Max(s)}], walk[Max(s)], buflen)]
  BY <1>8, <1>9, Zenon
<1> QED BY <1>1, <1>10, Zenon DEF IsPushed, walk


LEMMA GetPathChain ==
  ASSUME FromFile, NEW P, Layout(P), NEW i \in 1 .. Count, NEW buflen
  PROVE  \E v : /\ PushChain(v, P, i, buflen)
                /\ fdt_get_path(P[i], buflen) =
                     IF buflen < 2 \/ \A s \in Seen(UpTo(P[i]), P[i]) : Len(v[i]) < s.depth + 1
                       THEN NoPath ELSE [found |-> TRUE, names |-> Tail(v[i])]
<1> DEFINE walk == UpTo(P[i])
           f == CHOOSE f : IsPushed(f, walk, buflen)
           v == [k \in 0 .. i |-> f[1 .. k]]
<1>1. i \in Nat /\ DOMAIN walk = 1 .. i /\ \A k \in 1 .. i : walk[k] = State(P, k, 0)
  <2>1. DOMAIN walk = 1 .. i /\ \A k \in 1 .. i : walk[k] = State(P, k, 0)
    BY UpToFact, Zenon
  <2>2. i \in Nat
    OBVIOUS
  <2> QED BY <2>1, <2>2
<1>2. IsPushed(f, walk, buflen)
  BY PushedExists, Zenon
<1>3. fdt_get_path(P[i], buflen) =
        IF buflen < 2 \/ \A s \in Seen(walk, P[i]) : Len(f[DOMAIN walk]) < s.depth + 1
          THEN NoPath ELSE [found |-> TRUE, names |-> Tail(f[DOMAIN walk])]
  BY Zenon DEF fdt_get_path, FoldLeft, MapThenFoldSet, IsPushed, Push
<1> HIDE DEF walk
<1>4. \A s \in SUBSET (1 .. i) : f[s] = IF s = {} THEN <<>> ELSE Push(f[s \ {Max(s)}], walk[Max(s)], buflen)
  BY <1>1, <1>2, Zenon DEF IsPushed
<1> HIDE DEF f
<1>5. \A k \in 0 .. i : v[k] = f[1 .. k]
  BY Zenon
<1> HIDE DEF v
<1>6. 0 \in 0 .. i /\ i \in 0 .. i /\ 1 .. 0 = {} /\ {} \in SUBSET (1 .. i)
  BY <1>1
<1>7. v[0] = <<>>
  BY <1>4, <1>5, <1>6, Zenon
<1>8. ASSUME NEW k \in 1 .. i PROVE v[k] = Push(v[k - 1], State(P, k, 0), buflen)
  <2>1. /\ 1 .. k \in SUBSET (1 .. i) /\ 1 .. k # {}
        /\ Max(1 .. k) = k /\ (1 .. k) \ {k} = 1 .. k - 1
    BY <1>1, Prefix, Zenon
  <2>2. k \in 0 .. i /\ k - 1 \in 0 .. i
    BY <1>1
  <2>3. f[1 .. k] = Push(f[1 .. k - 1], walk[k], buflen)
    BY <1>4, <2>1, Zenon
  <2> QED BY <1>1, <1>5, <2>2, <2>3, Zenon
<1>9. PushChain(v, P, i, buflen)
  BY <1>7, <1>8, Zenon DEF PushChain
<1>10. f[DOMAIN walk] = v[i]
  BY <1>1, <1>5, <1>6, Zenon
<1> QED BY <1>3, <1>9, <1>10, Zenon DEF walk

(* What has been put in a buffer after a node: the way to it as far as it  *)
(* fits.                                                                   *)
IsCut(names, k, buflen) ==
  \E m \in 0 .. Depth(k) + 1 :
    /\ names = Cut(k, m) /\ Bytes(Cut(k, m)) <= buflen
    /\ m < Depth(k) + 1 => Bytes(Cut(k, m + 1)) > buflen

(* A node is pushed after the first l of the names above it.               *)
LEMMA PushOn ==
  ASSUME FromFile, NEW P, Layout(P), NEW k \in 1 .. Count, NEW names \in Seq(Names), NEW l \in 0 .. Depth(k),
         SubSeq(names, 1, Least(Len(names), Depth(k))) = Cut(k, l),
         NEW buflen \in Nat, Bytes(Cut(k, l)) <= buflen,
         l < Depth(k) => Bytes(Cut(k, l + 1)) > buflen
  PROVE  IsCut(Push(names, State(P, k, 0), buflen), k, buflen)
<1> DEFINE s == State(P, k, 0)
           c == Cut(k, l)
           x == tree.name[k]
           e == Cut(k, l + 1)
<1>1. Depth(k) \in Nat
  BY TreeFact, Zenon
<1>2. s.offset = P[k] /\ s.depth = Depth(k) /\ At(P[k]).name = x
  <2>1. Depth(k) - 0 = Depth(k)
    BY <1>1
  <2> QED BY <2>1, Zenon DEF State, Layout
<1>3. c \in Seq(Names) /\ Len(c) = l /\ l \in Nat
  <2>1. l \in 0 .. Depth(k) + 1
    BY <1>1
  <2> QED BY <2>1, CutFact, Zenon
<1>4. Push(names, s, buflen) = IF l >= Depth(k) /\ Bytes(c) + x.length + 1 <= buflen THEN Append(c, x) ELSE c
  BY <1>2, <1>3, Zenon DEF Push
<1>5. CASE l < Depth(k)
  <2>1. ~(l >= Depth(k)) /\ l \in 0 .. Depth(k) + 1
    BY <1>1, <1>3, <1>5
  <2>2. Push(names, s, buflen) = c
    BY <1>4, <2>1, Zenon
  <2>3. Bytes(e) > buflen
    BY <1>5
  <2> QED BY <2>1, <2>2, <2>3, Zenon DEF IsCut
<1>6. CASE l = Depth(k)
  <2>0. Above(k, l) = k
    <3>1. Depth(k) \in 0 .. Depth(k)
      BY <1>1
    <3>2. k <= k /\ \A j \in k + 1 .. k : Depth(j) > Depth(k)
      OBVIOUS
    <3>3. k \in Line(k)
      BY <3>2, Zenon DEF Line
    <3>4. k = Above(k, Depth(k))
      BY <3>1, <3>3, AboveFact, Zenon
    <3> QED BY <3>4, <1>6
  <2>1. /\ Append(c, x) = e /\ Bytes(e) = Bytes(c) + x.length + 1
        /\ Bytes(c) \in Nat /\ Bytes(e) \in Nat /\ x.length \in Nat
    BY <2>0, CutAppend, Zenon
  <2>2. l >= Depth(k) /\ l \in 0 .. Depth(k) + 1 /\ l + 1 \in 0 .. Depth(k) + 1 /\ ~(l + 1 < Depth(k) + 1)
    BY <1>1, <1>3, <1>6
  <2>3. CASE Bytes(e) <= buflen
    <3>1. Push(names, s, buflen) = e
      BY <1>4, <2>1, <2>2, <2>3, Zenon
    <3> QED BY <2>2, <2>3, <3>1, Zenon DEF IsCut
  <2>4. CASE ~(Bytes(e) <= buflen)
    <3>1. Push(names, s, buflen) = c
      BY <1>4, <2>1, <2>2, <2>4, Zenon
    <3>2. Bytes(e) > buflen
      BY <2>1, <2>4
    <3> QED BY <2>2, <3>1, <3>2, Zenon DEF IsCut
  <2> QED BY <2>3, <2>4
<1>7. l < Depth(k) \/ l = Depth(k)
  BY <1>1, <1>3
<1> QED BY <1>5, <1>6, <1>7

LEMMA PushCut ==
  ASSUME FromFile, NEW P, Layout(P), NEW k \in 1 .. Count, k < Count, NEW buflen \in Nat,
         NEW names, IsCut(names, k, buflen)
  PROVE  IsCut(Push(names, State(P, k + 1, 0), buflen), k + 1, buflen)
<1> DEFINE n == k + 1
           D == Depth(n)
<1>1. PICK m \in 0 .. Depth(k) + 1 :
        /\ names = Cut(k, m) /\ Bytes(Cut(k, m)) <= buflen
        /\ m < Depth(k) + 1 => Bytes(Cut(k, m + 1)) > buflen
  BY Zenon DEF IsCut
<1>2. n \in 1 .. Count /\ D \in Nat /\ Depth(k) \in Nat /\ m \in Nat
  <2>1. n \in 1 .. Count /\ k \in 1 .. Count
    <3>1. Count \in Nat
      BY TreeFact, Zenon
    <3> QED BY <3>1
  <2>2. D \in Nat /\ Depth(k) \in Nat
    BY <2>1, TreeFact, Zenon
  <2> QED BY <2>1, <2>2
<1>3. D <= Depth(k) + 1
  <2>1. D \in 0 .. D
    BY <1>2
  <2> QED BY <2>1, CutNext, Zenon
<1> DEFINE l == Least(m, D)
<1>4. /\ l \in 0 .. m /\ l \in 0 .. D /\ l \in 0 .. Depth(k) + 1
      /\ (l < D => l = m /\ m < Depth(k) + 1 /\ l + 1 \in 0 .. D)
  <2> HIDE DEF D
  <2> QED BY <1>2, <1>3 DEF Least
<1>5. names \in Seq(Names) /\ Len(names) = m
  BY <1>1, CutFact, Zenon
<1> HIDE DEF l
<1>6. SubSeq(names, 1, l) = Cut(k, l)
  BY <1>1, <1>4, CutPrefix, Zenon
<1>7. Cut(n, l) = Cut(k, l)
  BY <1>4, CutNext, Zenon
<1>8. Bytes(Cut(k, l)) <= buflen
  <2> DEFINE b == Bytes(Cut(k, l))
             c == Bytes(Cut(k, m))
  <2>1. b + (m - l) <= c
    BY <1>4, CutGrows, Zenon
  <2>2. Cut(k, l) \in Seq(Names) /\ Cut(k, m) \in Seq(Names)
    BY <1>4, CutFact, Zenon
  <2>3. b \in Nat /\ c \in Nat
    BY <2>2, BytesFact, Zenon
  <2>4. c <= buflen
    BY <1>1, Zenon
  <2> HIDE DEF b, c
  <2>5. b <= buflen
    BY <1>2, <1>4, <2>1, <2>3, <2>4
  <2> QED BY <2>5 DEF b
<1>9. l < D => Bytes(Cut(n, l + 1)) > buflen
  <2>1. SUFFICES ASSUME l < D PROVE Bytes(Cut(n, l + 1)) > buflen
    OBVIOUS
  <2>2. l = m /\ m < Depth(k) + 1 /\ l + 1 \in 0 .. D
    BY <1>4, <2>1, Zenon
  <2>3. Cut(n, l + 1) = Cut(k, l + 1)
    BY <2>2, CutNext, Zenon
  <2> QED BY <1>1, <2>2, <2>3, Zenon
<1>10. SubSeq(names, 1, Least(Len(names), D)) = Cut(n, l)
  BY <1>5, <1>6, <1>7, Zenon DEF l
<1>11. Bytes(Cut(n, l)) <= buflen
  BY <1>7, <1>8, Zenon
<1> HIDE DEF n
<1> QED BY <1>2, <1>4, <1>5, <1>9, <1>10, <1>11, PushOn, Zenon DEF n

LEMMA PushedCut ==
  ASSUME FromFile, NEW P, Layout(P), NEW i \in 1 .. Count, NEW buflen \in Nat,
         NEW v, PushChain(v, P, i, buflen)
  PROVE  IsCut(v[i], i, buflen)
<1> DEFINE T == {j \in Nat : j + 1 <= i => IsCut(v[j + 1], j + 1, buflen)}
<1>1. Count \in Nat /\ 1 \in 1 .. Count /\ Depth(1) = 0
  BY TreeFact, RootOffset, Zenon
<1>2. \A k \in 1 .. i : k \in 1 .. Count /\ v[k] = Push(v[k - 1], State(P, k, 0), buflen)
  <2>1. \A k \in 1 .. i : k \in 1 .. Count
    BY <1>1
  <2> QED BY <2>1, Zenon DEF PushChain
<1>3. 0 \in T
  <2>1. 0 + 1 = 1 /\ 1 \in 1 .. i /\ 1 - 1 = 0 /\ 0 \in Nat
    OBVIOUS
  <2>2. v[1] = Push(<<>>, State(P, 1, 0), buflen)
    BY <1>2, <2>1, Zenon DEF PushChain
  <2>3. 0 \in 0 .. Depth(1) /\ 0 \in 0 .. Depth(1) + 1 /\ ~(0 < Depth(1))
    BY <1>1
  <2>4. Cut(1, 0) \in Seq(Names) /\ Len(Cut(1, 0)) = 0
    BY <1>1, <2>3, CutFact, Zenon
  <2>5. Cut(1, 0) = <<>>
    BY <2>4
  <2>6. SubSeq(<<>>, 1, Least(Len(<<>>), Depth(1))) = <<>> /\ <<>> \in Seq(Names)
    BY <1>1 DEF Least
  <2>7. Bytes(<<>>) <= buflen
    BY BytesFact
  <2>8. IsCut(Push(<<>>, State(P, 1, 0), buflen), 1, buflen)
    <3>1. SubSeq(<<>>, 1, Least(Len(<<>>), Depth(1))) = Cut(1, 0) /\ Bytes(Cut(1, 0)) <= buflen
      BY <2>5, <2>6, <2>7, Zenon
    <3> QED BY <1>1, <2>3, <2>6, <3>1, PushOn, Zenon
  <2> QED BY <2>1, <2>2, <2>8, Zenon
<1>4. ASSUME NEW j \in Nat, j \in T PROVE j + 1 \in T
  <2> DEFINE k == j + 1
  <2>1. k \in Nat
    OBVIOUS
  <2>2. ASSUME k + 1 <= i PROVE IsCut(v[k + 1], k + 1, buflen)
    <3>1. k <= i /\ k \in 1 .. Count /\ k < Count /\ k + 1 \in 1 .. i /\ (k + 1) - 1 = k
      BY <1>1, <2>2
    <3>2. IsCut(v[k], k, buflen)
      BY <1>4, <3>1, Zenon
    <3> HIDE DEF k
    <3>3. v[k + 1] = Push(v[k], State(P, k + 1, 0), buflen)
      BY <1>2, <3>1, Zenon
    <3> QED BY <3>1, <3>2, <3>3, PushCut, Zenon
  <2> QED BY <2>1, <2>2, Zenon
<1> HIDE DEF T
<1>5. Nat \subseteq T
  BY <1>3, <1>4, SetInduction
<1> DEFINE j == i - 1
<1>6. j \in Nat /\ j + 1 = i /\ j + 1 <= i
  OBVIOUS
<1> HIDE DEF j
<1>7. IsCut(v[j + 1], j + 1, buflen)
  BY <1>5, <1>6, Zenon DEF T
<1> QED BY <1>6, <1>7, Zenon

LEMMA TailFact ==
  ASSUME NEW S, NEW t \in Seq(S), Len(t) > 0
  PROVE  /\ Tail(t) \in Seq(S) /\ Len(t) = Len(Tail(t)) + 1 /\ Len(Tail(t)) \in Nat
         /\ \A k \in 1 .. Len(Tail(t)) : Tail(t)[k] = t[k + 1]
  OBVIOUS

LEMMA BytesTail ==
  ASSUME NEW t \in Seq(Names), Len(t) > 0
  PROVE  Bytes(t) = Bytes(Tail(t)) + t[1].length + 1 /\ Bytes(Tail(t)) \in Nat
<1> DEFINE u == Tail(t)
           n == Len(u)
           a == t[1].length + 1
<1>1. u \in Seq(Names) /\ Len(t) = n + 1 /\ n \in Nat /\ \A k \in 1 .. n : u[k] = t[k + 1]
  BY TailFact, Zenon
<1>2. a \in Nat
  <2>1. 1 \in 1 .. Len(t)
    BY <1>1
  <2>2. t[1].length \in Nat
    BY <2>1, NameLength, Zenon
  <2> QED BY <2>2
<1> HIDE DEF u
<1>3. PICK v : SumChain(v, t) /\ Bytes(t) = v[Len(t)]
  BY BytesChain, Zenon
<1>4. PICK w : SumChain(w, u) /\ Bytes(u) = w[Len(u)]
  BY <1>1, BytesChain, Zenon
<1>5. \A k \in 0 .. n : w[k] \in Nat
  <2>1. Begins(u, u)
    <3>1. Len(u) <= Len(u)
      BY <1>1
    <3> QED BY <3>1, Zenon DEF Begins
  <2> QED BY <1>1, <1>4, <2>1, SumUnique, Zenon
<1>6. v[0] = 0 /\ w[0] = 0
  BY <1>3, <1>4, Zenon DEF SumChain
<1>7. v[1] = a
  <2>1. 1 \in 1 .. Len(t) /\ 1 - 1 = 0
    BY <1>1
  <2>2. v[1] = v[0] + t[1].length + 1
    BY <1>3, <2>1, Zenon DEF SumChain
  <2>3. t[1].length \in Nat
    BY <2>1, NameLength, Zenon
  <2> QED BY <1>6, <2>2, <2>3
<1> HIDE DEF a
<1> DEFINE T == {k \in Nat : k <= n => v[k + 1] = w[k] + a}
<1>8. 0 \in T
  <2>1. 0 + 1 = 1 /\ 0 + a = a /\ 0 \in Nat
    BY <1>2
  <2> QED BY <1>6, <1>7, <2>1, Zenon
<1>9. ASSUME NEW k \in Nat, k \in T PROVE k + 1 \in T
  <2> DEFINE m == k + 1
  <2>1. m \in Nat /\ m - 1 = k /\ (m + 1) - 1 = m
    OBVIOUS
  <2>2. ASSUME m <= n PROVE v[m + 1] = w[m] + a
    <3>1. k <= n /\ k \in 0 .. n /\ m \in 1 .. n /\ m + 1 \in 1 .. Len(t)
      BY <1>1, <2>2
    <3>2. v[m] = w[k] + a /\ w[k] \in Nat
      BY <1>5, <1>9, <3>1, Zenon
    <3>3. m \in 1 .. Len(t)
      BY <1>1, <3>1
    <3>4. t[m + 1].length \in Nat
      BY <3>1, NameLength, Zenon
    <3> HIDE DEF m
    <3>5. v[m + 1] = v[m] + t[m + 1].length + 1
      BY <1>3, <2>1, <3>1, Zenon DEF SumChain
    <3>6. w[m] = w[k] + t[m + 1].length + 1
      BY <1>1, <1>4, <2>1, <3>1, Zenon DEF SumChain
    <3> QED BY <1>2, <3>2, <3>4, <3>5, <3>6
  <2> QED BY <2>1, <2>2, Zenon
<1> HIDE DEF T
<1>10. Nat \subseteq T
  BY <1>8, <1>9, SetInduction
<1>11. n <= n /\ n \in 0 .. n
  BY <1>1
<1>12. v[n + 1] = w[n] + a
  BY <1>1, <1>10, <1>11, Zenon DEF T
<1>13. Bytes(u) \in Nat
  BY <1>4, <1>5, <1>11, Zenon
<1>14. Bytes(t) = Bytes(u) + a
  BY <1>1, <1>3, <1>4, <1>12, Zenon
<1>15. t[1].length \in Nat
  <2>1. 1 \in 1 .. Len(t)
    BY <1>1
  <2> QED BY <2>1, NameLength, Zenon
<1>16. Bytes(t) = Bytes(u) + t[1].length + 1
  BY <1>13, <1>14, <1>15 DEF a
<1> QED BY <1>13, <1>16 DEF u

(* The path of a node: the names on the way, without the root's.           *)
PathTo(i) == [d \in 1 .. Depth(i) |-> tree.name[Above(i, d)]]

LEMMA PathToFact ==
  ASSUME FromFile, NEW i \in 1 .. Count
  PROVE  /\ PathTo(i) = Tail(Cut(i, Depth(i) + 1)) /\ PathTo(i) \in Seq(Names)
         /\ Len(PathTo(i)) = Depth(i) /\ Depth(i) \in Nat
         /\ \A d \in 1 .. Depth(i) : PathTo(i)[d] = tree.name[Above(i, d)]
         /\ Bytes(Cut(i, Depth(i) + 1)) = Bytes(PathTo(i)) + 1
         /\ Bytes(PathTo(i)) \in Nat /\ Bytes(PathTo(i)) >= Depth(i)
<1> DEFINE c == Cut(i, Depth(i) + 1)
           t == Tail(c)
           p == [d \in 1 .. Depth(i) |-> tree.name[Above(i, d)]]
<1>1. /\ Depth(i) \in Nat /\ Depth(1) = 0 /\ tree.name[1].length = 0
      /\ tree.name \in [1 .. Count -> Names]
      /\ \A k \in 2 .. Count : Depth(k) >= 1
  BY TreeFact, Zenon
<1>2. Depth(i) + 1 \in 0 .. Depth(i) + 1 /\ 0 \in 0 .. Depth(i) /\ 0 \in 0 .. Depth(i) + 1
  BY <1>1
<1>3. /\ c \in Seq(Names) /\ Len(c) = Depth(i) + 1
      /\ \A d \in 1 .. Depth(i) + 1 : c[d] = tree.name[Above(i, d - 1)]
  BY <1>2, CutFact, Zenon
<1>4. Above(i, 0) = 1
  <2> DEFINE a == Above(i, 0)
  <2>1. a \in 1 .. Count /\ Depth(a) = 0
    BY <1>2, AboveFact, Zenon
  <2> HIDE DEF a
  <2>2. a \in 2 .. Count \/ a = 1
    BY <2>1
  <2>3. a \in 2 .. Count => Depth(a) >= 1
    BY <1>1, Zenon
  <2>4. a = 1
    BY <2>1, <2>2, <2>3
  <2> QED BY <2>4 DEF a
<1>5. c[1].length = 0
  <2>1. 1 \in 1 .. Depth(i) + 1 /\ 1 - 1 = 0
    BY <1>1
  <2> QED BY <1>1, <1>3, <1>4, <2>1, Zenon
<1> HIDE DEF c
<1>6. Len(c) > 0
  BY <1>1, <1>3
<1>7. /\ t \in Seq(Names) /\ Len(c) = Len(t) + 1 /\ Len(t) \in Nat
      /\ \A k \in 1 .. Len(t) : t[k] = c[k + 1]
  BY <1>3, <1>6, TailFact, Zenon
<1>8. Bytes(c) = Bytes(t) + c[1].length + 1 /\ Bytes(t) \in Nat
  BY <1>3, <1>6, BytesTail, Zenon
<1> HIDE DEF t
<1>9. Len(t) = Depth(i)
  BY <1>1, <1>3, <1>7
<1>10. ASSUME NEW d \in 1 .. Depth(i)
       PROVE  t[d] = tree.name[Above(i, d)] /\ tree.name[Above(i, d)] \in Names
  <2>1. d + 1 \in 1 .. Depth(i) + 1 /\ (d + 1) - 1 = d /\ d \in 0 .. Depth(i)
    BY <1>1
  <2>2. t[d] = tree.name[Above(i, d)]
    BY <1>3, <1>7, <1>9, <2>1, Zenon
  <2>3. Above(i, d) \in 1 .. Count
    BY <2>1, AboveFact, Zenon
  <2> QED BY <1>1, <2>2, <2>3, Zenon
<1>11. p \in [1 .. Depth(i) -> Names] /\ \A d \in 1 .. Depth(i) : p[d] = tree.name[Above(i, d)]
  BY <1>10, Zenon
<1>12. p = PathTo(i)
  BY Zenon DEF PathTo
<1> HIDE DEF p
<1>13. p \in Seq(Names) /\ Len(p) = Depth(i)
  BY <1>1, <1>11
<1>14. p = t
  <2>1. \A d \in 1 .. Len(p) : p[d] = t[d]
    BY <1>10, <1>11, <1>13, Zenon
  <2>2. Len(p) = Len(t)
    BY <1>9, <1>13
  <2> QED BY <1>7, <1>13, <2>1, <2>2, SameSeq, Zenon
<1>15. Bytes(c) = Bytes(t) + 1
  BY <1>5, <1>8
<1>16. Bytes(t) >= Depth(i)
  <2> DEFINE b == Bytes(Cut(i, 0))
             e == Bytes(Cut(i, Depth(i) + 1))
  <2>1. b + ((Depth(i) + 1) - 0) <= e
    <3>1. Depth(i) + 1 \in 0 .. Depth(i) + 1 /\ 0 \in 0 .. Depth(i) + 1
      BY <1>1
    <3> QED BY <3>1, CutGrows, Zenon
  <2>2. b \in Nat
    <3>1. Cut(i, 0) \in Seq(Names)
      BY <1>2, CutFact, Zenon
    <3> QED BY <3>1, BytesFact, Zenon
  <2>3. e = Bytes(t) + 1
    BY <1>15, Zenon DEF c
  <2> HIDE DEF b, e
  <2> QED BY <1>1, <1>8, <2>1, <2>2, <2>3
<1>17. PathTo(i) = t
  BY <1>12, <1>14, Zenon
<1>18. t = Tail(Cut(i, Depth(i) + 1)) /\ c = Cut(i, Depth(i) + 1)
  BY DEF t, c
<1> QED BY <1>1, <1>7, <1>8, <1>9, <1>10, <1>15, <1>16, <1>17, <1>18, Zenon

(* A path is given when it fits, and then it is the node's.                *)
LEMMA GetPathFact ==
  ASSUME FromFile, NEW P, Layout(P), NEW i \in 1 .. Count, NEW buflen \in Nat
  PROVE  fdt_get_path(P[i], buflen) =
           IF Strlen(PathTo(i)) < buflen THEN [found |-> TRUE, names |-> PathTo(i)] ELSE NoPath
<1> DEFINE D == Depth(i)
           c == Cut(i, D + 1)
           b == Bytes(c)
<1>1. PICK v : /\ PushChain(v, P, i, buflen)
               /\ fdt_get_path(P[i], buflen) =
                    IF buflen < 2 \/ \A s \in Seen(UpTo(P[i]), P[i]) : Len(v[i]) < s.depth + 1
                      THEN NoPath ELSE [found |-> TRUE, names |-> Tail(v[i])]
  BY GetPathChain, Zenon
<1>2. PICK m \in 0 .. D + 1 :
        /\ v[i] = Cut(i, m) /\ Bytes(Cut(i, m)) <= buflen
        /\ m < D + 1 => Bytes(Cut(i, m + 1)) > buflen
  <2>1. IsCut(v[i], i, buflen)
    BY <1>1, PushedCut, Zenon
  <2> QED BY <2>1, Zenon DEF IsCut
<1>3. D \in Nat /\ m \in Nat
  <2>1. D \in Nat
    BY TreeFact, Zenon
  <2> QED BY <2>1
<1>4. Len(v[i]) = m
  BY <1>2, CutFact, Zenon
<1>5. (\A s \in Seen(UpTo(P[i]), P[i]) : Len(v[i]) < s.depth + 1) <=> m < D + 1
  <2>1. Seen(UpTo(P[i]), P[i]) = {State(P, i, 0)}
    BY SeenFact, Zenon
  <2>2. State(P, i, 0).depth = D
    <3>1. D - 0 = D
      BY <1>3
    <3> QED BY <3>1, Zenon DEF State
  <2> QED BY <1>4, <2>1, <2>2, Zenon
<1>6. b \in Nat
  <2>1. D + 1 \in 0 .. D + 1
    BY <1>3
  <2>2. c \in Seq(Names)
    BY <2>1, CutFact, Zenon
  <2> QED BY <2>2, BytesFact, Zenon
<1>7. m < D + 1 <=> ~(b <= buflen)
  <2>1. CASE m < D + 1
    <3> DEFINE x == Bytes(Cut(i, m + 1))
    <3>1. D + 1 \in 0 .. D + 1 /\ m + 1 \in 0 .. D + 1
      BY <1>3, <2>1
    <3>2. x + ((D + 1) - (m + 1)) <= b
      BY <3>1, CutGrows, Zenon
    <3>3. Cut(i, m + 1) \in Seq(Names)
      BY <3>1, CutFact, Zenon
    <3>4. x \in Nat /\ x > buflen
      BY <1>2, <2>1, <3>3, BytesFact, Zenon
    <3> HIDE DEF x, b, c, D
    <3> QED BY <1>3, <1>6, <2>1, <3>2, <3>4
  <2>2. CASE ~(m < D + 1)
    <3>1. m = D + 1
      BY <1>3, <2>2
    <3>2. b <= buflen
      BY <1>2, <3>1, Zenon
    <3> QED BY <2>2, <3>2
  <2> QED BY <2>1, <2>2
<1>8. /\ PathTo(i) = Tail(c) /\ b = Bytes(PathTo(i)) + 1 /\ Bytes(PathTo(i)) \in Nat
      /\ Bytes(PathTo(i)) >= D /\ Len(PathTo(i)) = D /\ PathTo(i) \in Seq(Names)
  BY PathToFact, Zenon
<1>9. Strlen(PathTo(i)) < buflen <=> ~(buflen < 2) /\ b <= buflen
  <2> DEFINE p == PathTo(i)
             y == Bytes(p)
             z == Strlen(p)
  <2>0. SUFFICES z < buflen <=> ~(buflen < 2) /\ b <= buflen
    OBVIOUS
  <2>1. CASE p = <<>>
    <3>1. y = 0 /\ z = 1
      BY <2>1, BytesFact, Zenon DEF Strlen
    <3>2. b = 1
      BY <1>8, <3>1
    <3> HIDE DEF p, b, z
    <3> QED BY <3>1, <3>2
  <2>2. CASE p # <<>>
    <3>1. z = y
      BY <2>2, Zenon DEF Strlen
    <3>2. D # 0
      <4>1. p \in Seq(Names) /\ Len(p) = D
        BY <1>8
      <4> HIDE DEF p
      <4> QED BY <2>2, <4>1
    <3>3. b = y + 1 /\ y \in Nat /\ y >= D
      BY <1>8, Zenon
    <3> HIDE DEF p, y, b, D, z
    <3> QED BY <1>3, <3>1, <3>2, <3>3
  <2> QED BY <2>1, <2>2
<1>10. CASE Strlen(PathTo(i)) < buflen
  <2>1. ~(m < D + 1) /\ ~(buflen < 2)
    BY <1>7, <1>9, <1>10, Zenon
  <2>2. m = D + 1
    BY <1>3, <2>1
  <2>3. Tail(v[i]) = PathTo(i)
    BY <1>2, <1>8, <2>2, Zenon
  <2> QED BY <1>1, <1>5, <1>10, <2>1, <2>3, Zenon
<1>11. CASE ~(Strlen(PathTo(i)) < buflen)
  <2>1. buflen < 2 \/ m < D + 1
    BY <1>7, <1>9, <1>11, Zenon
  <2> QED BY <1>1, <1>5, <1>11, <2>1, Zenon
<1> QED BY <1>10, <1>11

-----------------------------------------------------------------------------
(* What a client can be given, and what it can read of it.                 *)
Given == {rom_get_phandle(o) : o \in Nodes} \cup {-1}

Asked == Given \cup {0}

TreeInv ==
  /\ FromFile
  /\ memory_node \in Nodes \cup {NOTFOUND, BADPATH}
  /\ mmu_ihandle \in {tree.ihandle[i] : i \in DOMAIN tree.ihandle} \cup {0, -1}
  /\ avail \in 0 .. MaxAvail /\ told \in {-1, avail * 2 * CellSize}
  /\ have \subseteq Given
  /\ call.result \in Int /\ call.wrote \in Nat
  /\ pc \in {"boot", "ready", "answered", "stopped"}

LEMMA HandedFact ==
  ASSUME FromFile, NEW P, Layout(P)
  PROVE  /\ \A o \in Offsets(P) : OrZero(o) \in Given \cup {0} /\ OrUnknown(o) \in Given
         /\ \A i \in 1 .. Count : /\ ~(P[i] < 0) /\ P[i] \in Nat
                                  /\ rom_get_phandle(P[i]) \in Given /\ rom_get_phandle(P[i]) # 0
                                  /\ rom_node_offset_by_phandle(rom_get_phandle(P[i])) = P[i]
         /\ \A ph \in Given : \/ ph = -1 /\ rom_node_offset_by_phandle(ph) < 0
                              \/ \E i \in 1 .. Count : ph = rom_get_phandle(P[i])
         /\ Given \subseteq Int /\ 0 \notin Given
<1>1. Nodes = {P[i] : i \in 1 .. Count}
  BY NodesFact, Zenon
<1>2. Count \in Nat /\ \A j \in 1 .. Count + 1 : P[j] \in Nat
  BY TreeFact, PlaceFact, Zenon
<1>3. ASSUME NEW i \in 1 .. Count
      PROVE  /\ ~(P[i] < 0) /\ P[i] \in Nat
             /\ rom_get_phandle(P[i]) \in Given /\ rom_get_phandle(P[i]) # 0 /\ rom_get_phandle(P[i]) \in Int
             /\ rom_node_offset_by_phandle(rom_get_phandle(P[i])) = P[i]
  <2> DEFINE p == P[i]
  <2>1. i \in 1 .. Count + 1
    BY <1>2
  <2>2. p \in Nat
    BY <1>2, <2>1, Zenon
  <2>3. rom_get_phandle(p) \in Given
    BY <1>1, Zenon DEF Given
  <2> HIDE DEF p
  <2>4. /\ ~(p < 0) /\ rom_get_phandle(p) # 0 /\ rom_get_phandle(p) \in Int
        /\ rom_node_offset_by_phandle(rom_get_phandle(p)) = p
    BY <2>2 DEF rom_get_phandle, rom_node_offset_by_phandle, PHANDLE_MUNGE
  <2> QED BY <2>2, <2>3, <2>4 DEF p
<1>4. ASSUME NEW o \in Offsets(P) PROVE OrZero(o) \in Given \cup {0} /\ OrUnknown(o) \in Given
  <2>1. CASE o \in {NOTFOUND, BADPATH}
    <3>1. o < 0
      BY <2>1 DEF NOTFOUND, BADPATH
    <3> QED BY <3>1, Zenon DEF OrZero, OrUnknown, Given
  <2>2. CASE \E i \in 1 .. Count : o = P[i]
    BY <1>3, <2>2, Zenon DEF OrZero, OrUnknown
  <2> QED BY <2>1, <2>2, Zenon DEF Offsets
<1>5. ASSUME NEW ph \in Given
      PROVE  \/ ph = -1 /\ rom_node_offset_by_phandle(ph) < 0
             \/ \E i \in 1 .. Count : ph = rom_get_phandle(P[i])
  <2>1. CASE ph = -1
    <3>1. rom_node_offset_by_phandle(ph) < 0
      BY <2>1 DEF rom_node_offset_by_phandle, PHANDLE_MUNGE
    <3> QED BY <2>1, <3>1
  <2>2. CASE ph # -1
    BY <1>1, <2>2, Zenon DEF Given
  <2> QED BY <2>1, <2>2
<1>6. ASSUME NEW ph \in Given PROVE ph \in Int /\ ph # 0
  <2>1. ph = -1 \/ \E i \in 1 .. Count : ph = rom_get_phandle(P[i])
    BY <1>5, Zenon
  <2>2. -1 \in Int /\ -1 # 0
    OBVIOUS
  <2> QED BY <1>3, <2>1, <2>2, Zenon
<1> QED BY <1>3, <1>4, <1>5, <1>6, Zenon

(* What a client asks with is a node's, 0 the root's.                      *)
LEMMA PhandleNode ==
  ASSUME FromFile, NEW P, Layout(P), NEW ph \in Asked
  PROVE  \/ ph = -1 /\ rom_node_offset_by_phandle(ph) < 0
         \/ ph = 0 /\ rom_node_offset_by_phandle(ph) = P[1] /\ 1 \in 1 .. Count
         \/ \E i \in 1 .. Count : ph = rom_get_phandle(P[i]) /\ rom_node_offset_by_phandle(ph) = P[i]
<1>1. CASE ph = 0
  <2>1. rom_node_offset_by_phandle(0) = 0
    BY DEF rom_node_offset_by_phandle, PHANDLE_MUNGE
  <2> QED BY <1>1, <2>1, RootOffset, Zenon
<1>2. CASE ph \in Given
  BY <1>2, HandedFact, Zenon
<1> QED BY <1>1, <1>2, Zenon DEF Asked

LEMMA AskedNode ==
  ASSUME FromFile, NEW P, Layout(P), NEW ph \in Asked, ~(rom_node_offset_by_phandle(ph) < 0)
  PROVE  \E i \in 1 .. Count : rom_node_offset_by_phandle(ph) = P[i]
BY PhandleNode, Zenon

(* The services give a client a phandle, or write to a buffer of its.      *)
GivesNode ==
  \E service, argument : \E ph \in Given \cup {0} : service # "getproplen" /\ Gives(service, argument, ph)

Excused(service, argument, room) ==
  /\ service = "getprop"
  /\ \/ OfMemory(argument, "reg") /\ room < 2 * CellSize
     \/ OfMemory(argument, "available") /\ (told = -1 \/ room < told)

Wrote(service, argument, result, wrote, room) ==
  /\ result \in Int /\ wrote \in Nat
  /\ wrote <= room \/ Excused(service, argument, room)
  /\ (service = "getproplen" /\ OfMemory(argument, "available")) => result \in {-1, avail * 2 * CellSize}

Writes ==
  \E service, argument, result, wrote, room, path :
    /\ Wrote(service, argument, result, wrote, room)
    /\ Returns(service, argument, result, wrote, room, path)
    /\ UNCHANGED have

LEMMA ChildServes ==
  ASSUME TreeInv, NEW ph \in Asked, rom_child(ph)
  PROVE  GivesNode
<1>0. FromFile
  BY Zenon DEF TreeInv
<1>1. PICK P : Layout(P)
  BY <1>0, LayoutExists, Zenon
<1> DEFINE o == rom_node_offset_by_phandle(ph)
           r == IF o < 0 THEN 0 ELSE OrZero(fdt_subnode(o))
<1>2. r \in Given \cup {0}
  <2>1. CASE o < 0
    BY <2>1
  <2>2. CASE ~(o < 0)
    <3>2. PICK i \in 1 .. Count : o = P[i]
      BY <1>0, <1>1, <2>2, AskedNode, Zenon
    <3> DEFINE K == Kids(i)
    <3>3. K # {} => Min(K) \in 1 .. Count
      <4>1. K \subseteq 1 .. Count /\ 1 .. Count \subseteq Nat
        BY DEF Kids
      <4>2. K \subseteq Nat
        BY <4>1, Zenon
      <4> HIDE DEF K
      <4> QED BY <4>1, <4>2, MinFact, Zenon
    <3>4. fdt_subnode(o) = IF K = {} THEN NOTFOUND ELSE P[Min(K)]
      BY <1>0, <1>1, <3>2, SubnodeFact, Zenon
    <3> HIDE DEF K
    <3>5. fdt_subnode(o) \in Offsets(P)
      BY <3>3, <3>4, Zenon DEF Offsets
    <3> QED BY <1>0, <1>1, <2>2, <3>5, HandedFact, Zenon
  <2> QED BY <2>1, <2>2
<1>3. Gives("child", ph, r)
  BY Zenon DEF rom_child
<1>4. "child" # "getproplen"
  OBVIOUS
<1> HIDE DEF r
<1> QED BY <1>2, <1>3, <1>4, Zenon DEF GivesNode

LEMMA PeerServes ==
  ASSUME TreeInv, NEW ph \in Asked, rom_peer(ph)
  PROVE  GivesNode
<1>0. FromFile
  BY Zenon DEF TreeInv
<1>1. PICK P : Layout(P)
  BY <1>0, LayoutExists, Zenon
<1> DEFINE o == rom_node_offset_by_phandle(ph)
           r == IF ph = 0 THEN ROOT_PHANDLE ELSE IF o < 0 THEN 0 ELSE OrZero(fdt_sibling(o))
<1>2. r \in Given \cup {0}
  <2>1. CASE ph = 0
    <3>1. ROOT_PHANDLE = rom_get_phandle(P[1]) /\ 1 \in 1 .. Count
      BY <1>0, <1>1, RootOffset, Zenon DEF ROOT_PHANDLE
    <3> QED BY <1>0, <1>1, <2>1, <3>1, HandedFact, Zenon
  <2>2. CASE ph # 0 /\ o < 0
    BY <2>2
  <2>3. CASE ph # 0 /\ ~(o < 0)
    <3>2. PICK i \in 1 .. Count : o = P[i]
      BY <1>0, <1>1, <2>3, AskedNode, Zenon
    <3> DEFINE K == Sibs(i)
    <3>3. K # {} => Min(K) \in 1 .. Count
      <4>1. K \subseteq 1 .. Count /\ 1 .. Count \subseteq Nat
        BY DEF Sibs
      <4>2. K \subseteq Nat
        BY <4>1, Zenon
      <4> HIDE DEF K
      <4> QED BY <4>1, <4>2, MinFact, Zenon
    <3>4. fdt_sibling(o) = IF K = {} THEN NOTFOUND ELSE P[Min(K)]
      BY <1>0, <1>1, <3>2, SiblingFact, Zenon
    <3> HIDE DEF K
    <3>5. fdt_sibling(o) \in Offsets(P)
      BY <3>3, <3>4, Zenon DEF Offsets
    <3> QED BY <1>0, <1>1, <2>3, <3>5, HandedFact, Zenon
  <2> QED BY <2>1, <2>2, <2>3
<1>3. Gives("peer", ph, r)
  BY Zenon DEF rom_peer
<1>4. "peer" # "getproplen"
  OBVIOUS
<1> HIDE DEF r
<1> QED BY <1>2, <1>3, <1>4, Zenon DEF GivesNode

(* A client that only passes phandles it was given asks for the parent of  *)
(* a node, which has one unless it is the root: that of 0 is not looked for*)
(* in vain, and that of ROOT_PHANDLE is told apart.                        *)
LEMMA ParentServes ==
  ASSUME TreeInv, NEW ph \in Asked, rom_parent(ph)
  PROVE  GivesNode \/ Stops(0)
<1>0. FromFile
  BY Zenon DEF TreeInv
<1>1. PICK P : Layout(P)
  BY <1>0, LayoutExists, Zenon
<1> DEFINE o == rom_node_offset_by_phandle(ph)
<1>2. ROOT_PHANDLE = rom_get_phandle(P[1]) /\ ROOT_PHANDLE # 0
  <2>1. ROOT_PHANDLE = rom_get_phandle(P[1]) /\ 1 \in 1 .. Count
    BY <1>0, <1>1, RootOffset, Zenon DEF ROOT_PHANDLE
  <2> QED BY <1>0, <1>1, <2>1, HandedFact, Zenon
<1>3. "parent" # "getproplen"
  OBVIOUS
<1>4. CASE ph = ROOT_PHANDLE
  <2>1. Gives("parent", ph, 0)
    BY <1>4, Zenon DEF rom_parent
  <2> QED BY <1>3, <2>1, Zenon DEF GivesNode
<1>5. CASE ph # ROOT_PHANDLE /\ o < 0
  <2>1. Gives("parent", ph, -1)
    BY <1>5, Zenon DEF rom_parent
  <2>2. -1 \in Given
    BY DEF Given
  <2> QED BY <1>3, <2>1, <2>2, Zenon DEF GivesNode
<1>6. CASE ph # ROOT_PHANDLE /\ ~(o < 0) /\ ph = 0 /\ o = P[1] /\ 1 \in 1 .. Count
  <2>1. fdt_parent_offset(o) = NOTFOUND
    BY <1>0, <1>1, <1>6, ParentOffsetFact, Zenon
  <2>2. ~(NOTFOUND >= 0)
    BY DEF NOTFOUND
  <2> HIDE DEF o
  <2>3. Stops(ph)
    BY <1>6, <2>1, <2>2, Zenon DEF rom_parent, o
  <2> QED BY <1>6, <2>3, Zenon
<1>7. CASE /\ ph # ROOT_PHANDLE /\ ~(o < 0)
           /\ \E i \in 1 .. Count : ph = rom_get_phandle(P[i]) /\ o = P[i]
  <2>1. PICK i \in 1 .. Count : ph = rom_get_phandle(P[i]) /\ o = P[i]
    BY <1>7
  <2>2. i # 1
    BY <1>2, <1>7, <2>1, Zenon
  <2>3. Parent(i) \in 1 .. Count
    BY <1>0, <2>2, ParentFact, Zenon
  <2>4. fdt_parent_offset(o) = P[Parent(i)]
    BY <1>0, <1>1, <2>1, <2>2, ParentOffsetFact, Zenon
  <2>5. P[Parent(i)] \in Nat /\ rom_get_phandle(P[Parent(i)]) \in Given
    BY <1>0, <1>1, <2>3, HandedFact, Zenon
  <2>6. P[Parent(i)] >= 0
    BY <2>5
  <2>7. Gives("parent", ph, rom_get_phandle(P[Parent(i)]))
    BY <1>7, <2>4, <2>6, Zenon DEF rom_parent
  <2> QED BY <1>3, <2>5, <2>7, Zenon DEF GivesNode
<1> QED BY <1>0, <1>1, <1>4, <1>5, <1>6, <1>7, PhandleNode, Zenon

LEMMA LookupFact ==
  ASSUME NEW A, NEW C, NEW path \in [alias : A, comps : C]
  PROVE  path.alias \in A /\ path.comps \in C
OBVIOUS

LEMMA FinddeviceServes ==
  ASSUME TreeInv, NEW path \in Lookups, rom_finddevice(path)
  PROVE  GivesNode
<1>0. FromFile
  BY Zenon DEF TreeInv
<1>1. PICK P : Layout(P)
  BY <1>0, LayoutExists, Zenon
<1>2. path \in [alias : STRING \ {"linux,phandle"}, comps : Seq(Names)]
  BY PathsAssumption, Zenon
<1>3. path.alias \in STRING \ {"linux,phandle"} /\ path.comps \in Seq(Names)
  BY <1>2, LookupFact, Zenon
<1>4. Plain(path.alias)
  BY <1>3, Zenon DEF Plain
<1>5. fdt_path_offset(path) \in Offsets(P)
  BY <1>0, <1>1, <1>3, <1>4, PathOffset, Zenon
<1>6. OrUnknown(fdt_path_offset(path)) \in Given
  BY <1>0, <1>1, <1>5, HandedFact, Zenon
<1>7. "finddevice" # "getproplen"
  OBVIOUS
<1> QED BY <1>6, <1>7, Zenon DEF GivesNode, rom_finddevice

(* An instance handle is found at the first node that has it.              *)
LEMMA IhandleFact ==
  ASSUME FromFile, NEW P, Layout(P), NEW ih \in Ihandles
  PROVE  /\ ih \notin {0, -1} /\ Instances(ih) # {} /\ Instances(ih) \subseteq 1 .. Count
         /\ Min(Instances(ih)) \in Instances(ih) /\ \A j \in Instances(ih) : Min(Instances(ih)) <= j
         /\ rom_node_offset_by_ihandle(ih) = P[Min(Instances(ih))]
<1>1. PICK i \in DOMAIN tree.ihandle : ih = tree.ihandle[i] /\ ih # 0
  BY Zenon DEF Ihandles
<1>2. tree.ihandle \in [1 .. Count -> Nat]
  BY TreeFact, Zenon
<1>3. i \in 1 .. Count /\ ih \in Nat
  BY <1>1, <1>2, Zenon
<1>4. ih \notin {0, -1}
  BY <1>1, <1>3
<1>5. i \in Instances(ih) /\ Instances(ih) \subseteq 1 .. Count
  BY <1>1, <1>3, Zenon DEF Instances
<1>6. 1 .. Count \subseteq Nat
  OBVIOUS
<1>7. Min(Instances(ih)) \in Instances(ih) /\ \A j \in Instances(ih) : Min(Instances(ih)) <= j
  <2>1. Instances(ih) \subseteq Nat /\ Instances(ih) # {}
    BY <1>5, <1>6, Zenon
  <2> QED BY <2>1, MinFact, Zenon
<1>8. rom_node_offset_by_ihandle(ih) = P[Min(Instances(ih))]
  BY <1>4, <1>5, InstanceFact, Zenon DEF rom_node_offset_by_ihandle
<1> QED BY <1>4, <1>5, <1>7, <1>8, Zenon

LEMMA InstanceServes ==
  ASSUME TreeInv, NEW ih \in Ihandles, rom_itopackage(ih)
  PROVE  GivesNode
<1>0. FromFile
  BY Zenon DEF TreeInv
<1>1. PICK P : Layout(P)
  BY <1>0, LayoutExists, Zenon
<1>2. rom_node_offset_by_ihandle(ih) \in Offsets(P)
  BY <1>0, <1>1, IhandleFact, Zenon DEF Offsets
<1>3. OrUnknown(rom_node_offset_by_ihandle(ih)) \in Given
  BY <1>0, <1>1, <1>2, HandedFact, Zenon
<1>4. "instance-to-package" # "getproplen"
  OBVIOUS
<1> QED BY <1>3, <1>4, Zenon DEF GivesNode, rom_itopackage

LEMMA PathOutServes ==
  ASSUME FromFile, NEW P, Layout(P), NEW service, NEW argument, NEW o, NEW buf_len \in Nat,
         o < 0 \/ \E i \in 1 .. Count : o = P[i], service # "getproplen",
         PathOut(service, argument, o, buf_len)
  PROVE  Writes
<1> DEFINE path == IF o < 0 THEN NoPath ELSE fdt_get_path(o, XferSize)
           n == IF path.found THEN Strlen(path.names) ELSE -1
           w == Least(buf_len, n + 1)
<1>1. path.found => path.names \in Seq(Names)
  <2>1. CASE o < 0
    <3>1. path = NoPath /\ NoPath.found = FALSE
      BY <2>1 DEF NoPath
    <3> QED BY <3>1
  <2>2. CASE ~(o < 0)
    <3>1. PICK i \in 1 .. Count : o = P[i]
      BY <2>2
    <3>2. XferSize \in Nat
      BY BuffersAssumption, Zenon
    <3> DEFINE full == [found |-> TRUE, names |-> PathTo(i)]
    <3>3. path = IF Strlen(PathTo(i)) < XferSize THEN full ELSE NoPath
      BY <2>2, <3>1, <3>2, GetPathFact, Zenon
    <3>4. full.names = PathTo(i) /\ NoPath.found = FALSE
      BY DEF NoPath
    <3>5. PathTo(i) \in Seq(Names)
      BY PathToFact, Zenon
    <3> HIDE DEF full, path
    <3> QED BY <3>3, <3>4, <3>5, Zenon
  <2> QED BY <2>1, <2>2
<1>2. Returns(service, argument, n, w, buf_len, path) /\ UNCHANGED have
  BY Zenon DEF PathOut
<1> HIDE DEF path
<1>3. n \in Int /\ n + 1 \in Nat
  <2>1. CASE path.found
    <3>1. Bytes(path.names) \in Nat
      BY <1>1, <2>1, BytesFact, Zenon
    <3>2. n = Strlen(path.names) /\ (Strlen(path.names) = 1 \/ Strlen(path.names) = Bytes(path.names))
      BY <2>1, Zenon DEF Strlen
    <3> HIDE DEF n
    <3>3. n = 1 \/ n = Bytes(path.names)
      BY <3>2
    <3>4. n \in Nat
      BY <3>1, <3>3
    <3> QED BY <3>4
  <2>2. CASE ~path.found
    BY <2>2
  <2> QED BY <2>1, <2>2
<1> HIDE DEF n
<1>4. w \in Nat /\ w <= buf_len
  BY <1>3 DEF Least
<1> HIDE DEF w
<1>5. Wrote(service, argument, n, w, buf_len)
  BY <1>3, <1>4, Zenon DEF Wrote
<1> QED BY <1>2, <1>5, Zenon DEF Writes

LEMMA PackagePathServes ==
  ASSUME TreeInv, NEW ph \in Asked, NEW n \in Lengths, rom_ptopath(ph, n)
  PROVE  Writes
<1>0. FromFile /\ n \in Nat
  BY BuffersAssumption, Zenon DEF TreeInv
<1>1. PICK P : Layout(P)
  BY <1>0, LayoutExists, Zenon
<1> DEFINE o == rom_node_offset_by_phandle(ph)
<1>2. o < 0 \/ \E i \in 1 .. Count : o = P[i]
  BY <1>0, <1>1, PhandleNode, Zenon
<1>3. PathOut("package-to-path", ph, o, n)
  BY Zenon DEF rom_ptopath
<1>4. "package-to-path" # "getproplen"
  OBVIOUS
<1> QED BY <1>0, <1>1, <1>2, <1>3, <1>4, PathOutServes, Zenon

LEMMA InstancePathServes ==
  ASSUME TreeInv, NEW ih \in Ihandles, NEW n \in Lengths, rom_itopath(ih, n)
  PROVE  Writes
<1>0. FromFile /\ n \in Nat
  BY BuffersAssumption, Zenon DEF TreeInv
<1>1. PICK P : Layout(P)
  BY <1>0, LayoutExists, Zenon
<1> DEFINE o == rom_node_offset_by_ihandle(ih)
<1>2. \E i \in 1 .. Count : o = P[i]
  BY <1>0, <1>1, IhandleFact, Zenon
<1>3. PathOut("instance-to-path", ih, o, n)
  BY Zenon DEF rom_itopath
<1>4. "instance-to-path" # "getproplen"
  OBVIOUS
<1> QED BY <1>0, <1>1, <1>2, <1>3, <1>4, PathOutServes, Zenon

LEMMA AvailFact ==
  ASSUME TreeInv
  PROVE  /\ avail \in Nat /\ avail * 2 * CellSize \in Nat
         /\ told \in {-1, avail * 2 * CellSize}
<1>1. avail \in 0 .. MaxAvail /\ told \in {-1, avail * 2 * CellSize}
  BY Zenon DEF TreeInv
<1>2. MaxAvail \in Nat
  BY BuffersAssumption
<1>3. avail \in Nat
  BY <1>1, <1>2
<1>4. avail * 2 * CellSize \in Nat
  BY <1>3 DEF CellSize
<1> QED BY <1>1, <1>3, <1>4

(* A list of ranges is as long as its ranges are many.                     *)
LEMMA PropLengthFact ==
  ASSUME TreeInv, NEW P, Layout(P), NEW i \in 1 .. Count, NEW name
  PROVE  /\ PropLength(P[i], name) \in Nat \cup {-1}
         /\ name = "reg" /\ P[i] = memory_node => PropLength(P[i], name) = 2 * CellSize
         /\ name = "available" /\ P[i] = memory_node => PropLength(P[i], name) = avail * 2 * CellSize
<1>0. FromFile
  BY Zenon DEF TreeInv
<1>1. IsNode(P[i]) /\ At(P[i]).name = tree.name[i]
  BY <1>0, NodesFact, Zenon DEF Layout
<1>2. tree.name[i].length \in Nat
  <2>1. tree.name[i] \in Names
    BY <1>0, TreeFact, Zenon
  <2> QED BY <2>1 DEF Names
<1>3. fdt_get_name(P[i]) \in Nat
  BY <1>1, <1>2, Zenon DEF fdt_get_name
<1>4. 1 \in Nat /\ 2 * CellSize \in Nat /\ CellSize \in Nat
  BY DEF CellSize
<1>5. "reg" # "name" /\ "available" # "name" /\ "available" # "reg"
  OBVIOUS
<1> DEFINE x == PropLength(P[i], name)
           y == fdt_get_name(P[i])
           a == avail * 2 * CellSize
           m == 2 * CellSize
<1>6. a \in Nat
  BY AvailFact, Zenon
<1>7. CASE name = "name"
  <2>1. x = 1 \/ x = y
    BY <1>7, Zenon DEF PropLength
  <2>2. x \in Nat
    BY <1>3, <1>4, <2>1, Zenon
  <2> QED BY <1>5, <1>7, <2>2
<1>8. CASE name = "reg" /\ P[i] = memory_node
  <2>1. x = m
    BY <1>5, <1>8, Zenon DEF PropLength
  <2> QED BY <1>4, <1>5, <1>8, <2>1
<1>9. CASE name = "available" /\ P[i] = memory_node
  <2>1. x = a
    BY <1>5, <1>9, Zenon DEF PropLength
  <2> QED BY <1>5, <1>6, <1>9, <2>1
<1>10. CASE /\ name # "name" /\ ~(name = "reg" /\ P[i] = memory_node)
            /\ ~(name = "available" /\ P[i] = memory_node)
  <2>1. x = CellSize \/ x = -1
    BY <1>10, Zenon DEF PropLength
  <2>2. x \in Nat \cup {-1}
    BY <1>4, <2>1, Zenon
  <2> QED BY <1>10, <2>2, Zenon
<1> QED BY <1>7, <1>8, <1>9, <1>10

LEMMA ArgumentFact ==
  ASSUME NEW ph, NEW name, NEW other
  PROVE  OfMemory(<<ph, name>>, other) <=> name = other /\ rom_node_offset_by_phandle(ph) = memory_node
<1>1. <<ph, name>>[1] = ph /\ <<ph, name>>[2] = name
  OBVIOUS
<1> QED BY <1>1, Zenon DEF OfMemory

(* Only the lists of the memory node are written past the room.            *)
LEMMA GetpropFact ==
  ASSUME TreeInv, NEW ph \in Asked, NEW name, NEW len_in \in Nat
  PROVE  LET out == rom_getprop_ex(rom_node_offset_by_phandle(ph), name, len_in)
         IN  /\ out.len \in Int /\ out.wrote \in Nat
             /\ out.wrote <= len_in \/ Excused("getprop", <<ph, name>>, len_in)
             /\ len_in = 0 /\ OfMemory(<<ph, name>>, "available") => out.len \in {-1, avail * 2 * CellSize}
<1> DEFINE o == rom_node_offset_by_phandle(ph)
           len == IF o < 0 THEN -1 ELSE PropLength(o, name)
           out == rom_getprop_ex(o, name, len_in)
           a == avail * 2 * CellSize
           m == 2 * CellSize
           isReg == name = "reg" /\ o = memory_node
           isAvail == name = "available" /\ o = memory_node
<1>0. FromFile /\ a \in Nat /\ told \in {-1, a}
  BY AvailFact, Zenon DEF TreeInv
<1>1. PICK P : Layout(P)
  BY <1>0, LayoutExists, Zenon
<1>2. /\ len \in Nat \cup {-1}
      /\ isReg => len \in {-1, m}
      /\ isAvail => len \in {-1, a}
  <2>1. CASE o < 0
    BY <2>1
  <2>2. CASE ~(o < 0)
    <3>1. PICK i \in 1 .. Count : o = P[i]
      BY <1>0, <1>1, <2>2, AskedNode, Zenon
    <3>2. /\ PropLength(o, name) \in Nat \cup {-1}
          /\ isReg => PropLength(o, name) = m
          /\ isAvail => PropLength(o, name) = a
      BY <1>1, <3>1, PropLengthFact, Zenon
    <3> QED BY <2>2, <3>2, Zenon
  <2> QED BY <2>1, <2>2
<1>3. out = IF len = -1 THEN [len |-> -1, wrote |-> 0]
            ELSE IF isReg \/ isAvail THEN [len |-> IF len_in = 0 THEN len ELSE Least(len, len_in), wrote |-> len]
            ELSE [len |-> len, wrote |-> Least(len, len_in)]
  <2>1. name \in {"reg", "available"} /\ o = memory_node <=> isReg \/ isAvail
    BY Zenon
  <2> QED BY <2>1, Zenon DEF rom_getprop_ex
<1>4. /\ OfMemory(<<ph, name>>, "reg") <=> isReg
      /\ OfMemory(<<ph, name>>, "available") <=> isAvail
  BY ArgumentFact, Zenon
<1> DEFINE excused == (isReg /\ len_in < m) \/ (isAvail /\ (told = -1 \/ len_in < told))
<1>5. excused => Excused("getprop", <<ph, name>>, len_in)
  BY <1>4, Zenon DEF Excused
<1>6. isReg \in BOOLEAN /\ isAvail \in BOOLEAN /\ m \in Nat
  BY DEF CellSize
<1> HIDE DEF len, out, a, m, isReg, isAvail
<1>7. /\ out.len \in Int /\ out.wrote \in Nat
      /\ out.wrote <= len_in \/ excused
      /\ len_in = 0 /\ isAvail => out.len \in {-1, a}
  <2>1. CASE len = -1
    <3>1. out = [len |-> -1, wrote |-> 0]
      BY <1>3, <2>1, Zenon
    <3> QED BY <3>1
  <2>2. CASE len # -1 /\ (isReg \/ isAvail)
    <3>1. out = [len |-> IF len_in = 0 THEN len ELSE Least(len, len_in), wrote |-> len] /\ len \in Nat
      BY <1>2, <1>3, <2>2, Zenon
    <3>2. (IF len_in = 0 THEN len ELSE Least(len, len_in)) \in Nat
      BY <3>1 DEF Least
    <3>3. out.len \in Int /\ out.wrote \in Nat /\ out.wrote = len /\ (len_in = 0 => out.len = len)
      BY <3>1, <3>2
    <3>4. (isReg => len = m) /\ (isAvail => len = a)
      BY <1>2, <2>2
    <3>5. len <= len_in \/ len_in < len
      BY <3>1
    <3>6. len_in < len => excused
      BY <1>0, <2>2, <3>4, Zenon
    <3> HIDE DEF excused
    <3> QED BY <3>3, <3>4, <3>5, <3>6
  <2>3. CASE len # -1 /\ ~(isReg \/ isAvail)
    <3>1. out = [len |-> len, wrote |-> Least(len, len_in)] /\ len \in Nat
      BY <1>2, <1>3, <2>3, Zenon
    <3>2. Least(len, len_in) \in Nat /\ Least(len, len_in) <= len_in
      BY <3>1 DEF Least
    <3> QED BY <2>3, <3>1, <3>2
  <2> QED BY <2>1, <2>2, <2>3
<1> HIDE DEF excused
<1> QED BY <1>4, <1>5, <1>7, Zenon DEF out, a

LEMMA GetpropServes ==
  ASSUME TreeInv, NEW ph \in Asked, NEW name, NEW n \in Lengths, rom_getprop(ph, name, n)
  PROVE  Writes
<1>1. n \in Nat
  BY BuffersAssumption, Zenon
<1> DEFINE out == rom_getprop_ex(rom_node_offset_by_phandle(ph), name, n)
<1>2. /\ out.len \in Int /\ out.wrote \in Nat
      /\ out.wrote <= n \/ Excused("getprop", <<ph, name>>, n)
  BY <1>1, GetpropFact, Zenon
<1>3. Returns("getprop", <<ph, name>>, out.len, out.wrote, n, NoPath) /\ UNCHANGED have
  BY Zenon DEF rom_getprop
<1>4. "getprop" # "getproplen"
  OBVIOUS
<1> HIDE DEF out
<1>5. Wrote("getprop", <<ph, name>>, out.len, out.wrote, n)
  BY <1>2, <1>4, Zenon DEF Wrote
<1> QED BY <1>3, <1>5, Zenon DEF Writes

LEMMA GetproplenServes ==
  ASSUME TreeInv, NEW ph \in Asked, NEW name, rom_getproplen(ph, name)
  PROVE  Writes
<1> DEFINE out == rom_getprop_ex(rom_node_offset_by_phandle(ph), name, 0)
<1>1. 0 \in Nat /\ 0 <= 0
  OBVIOUS
<1>2. out.len \in Int /\ (OfMemory(<<ph, name>>, "available") => out.len \in {-1, avail * 2 * CellSize})
  BY <1>1, GetpropFact, Zenon
<1>3. Returns("getproplen", <<ph, name>>, out.len, 0, 0, NoPath) /\ UNCHANGED have
  BY Zenon DEF rom_getproplen
<1> HIDE DEF out
<1>4. Wrote("getproplen", <<ph, name>>, out.len, 0, 0)
  BY <1>1, <1>2, Zenon DEF Wrote
<1> QED BY <1>3, <1>4, Zenon DEF Writes

LEMMA AskedFact ==
  ASSUME TreeInv, Wild = {}
  PROVE  have \cup {0} \cup Wild \subseteq Asked
<1>1. have \subseteq Given
  BY Zenon DEF TreeInv
<1> QED BY <1>1 DEF Asked

(* Every step is the boot's, the client's, a claim, a service, or the stop *)
(* over the parent of 0.                                                   *)
LEMMA StepFact ==
  ASSUME TreeInv, Wild = {}, Next
  PROVE  rom_init \/ Resume \/ rom_claim_ex \/ Stops(0) \/ GivesNode \/ Writes
<1>1. have \cup {0} \cup Wild \subseteq Asked
  BY AskedFact, Zenon
<1>2. ASSUME NEW ph \in Asked, rom_child(ph) \/ rom_peer(ph) \/ rom_parent(ph) PROVE GivesNode \/ Stops(0)
  BY <1>2, ChildServes, PeerServes, ParentServes, Zenon
<1>3. ASSUME NEW ph \in Asked, NEW n \in Lengths, rom_ptopath(ph, n) PROVE Writes
  BY <1>3, PackagePathServes, Zenon
<1>4. ASSUME NEW ph \in Asked, NEW name \in Props, rom_getproplen(ph, name) PROVE Writes
  BY <1>4, GetproplenServes, Zenon
<1>5. ASSUME NEW ph \in Asked, NEW name \in Props, NEW n \in Lengths, rom_getprop(ph, name, n) PROVE Writes
  BY <1>5, GetpropServes, Zenon
<1>6. ASSUME NEW path \in Lookups, rom_finddevice(path) PROVE GivesNode
  BY <1>6, FinddeviceServes, Zenon
<1>7. ASSUME NEW ih \in Ihandles, rom_itopackage(ih) PROVE GivesNode
  BY <1>7, InstanceServes, Zenon
<1>8. ASSUME NEW ih \in Ihandles, NEW n \in Lengths, rom_itopath(ih, n) PROVE Writes
  BY <1>8, InstancePathServes, Zenon
<1> QED BY <1>1, <1>2, <1>3, <1>4, <1>5, <1>6, <1>7, <1>8, Zenon DEF Next

LEMMA BootFact ==
  ASSUME TreeInv, rom_init
  PROVE  /\ memory_node' \in Nodes \cup {NOTFOUND, BADPATH}
         /\ mmu_ihandle' \in {tree.ihandle[i] : i \in DOMAIN tree.ihandle} \cup {0, -1}
         /\ UNCHANGED <<tree, fdt, told, have, call>>
         /\ avail' \in 0 .. MaxAvail /\ pc' \in {"stopped", "ready"}
<1>0. FromFile
  BY Zenon DEF TreeInv
<1>1. PICK P : Layout(P)
  BY <1>0, LayoutExists, Zenon
<1>2. Nodes = {P[i] : i \in 1 .. Count}
  BY <1>0, <1>1, NodesFact, Zenon
<1>3. \A name : Alias(name).alias = name /\ Alias(name).comps = <<>>
  BY DEF Alias
<1>4. Plain("mem") /\ Plain("mmu")
  BY DEF Plain
<1>5. <<>> \in Seq(Names)
  OBVIOUS
<1>6. fdt_path_offset(Alias("mem")) \in Offsets(P) /\ fdt_path_offset(Alias("mmu")) \in Offsets(P)
  BY <1>0, <1>1, <1>3, <1>4, <1>5, PathOffset, Zenon
<1>7. memory_node' \in Nodes \cup {NOTFOUND, BADPATH}
  BY <1>2, <1>6, Zenon DEF rom_init, Offsets
<1> DEFINE o == fdt_path_offset(Alias("mmu"))
           I == {tree.ihandle[i] : i \in DOMAIN tree.ihandle}
<1>8. rom_path_to_ihandle(Alias("mmu")) \in I \cup {0, -1}
  <2>1. CASE o = NOTFOUND
    BY <2>1, Zenon DEF rom_path_to_ihandle
  <2>2. CASE o = BADPATH
    <3>1. o # NOTFOUND
      BY <2>2 DEF NOTFOUND, BADPATH
    <3>2. ~IsNode(o)
      <4>1. BADPATH \notin 0 .. Len(fdt) - 1
        BY DEF BADPATH
      <4> QED BY <2>2, <4>1, Zenon DEF IsNode, Tag
    <3> HIDE DEF o
    <3>3. fdt_get_phandle(o) = 0
      BY <3>2, Zenon DEF fdt_get_phandle, HasProp
    <3> QED BY <3>1, <3>3, Zenon DEF rom_path_to_ihandle, rom_get_ihandle, o
  <2>3. CASE \E i \in 1 .. Count : o = P[i]
    <3>1. PICK i \in 1 .. Count : o = P[i]
      BY <2>3
    <3>2. fdt_get_phandle(o) = tree.ihandle[i]
      BY <1>0, <1>1, <3>1, PhandleFact, Zenon
    <3>3. DOMAIN tree.ihandle = 1 .. Count
      BY <1>0, TreeFact, Zenon
    <3>4. fdt_get_phandle(o) \in I
      BY <3>1, <3>2, <3>3, Zenon
    <3> HIDE DEF o, I
    <3>5. rom_path_to_ihandle(Alias("mmu")) = IF o = NOTFOUND THEN -1 ELSE fdt_get_phandle(o)
      BY Zenon DEF rom_path_to_ihandle, rom_get_ihandle, o
    <3> QED BY <3>4, <3>5, Zenon
  <2> QED BY <1>6, <2>1, <2>2, <2>3, Zenon DEF Offsets
<1>9. mmu_ihandle' \in I \cup {0, -1}
  BY <1>8, Zenon DEF rom_init
<1>10. /\ UNCHANGED <<tree, fdt, told, have, call>> /\ pc' \in {"stopped", "ready"}
       /\ avail' \in 0 .. MaxAvail
  BY Zenon DEF rom_init
<1> QED BY <1>7, <1>9, <1>10, Zenon

(* The invariant: what the file gave is never changed, every phandle given *)
(* is a node's, and what was written is inside the buffer.  Nothing is told*)
(* of "available" before the boot is over.                                 *)
ServicesInv ==
  /\ TreeInv
  /\ pc = "boot" => call = NoCall /\ told = -1
  /\ WithinBuffer

(* While the tree stays, so does what can be given.                        *)
LEMMA SameTree ==
  ASSUME TreeInv, UNCHANGED <<tree, fdt>>
  PROVE  /\ FromFile' /\ Nodes' = Nodes /\ Given' = Given
         /\ {tree.ihandle[i] : i \in DOMAIN tree.ihandle}' = {tree.ihandle[i] : i \in DOMAIN tree.ihandle}
<1>1. tree' = tree /\ fdt' = fdt
  OBVIOUS
<1>2. FromFile'
  BY <1>1, Zenon DEF TreeInv, FromFile
<1>3. Nodes' = Nodes
  BY <1>1, Zenon DEF Nodes, IsNode, Tag, At
<1>4. Given' = Given
  BY <1>3, Zenon DEF Given
<1>5. {tree.ihandle[i] : i \in DOMAIN tree.ihandle}' = {tree.ihandle[i] : i \in DOMAIN tree.ihandle}
  BY <1>1, Zenon
<1> QED BY <1>2, <1>3, <1>4, <1>5

LEMMA NoCallFact == NoCall.result = 0 /\ NoCall.wrote = 0 /\ NoCall.room = 0
  BY DEF NoCall

LEMMA NothingWritten ==
  ASSUME call'.wrote = 0, call'.room = 0
  PROVE  WithinBuffer'
<1>1. 0 <= 0
  OBVIOUS
<1> QED BY <1>1, Zenon DEF WithinBuffer

(* As long as the list is, it is said to be, or nothing is said.           *)
LEMMA ToldFact ==
  ASSUME TreeInv, avail' = avail, told' = told
  PROVE  avail' \in 0 .. MaxAvail /\ told' \in {-1, avail' * 2 * CellSize}
BY Zenon DEF TreeInv

LEMMA ServicesInit ==
  ASSUME Init
  PROVE  ServicesInv
<1>1. /\ tree \in Trees /\ fdt = Block(tree) /\ memory_node = 0 /\ mmu_ihandle = 0
      /\ avail = 1 /\ told = -1 /\ have = {} /\ call = NoCall /\ pc = "boot"
  BY Zenon DEF Init
<1>2. FromFile
  BY <1>1, Zenon DEF FromFile
<1>3. PICK P : Layout(P)
  BY <1>2, LayoutExists, Zenon
<1>4. 0 \in Nodes
  BY <1>2, <1>3, RootOffset, NodesFact, Zenon
<1>5. call.result = 0 /\ call.wrote = 0 /\ call.room = 0
  BY <1>1, NoCallFact, Zenon
<1>6. 0 \in Int /\ 0 \in Nat /\ 0 <= 0 /\ 1 \in 0 .. MaxAvail
  BY BuffersAssumption
<1>7. TreeInv
  BY <1>1, <1>2, <1>4, <1>5, <1>6, Zenon DEF TreeInv
<1>8. WithinBuffer
  BY <1>5, <1>6, Zenon DEF WithinBuffer
<1> QED BY <1>1, <1>7, <1>8 DEF ServicesInv

(* A service leaves the tree and what was learnt at boot alone.            *)
LEMMA ReturnsFact ==
  ASSUME NEW service, NEW argument, NEW result, NEW wrote, NEW room, NEW path,
         Returns(service, argument, result, wrote, room, path)
  PROVE  /\ UNCHANGED <<tree, fdt, memory_node, mmu_ihandle, avail>>
         /\ told' = IF service = "getproplen" /\ OfMemory(argument, "available") THEN result ELSE told
         /\ pc = "ready" /\ pc' = "answered"
         /\ call'.service = service /\ call'.argument = argument /\ call'.result = result
         /\ call'.wrote = wrote /\ call'.room = room /\ call'.path = path
<1> DEFINE r == [service |-> service, argument |-> argument, result |-> result,
                 wrote |-> wrote, room |-> room, path |-> path]
<1>1. /\ call' = r /\ UNCHANGED <<tree, fdt, memory_node, mmu_ihandle, avail>> /\ pc = "ready" /\ pc' = "answered"
      /\ told' = IF service = "getproplen" /\ OfMemory(argument, "available") THEN result ELSE told
  BY Zenon DEF Returns
<1>2. /\ r.service = service /\ r.argument = argument /\ r.result = result
      /\ r.wrote = wrote /\ r.room = room /\ r.path = path
  OBVIOUS
<1> HIDE DEF r
<1> QED BY <1>1, <1>2, Zenon

LEMMA ServicesStep ==
  ASSUME ServicesInv, Wild = {}, [Next]_vars
  PROVE  ServicesInv'
<1>0. TreeInv /\ WithinBuffer /\ (pc = "boot" => call = NoCall /\ told = -1)
  BY Zenon DEF ServicesInv
<1> DEFINE Handles == {tree.ihandle[i] : i \in DOMAIN tree.ihandle}
<1>01. ASSUME tree' = tree, fdt' = fdt
       PROVE  FromFile' /\ Nodes' = Nodes /\ Given' = Given /\ Handles' = Handles
  BY <1>0, <1>01, SameTree, Zenon
<1>02. -1 # 0 /\ 0 \in Int /\ 0 \in Nat
  OBVIOUS
<1>1. CASE UNCHANGED vars
  <2>1. /\ tree' = tree /\ fdt' = fdt /\ memory_node' = memory_node /\ mmu_ihandle' = mmu_ihandle
        /\ avail' = avail /\ told' = told /\ have' = have /\ call' = call /\ pc' = pc
    BY <1>1 DEF vars
  <2>2. FromFile' /\ Nodes' = Nodes /\ Given' = Given /\ Handles' = Handles
    BY <1>01, <2>1
  <2>3. TreeInv'
    BY <1>0, <2>1, <2>2, Zenon DEF TreeInv
  <2>4. WithinBuffer'
    BY <1>0, <2>1, Zenon DEF WithinBuffer, OfMemory, rom_node_offset_by_phandle
  <2> QED BY <1>0, <2>1, <2>3, <2>4, Zenon DEF ServicesInv
<1>2. CASE rom_init
  <2>1. /\ memory_node' \in Nodes \cup {NOTFOUND, BADPATH}
        /\ mmu_ihandle' \in Handles \cup {0, -1}
        /\ tree' = tree /\ fdt' = fdt /\ told' = told /\ have' = have /\ call' = call
        /\ avail' \in 0 .. MaxAvail /\ pc' \in {"stopped", "ready"}
    BY <1>0, <1>2, BootFact, Zenon
  <2>2. FromFile' /\ Nodes' = Nodes /\ Given' = Given /\ Handles' = Handles
    BY <1>01, <2>1
  <2>3. pc' \in {"boot", "ready", "answered", "stopped"} /\ pc' # "boot"
    BY <2>1
  <2>4. pc = "boot"
    BY <1>2, Zenon DEF rom_init
  <2>5. told' = -1
    BY <1>0, <2>1, <2>4, Zenon
  <2>6. TreeInv'
    BY <1>0, <2>1, <2>2, <2>3, <2>5, Zenon DEF TreeInv
  <2>7. call'.wrote = 0 /\ call'.room = 0
    BY <1>0, <2>1, <2>4, NoCallFact, Zenon
  <2> QED BY <2>3, <2>6, <2>7, NothingWritten, Zenon DEF ServicesInv
<1>3. CASE Resume
  <2>1. /\ tree' = tree /\ fdt' = fdt /\ memory_node' = memory_node /\ mmu_ihandle' = mmu_ihandle
        /\ avail' = avail /\ told' = told /\ have' = have /\ call' = NoCall /\ pc' = "ready"
    BY <1>3, Zenon DEF Resume
  <2>2. FromFile' /\ Nodes' = Nodes /\ Given' = Given /\ Handles' = Handles
    BY <1>01, <2>1
  <2>3. call'.result = 0 /\ call'.wrote = 0 /\ call'.room = 0
    BY <2>1, NoCallFact, Zenon
  <2>4. TreeInv'
    BY <1>0, <1>02, <2>1, <2>2, <2>3, ToldFact, Zenon DEF TreeInv
  <2> QED BY <2>1, <2>3, <2>4, NothingWritten, Zenon DEF ServicesInv
<1>4. CASE rom_claim_ex
  <2>1. /\ tree' = tree /\ fdt' = fdt /\ memory_node' = memory_node /\ mmu_ihandle' = mmu_ihandle
        /\ avail' \in 0 .. Least(avail + 1, MaxAvail) /\ told' = -1
        /\ have' = have /\ call' = call /\ pc' = pc /\ pc = "ready"
    BY <1>4, Zenon DEF rom_claim_ex
  <2>2. FromFile' /\ Nodes' = Nodes /\ Given' = Given /\ Handles' = Handles
    BY <1>01, <2>1
  <2>3. avail' \in 0 .. MaxAvail
    <3>1. avail \in Nat /\ MaxAvail \in Nat
      BY <1>0, AvailFact, BuffersAssumption, Zenon
    <3>2. Least(avail + 1, MaxAvail) \in Nat /\ Least(avail + 1, MaxAvail) <= MaxAvail
      BY <3>1 DEF Least
    <3> QED BY <2>1, <3>1, <3>2
  <2>4. TreeInv'
    BY <1>0, <2>1, <2>2, <2>3, Zenon DEF TreeInv
  <2>5. WithinBuffer'
    BY <1>0, <2>1, Zenon DEF WithinBuffer, OfMemory, rom_node_offset_by_phandle
  <2>6. pc' # "boot"
    BY <2>1
  <2> QED BY <2>4, <2>5, <2>6, Zenon DEF ServicesInv
<1>5. CASE Stops(0)
  <2>1. /\ tree' = tree /\ fdt' = fdt /\ memory_node' = memory_node /\ mmu_ihandle' = mmu_ihandle
        /\ avail' = avail /\ told' = told /\ have' = have /\ pc' = "stopped"
        /\ call' = [NoCall EXCEPT !.service = "BUG_ON", !.argument = 0]
    BY <1>5, Zenon DEF Stops
  <2>2. FromFile' /\ Nodes' = Nodes /\ Given' = Given /\ Handles' = Handles
    BY <1>01, <2>1
  <2>3. call'.result = 0 /\ call'.wrote = 0 /\ call'.room = 0
    BY <2>1 DEF NoCall
  <2>4. TreeInv'
    BY <1>0, <1>02, <2>1, <2>2, <2>3, ToldFact, Zenon DEF TreeInv
  <2>5. pc' # "boot"
    BY <2>1
  <2> QED BY <2>3, <2>4, <2>5, NothingWritten, Zenon DEF ServicesInv
<1>6. CASE GivesNode
  <2>1. PICK service, argument : \E r \in Given \cup {0} : service # "getproplen" /\ Gives(service, argument, r)
    BY <1>6, Zenon DEF GivesNode
  <2>2. PICK ph \in Given \cup {0} : service # "getproplen" /\ Gives(service, argument, ph)
    BY <2>1, Zenon
  <2>3. Returns(service, argument, ph, 0, 0, NoPath) /\ have' = IF ph = 0 THEN have ELSE have \cup {ph}
    BY <2>2, Zenon DEF Gives
  <2>4. /\ tree' = tree /\ fdt' = fdt /\ memory_node' = memory_node /\ mmu_ihandle' = mmu_ihandle
        /\ avail' = avail /\ told' = told
        /\ pc' = "answered" /\ call'.result = ph /\ call'.wrote = 0 /\ call'.room = 0
    <3>1. Returns(service, argument, ph, 0, 0, NoPath)
      BY <2>3, Zenon
    <3>2. /\ UNCHANGED <<tree, fdt, memory_node, mmu_ihandle, avail>> /\ pc' = "answered"
          /\ told' = IF service = "getproplen" /\ OfMemory(argument, "available") THEN ph ELSE told
      BY <3>1, ReturnsFact, Zenon
    <3>3. call'.result = ph /\ call'.wrote = 0 /\ call'.room = 0
      BY <3>1 DEF Returns
    <3> QED BY <2>2, <3>2, <3>3, Zenon
  <2>5. FromFile' /\ Nodes' = Nodes /\ Given' = Given /\ Handles' = Handles
    BY <1>01, <2>4
  <2>6. have' \subseteq Given
    <3>1. have \subseteq Given
      BY <1>0, Zenon DEF TreeInv
    <3> QED BY <2>3, <3>1, Zenon
  <2>7. ph \in Int
    <3>1. PICK P : Layout(P)
      BY <1>0, LayoutExists, Zenon DEF TreeInv
    <3>2. Given \subseteq Int
      BY <1>0, <3>1, HandedFact, Zenon DEF TreeInv
    <3> QED BY <1>02, <3>2, Zenon
  <2>8. TreeInv'
    BY <1>0, <1>02, <2>4, <2>5, <2>6, <2>7, ToldFact, Zenon DEF TreeInv
  <2>9. pc' # "boot"
    BY <2>4
  <2> QED BY <2>4, <2>8, <2>9, NothingWritten, Zenon DEF ServicesInv
<1>7. CASE Writes
  <2>1. PICK service, argument, result, wrote, room, path :
          /\ Wrote(service, argument, result, wrote, room)
          /\ Returns(service, argument, result, wrote, room, path)
          /\ have' = have
    BY <1>7, Zenon DEF Writes
  <2>2. /\ tree' = tree /\ fdt' = fdt /\ memory_node' = memory_node /\ mmu_ihandle' = mmu_ihandle
        /\ avail' = avail
        /\ told' = IF service = "getproplen" /\ OfMemory(argument, "available") THEN result ELSE told
        /\ pc' = "answered" /\ call'.service = service /\ call'.argument = argument
        /\ call'.result = result /\ call'.wrote = wrote /\ call'.room = room
    BY <2>1, ReturnsFact, Zenon
  <2>3. FromFile' /\ Nodes' = Nodes /\ Given' = Given /\ Handles' = Handles
    BY <1>01, <2>2
  <2>4. avail' \in 0 .. MaxAvail /\ told' \in {-1, avail' * 2 * CellSize}
    BY <1>0, <2>1, <2>2, Zenon DEF TreeInv, Wrote
  <2>5. TreeInv'
    BY <1>0, <2>1, <2>2, <2>3, <2>4, Zenon DEF TreeInv, Wrote
  <2>6. WithinBuffer'
    <3>1. CASE wrote <= room
      BY <2>2, <3>1, Zenon DEF WithinBuffer
    <3>2. CASE Excused(service, argument, room)
      <4>1. "getprop" # "getproplen"
        OBVIOUS
      <4>2. service = "getprop" /\ told' = told
        BY <2>2, <3>2, <4>1, Zenon DEF Excused
      <4> QED BY <2>2, <3>2, <4>2, Zenon DEF WithinBuffer, Excused, OfMemory, rom_node_offset_by_phandle
    <3> QED BY <2>1, <3>1, <3>2, Zenon DEF Wrote
  <2>7. pc' # "boot"
    BY <2>2
  <2> QED BY <2>5, <2>6, <2>7, Zenon DEF ServicesInv
<1> QED BY <1>0, <1>1, <1>2, <1>3, <1>4, <1>5, <1>6, <1>7, StepFact, Zenon

LEMMA ServicesAlways ==
  ASSUME Wild = {}
  PROVE  Spec => []ServicesInv
<1>1. Init => ServicesInv
  BY ServicesInit, Zenon
<1>2. ServicesInv /\ [Next]_vars => ServicesInv'
  BY ServicesStep
<1> QED BY <1>1, <1>2, PTL DEF Spec

LEMMA TypeFact ==
  ASSUME TreeInv
  PROVE  TypeOK
<1>1. IsTree(tree)
  BY TreesAssumption, Zenon DEF TreeInv, FromFile
<1> QED BY <1>1, Zenon DEF TreeInv, TypeOK, Given

(* Every phandle a client is given is the phandle of a node, or -1, and    *)
(* what rom_init found is a node, a handle of one, or an error.            *)
THEOREM TreeTypeOK ==
  ASSUME Wild = {}
  PROVE  Spec => []TypeOK
<1>1. ServicesInv => TypeOK
  BY TypeFact, Zenon DEF ServicesInv
<1> QED BY <1>1, ServicesAlways, PTL

(* However large the tree, the services write no more than the room the    *)
(* client gave them; the lists of the memory node only if the room is what *)
(* getproplen says, of "available" after the last claim.                   *)
THEOREM TreeWithinBuffer ==
  ASSUME Wild = {}
  PROVE  Spec => []WithinBuffer
<1>1. ServicesInv => WithinBuffer
  BY Zenon DEF ServicesInv
<1> QED BY <1>1, ServicesAlways, PTL

(* rom_parent's BUG_ON is not reached, but over 0, by a client that only   *)
(* passes phandles it was given: every node given but the root has a parent*)
(* that is found.                                                          *)
THEOREM TreeStopsOnlyOverNone ==
  ASSUME Wild = {}
  PROVE  Spec => StopsOnlyOverNone
<1>1. ServicesInv /\ [Next]_vars => [pc = "ready" /\ pc' = "stopped" => call'.argument = 0]_vars
  <2>1. SUFFICES ASSUME TreeInv, Next, pc = "ready", pc' = "stopped" PROVE call'.argument = 0
    BY Zenon DEF ServicesInv
  <2>2. "ready" # "boot" /\ "ready" # "answered" /\ "stopped" # "answered" /\ "stopped" # "ready"
    OBVIOUS
  <2>3. ~rom_init /\ ~Resume
    BY <2>1, <2>2, Zenon DEF rom_init, Resume
  <2>4. ~rom_claim_ex
    BY <2>1, <2>2, Zenon DEF rom_claim_ex
  <2>5. ~GivesNode
    BY <2>1, <2>2, Zenon DEF GivesNode, Gives, Returns
  <2>6. ~Writes
    BY <2>1, <2>2, Zenon DEF Writes, Returns
  <2>7. ASSUME Stops(0) PROVE call'.argument = 0
    BY <2>7 DEF Stops, NoCall
  <2> QED BY <2>1, <2>3, <2>4, <2>5, <2>6, <2>7, StepFact, Zenon
<1> QED BY <1>1, ServicesAlways, PTL DEF Spec, StopsOnlyOverNone

LEMMA AboveSelf ==
  ASSUME FromFile, NEW i \in 1 .. Count
  PROVE  Above(i, Depth(i)) = i
<1>1. Depth(i) \in 0 .. Depth(i) /\ i <= i
  <2>1. Depth(i) \in Nat
    BY TreeFact, Zenon
  <2> QED BY <2>1
<1>2. \A k \in i + 1 .. i : Depth(k) > Depth(i)
  OBVIOUS
<1>3. i \in Line(i)
  BY <1>1, <1>2, Zenon DEF Line
<1> QED BY <1>1, <1>3, AboveFact, Zenon

(* One of a depth is a child of the one of the depth before.               *)
LEMMA AboveKid ==
  ASSUME FromFile, NEW i \in 1 .. Count, NEW d \in 1 .. Depth(i)
  PROVE  Above(i, d) \in Kids(Above(i, d - 1))
<1> DEFINE a == Above(i, d - 1)
           b == Above(i, d)
<1>1. Depth(i) \in Nat /\ Count \in Nat /\ \A k \in 1 .. Count : Depth(k) \in Nat
  BY TreeFact, Zenon
<1>2. d \in 0 .. Depth(i) /\ d - 1 \in 0 .. Depth(i) /\ d \in Nat
  BY <1>1
<1>3. /\ a \in 1 .. i /\ a \in 1 .. Count /\ Depth(a) = d - 1
      /\ \A k \in a + 1 .. i : Depth(k) > d - 1
  BY <1>2, AboveFact, Zenon
<1>4. b \in 1 .. i /\ b \in 1 .. Count /\ Depth(b) = d /\ \A k \in b + 1 .. i : Depth(k) > d
  BY <1>2, AboveFact, Zenon
<1> HIDE DEF a, b
<1>5. a < b
  <2>1. SUFFICES ASSUME b <= a PROVE FALSE
    BY <1>3, <1>4
  <2>2. a # b
    BY <1>2, <1>3, <1>4
  <2>3. a \in b + 1 .. i
    BY <1>3, <1>4, <2>1, <2>2
  <2>4. Depth(a) > d
    BY <1>4, <2>3
  <2> QED BY <1>2, <1>3, <2>4
<1>6. ASSUME NEW m \in a + 1 .. b - 1 PROVE Depth(m) >= Depth(b)
  <2>1. m \in a + 1 .. i /\ m \in 1 .. Count
    BY <1>1, <1>3, <1>4
  <2>2. Depth(m) > d - 1 /\ Depth(m) \in Nat
    BY <1>1, <1>3, <2>1
  <2> QED BY <1>2, <1>4, <2>2
<1>7. Depth(a) = Depth(b) - 1
  BY <1>3, <1>4
<1>8. b \in Kids(a)
  BY <1>4, <1>5, <1>6, <1>7, Zenon DEF Kids
<1> QED BY <1>8 DEF a, b

(* The way down a node's path, as far as it is the node's.                 *)
LEMMA WayDown ==
  ASSUME FromFile, NEW P, Layout(P), NEW i \in 1 .. Count, NEW d \in 1 .. Depth(i)
  PROVE  \/ Hop(P[Above(i, d - 1)], tree.name[Above(i, d)]) = P[Above(i, d)]
         \/ Shadowed(P[i])
<1> DEFINE a == Above(i, d - 1)
           b == Above(i, d)
           N == Named(a, tree.name[b])
           s == Min(N)
<1>1. Depth(i) \in Nat /\ Count \in Nat /\ Depth(1) = 0
  BY TreeFact, Zenon
<1>2. d \in 0 .. Depth(i) /\ d - 1 \in 0 .. Depth(i) /\ d \in Nat /\ d # 0
  BY <1>1
<1>3. a \in 1 .. Count /\ b \in 1 .. Count /\ Depth(b) = d
  BY <1>2, AboveFact, Zenon
<1>4. b \in Kids(a)
  BY AboveKid, Zenon
<1>5. fdt_supernode_atdepth_offset(P[i], d) = P[b] /\ fdt_node_depth(P[i]) = Depth(i)
  BY <1>2, SupernodeFact, DepthFact, Zenon
<1> HIDE DEF a, b
<1>6. b \in N
  BY <1>4, Zenon DEF Named
<1>7. N \subseteq 1 .. Count /\ s \in N /\ Hop(P[a], tree.name[b]) = P[s]
  BY <1>3, <1>6, HopFact, Zenon
<1>8. s \in Kids(a) /\ s \in 1 .. Count /\ (tree.name[s] = tree.name[b] \/ (tree.name[b].at = "" /\ tree.name[s].base = tree.name[b].base))
  BY <1>7, Zenon DEF Named
<1>9. s <= b
  <2>1. 1 .. Count \subseteq Nat
    OBVIOUS
  <2>2. N \subseteq Nat
    BY <1>7, <2>1, Zenon
  <2> HIDE DEF N
  <2> QED BY <1>6, <2>2, MinFact, Zenon
<1> HIDE DEF N, s
<1>10. CASE s = b
  BY <1>7, <1>10, Zenon DEF a, b
<1>11. CASE s # b
  <2>1. s # 1 /\ b # 1 /\ a = Parent(s) /\ a = Parent(b)
    BY <1>3, <1>4, <1>8, ParentFact, Zenon
  <2>2. fdt_parent_offset(P[s]) = P[a] /\ fdt_parent_offset(P[b]) = P[a]
    BY <1>3, <1>8, <2>1, ParentOffsetFact, Zenon
  <2>3. s < b /\ s > 1 /\ b > 1 /\ 1 \in 1 .. Count + 1 /\ s \in 1 .. Count + 1 /\ b \in 1 .. Count + 1
    <3>1. s \in 1 .. Count
      BY <1>8, Zenon
    <3>2. s # 1 /\ b # 1
      BY <2>1
    <3> QED BY <1>1, <1>3, <1>9, <1>11, <3>1, <3>2
  <2>4. P[s] < P[b] /\ P[s] \in Nat /\ P[b] \in Nat
    BY <2>3, PlaceFact, Zenon
  <2>5. P[1] = 0 /\ P[1] < P[s] /\ P[1] < P[b]
    <3>1. 1 < s /\ 1 < b
      BY <2>3
    <3> QED BY <2>3, <3>1, PlaceFact, Zenon
  <2>6. P[s] # 0 /\ P[b] # 0
    BY <2>4, <2>5
  <2>7. P[s] \in Nodes /\ P[b] \in Nodes
    BY <1>3, <1>8, NodesFact, Zenon
  <2>8. At(P[s]).name = tree.name[s] /\ At(P[b]).name = tree.name[b]
    BY <1>3, <1>8, Zenon DEF Layout
  <2>9. _fdt_nodename_eq(P[s], At(P[b]).name)
    BY <1>8, <2>8, Zenon DEF _fdt_nodename_eq
  <2>10. \E e \in 1 .. fdt_node_depth(P[i]) : fdt_supernode_atdepth_offset(P[i], e) = P[b]
    BY <1>5, Zenon
  <2>11. Shadowed(P[i])
    BY <2>2, <2>4, <2>6, <2>7, <2>9, <2>10, Zenon DEF Shadowed
  <2> QED BY <2>11
<1> QED BY <1>10, <1>11

LEMMA PathBack ==
  ASSUME FromFile, NEW P, Layout(P), NEW i \in 1 .. Count
  PROVE  fdt_path_offset([alias |-> "", comps |-> PathTo(i)]) = P[i] \/ Shadowed(P[i])
<1> DEFINE p == PathTo(i)
           n == Depth(i)
<1>1. p \in Seq(Names) /\ Len(p) = n /\ n \in Nat /\ \A d \in 1 .. n : p[d] = tree.name[Above(i, d)]
  BY PathToFact, Zenon
<1> HIDE DEF p
<1>2. 0 \in Offsets(P) /\ P[1] = 0 /\ 1 \in 1 .. Count
  BY RootOffset, Zenon
<1>3. fdt_path_offset([alias |-> "", comps |-> p]) = Descend(0, p)
  <2> DEFINE r == [alias |-> "", comps |-> p]
  <2>1. r.alias = "" /\ r.comps = p
    OBVIOUS
  <2> HIDE DEF r
  <2>2. fdt_path_offset(r) = Descend(0, p)
    BY <2>1, Zenon DEF fdt_path_offset
  <2> QED BY <2>2 DEF r
<1>4. PICK v : DescentChain(v, 0, p) /\ Descend(0, p) = v[Len(p)]
  BY <1>1, <1>2, DescendChain, Zenon
<1> DEFINE T == {k \in Nat : k <= n => v[k] = P[Above(i, k)] \/ Shadowed(P[i])}
<1>5. 0 \in T
  <2>1. v[0] = 0
    BY <1>4, Zenon DEF DescentChain
  <2>2. Above(i, 0) = 1
    <3>1. 0 \in 0 .. n /\ n \in Nat
      BY <1>1
    <3>2. Above(i, 0) \in 1 .. Count /\ Depth(Above(i, 0)) = 0
      BY <3>1, AboveFact, Zenon
    <3> DEFINE a == Above(i, 0)
    <3>3. a \in 2 .. Count \/ a = 1
      BY <3>2
    <3>4. \A k \in 2 .. Count : Depth(k) >= 1
      BY TreeFact, Zenon
    <3> HIDE DEF a
    <3>5. ASSUME a \in 2 .. Count PROVE FALSE
      <4>1. Depth(a) >= 1 /\ Depth(a) = 0
        BY <3>2, <3>4, <3>5, Zenon DEF a
      <4> QED BY <4>1
    <3> QED BY <3>3, <3>5 DEF a
  <2>3. 0 \in Nat
    OBVIOUS
  <2> QED BY <1>2, <2>1, <2>2, <2>3, Zenon
<1>6. ASSUME NEW k \in Nat, k \in T PROVE k + 1 \in T
  <2> DEFINE m == k + 1
  <2>1. m \in Nat /\ m - 1 = k
    OBVIOUS
  <2>2. ASSUME m <= n PROVE v[m] = P[Above(i, m)] \/ Shadowed(P[i])
    <3>1. k <= n /\ m \in 1 .. n
      BY <1>1, <2>2
    <3>2. v[k] = P[Above(i, k)] \/ Shadowed(P[i])
      BY <1>6, <3>1, Zenon
    <3> HIDE DEF m
    <3>3. v[m] = Hop(v[k], p[m])
      BY <1>1, <1>4, <2>1, <3>1, Zenon DEF DescentChain
    <3>4. \/ Hop(P[Above(i, m - 1)], tree.name[Above(i, m)]) = P[Above(i, m)]
          \/ Shadowed(P[i])
      BY <3>1, WayDown, Zenon
    <3> QED BY <1>1, <2>1, <3>1, <3>2, <3>3, <3>4, Zenon
  <2> QED BY <2>1, <2>2, Zenon
<1> HIDE DEF T
<1>7. Nat \subseteq T
  BY <1>5, <1>6, SetInduction
<1>8. n <= n
  BY <1>1
<1>9. v[n] = P[Above(i, n)] \/ Shadowed(P[i])
  BY <1>1, <1>7, <1>8, Zenon DEF T
<1>10. Above(i, n) = i
  BY AboveSelf, Zenon
<1> QED BY <1>1, <1>3, <1>4, <1>9, <1>10, Zenon DEF p

-----------------------------------------------------------------------------
(* The packages are the nodes, in the order of their offsets.              *)
LEMMA PlacesCounted ==
  ASSUME FromFile, NEW P, Layout(P), NEW i \in 1 .. Count
  PROVE  Cardinality({P[k] : k \in 1 .. i}) = i
<1> DEFINE S(j) == {P[k] : k \in 1 .. j}
           T == {j \in Nat : j <= i => IsFiniteSet(S(j)) /\ Cardinality(S(j)) = j}
<1>1. Count \in Nat
  BY TreeFact, Zenon
<1>2. 0 \in T
  <2>1. 1 .. 0 = {} /\ 0 \in Nat
    OBVIOUS
  <2>2. S(0) = {}
    BY <2>1
  <2> HIDE DEF S
  <2> QED BY <2>1, <2>2, FS_EmptySet, Zenon
<1>3. ASSUME NEW j \in Nat, j \in T PROVE j + 1 \in T
  <2> DEFINE m == j + 1
  <2>1. m \in Nat
    OBVIOUS
  <2>2. ASSUME m <= i PROVE IsFiniteSet(S(m)) /\ Cardinality(S(m)) = m
    <3>1. j <= i /\ m \in 1 .. Count + 1 /\ \A k \in 1 .. j : k \in 1 .. Count + 1 /\ k < m
      BY <1>1, <2>2
    <3>2. IsFiniteSet(S(j)) /\ Cardinality(S(j)) = j
      BY <1>3, <3>1, Zenon
    <3>3. 1 .. m = (1 .. j) \cup {m}
      OBVIOUS
    <3>4. P[m] \notin S(j)
      <4>1. ASSUME NEW k \in 1 .. j PROVE P[k] # P[m]
        <5>1. P[k] < P[m] /\ P[k] \in Nat
          BY <3>1, PlaceFact, Zenon
        <5> QED BY <5>1
      <4> QED BY <4>1, Zenon
    <3> HIDE DEF m
    <3>5. S(m) = S(j) \cup {P[m]}
      <4>1. ASSUME NEW x \in S(m) PROVE x \in S(j) \cup {P[m]}
        BY <3>3, Zenon
      <4>2. ASSUME NEW x \in S(j) \cup {P[m]} PROVE x \in S(m)
        BY <3>3, Zenon
      <4> QED BY <4>1, <4>2, Zenon
    <3> HIDE DEF S
    <3>6. IsFiniteSet(S(m)) /\ Cardinality(S(m)) = j + 1
      <4> DEFINE A == S(j)
                 x == P[m]
      <4>1. IsFiniteSet(A) /\ Cardinality(A) = j /\ x \notin A /\ S(m) = A \cup {x}
        BY <3>2, <3>4, <3>5, Zenon
      <4> HIDE DEF A, x
      <4>2. IsFiniteSet(A \cup {x}) /\ Cardinality(A \cup {x}) = Cardinality(A) + 1
        BY <4>1, FS_AddElement
      <4> QED BY <4>1, <4>2, Zenon
    <3> QED BY <3>6 DEF m
  <2> QED BY <2>1, <2>2, Zenon
<1> HIDE DEF T
<1>4. Nat \subseteq T
  BY <1>2, <1>3, SetInduction
<1>5. i \in Nat /\ i <= i
  OBVIOUS
<1>6. Cardinality(S(i)) = i
  BY <1>4, <1>5, Zenon DEF T
<1> QED BY <1>6

LEMMA NumberFact ==
  ASSUME FromFile, NEW P, Layout(P)
  PROVE  /\ Number(-1) = -1 /\ Number(0) = 0
         /\ \A i \in 1 .. Count : Number(rom_get_phandle(P[i])) = i
<1>1. Number(-1) = -1 /\ Number(0) = 0
  BY DEF Number
<1>2. ASSUME NEW i \in 1 .. Count PROVE Number(rom_get_phandle(P[i])) = i
  <2> DEFINE p == P[i]
             ph == rom_get_phandle(p)
             S == {o \in Nodes : o <= p}
  <2>1. p \in Nat
    BY HandedFact, Zenon
  <2>2. ph - PHANDLE_MUNGE = p /\ ~(ph <= 0)
    <3> HIDE DEF p
    <3> QED BY <2>1 DEF rom_get_phandle, PHANDLE_MUNGE
  <2> HIDE DEF ph
  <2>3. Number(ph) = Cardinality(S)
    BY <2>2, Zenon DEF Number
  <2>4. Nodes = {P[k] : k \in 1 .. Count}
    BY NodesFact, Zenon
  <2>5. Count \in Nat
    BY TreeFact, Zenon
  <2>6. ASSUME NEW k \in 1 .. Count PROVE P[k] <= p <=> k <= i
    <3>1. k \in 1 .. Count + 1 /\ i \in 1 .. Count + 1
      BY <2>5
    <3>2. (k < i => P[k] < P[i]) /\ (i < k => P[i] < P[k]) /\ P[k] \in Nat /\ P[i] \in Nat
      BY <3>1, PlaceFact, Zenon
    <3>3. k < i \/ k = i \/ i < k
      OBVIOUS
    <3> QED BY <3>2, <3>3
  <2>7. \A k \in 1 .. Count : k <= i <=> k \in 1 .. i
    OBVIOUS
  <2>8. \A k \in 1 .. i : k \in 1 .. Count
    BY <2>5
  <2> HIDE DEF p
  <2>9. S = {P[k] : k \in 1 .. i}
    <3>1. ASSUME NEW x \in S PROVE x \in {P[k] : k \in 1 .. i}
      <4>1. x \in Nodes /\ x <= p
        OBVIOUS
      <4>2. PICK k \in 1 .. Count : x = P[k]
        BY <2>4, <4>1, Zenon
      <4> QED BY <2>6, <2>7, <4>1, <4>2, Zenon
    <3>2. ASSUME NEW x \in {P[k] : k \in 1 .. i} PROVE x \in S
      <4>1. PICK k \in 1 .. i : x = P[k]
        OBVIOUS
      <4> QED BY <2>4, <2>6, <2>7, <2>8, <4>1, Zenon
    <3> QED BY <3>1, <3>2, Zenon
  <2>10. Cardinality(S) = i
    BY <2>9, PlacesCounted, Zenon
  <2> QED BY <2>3, <2>10, Zenon DEF ph, p
<1> QED BY <1>1, <1>2

-----------------------------------------------------------------------------
(* What the packages promise, of the same tree.                            *)
LEMMA SameMin ==
  \A S : Packages!Min(S) = Min(S)
BY Zenon DEF Packages!Min, Min

LEMMA SameFold ==
  \A names : Packages!PathLength(names) = Strlen(names)
BY Zenon DEF Packages!PathLength, Packages!FoldLeft, Packages!MapThenFoldSet, Packages!Max,
  Strlen, Bytes, FoldLeft, MapThenFoldSet, Max

LEMMA PackagesFact ==
  ASSUME FromFile
  PROVE  /\ Packages!Packages = 1 .. Count
         /\ \A p, n \in 1 .. Count : Packages!IsParent(p, n) <=> n \in Kids(p)
         /\ \A p \in 1 .. Count : Packages!Children(p) = Kids(p)
<1>1. Packages!Packages = 1 .. Count
  BY TreeFact, Zenon DEF Packages!Packages
<1>2. \A p, n \in 1 .. Count : Packages!IsParent(p, n) <=> n \in Kids(p)
  BY Zenon DEF Packages!IsParent, Kids, Depth
<1>3. \A p \in 1 .. Count : Packages!Children(p) = Kids(p)
  <2>1. ASSUME NEW p \in 1 .. Count, NEW n \in Kids(p) PROVE n \in Packages!Children(p)
    <3>1. n \in 1 .. Count
      BY Zenon DEF Kids
    <3> QED BY <1>1, <1>2, <3>1, Zenon DEF Packages!Children
  <2>2. ASSUME NEW p \in 1 .. Count, NEW n \in Packages!Children(p) PROVE n \in Kids(p)
    BY <1>1, <1>2, Zenon DEF Packages!Children
  <2> QED BY <2>1, <2>2
<1> QED BY <1>1, <1>2, <1>3

LEMMA ChildAnswer ==
  ASSUME FromFile, NEW P, Layout(P), NEW i \in 1 .. Count
  PROVE  Number(OrZero(fdt_subnode(P[i]))) = Packages!ChildOf(i)
<1> DEFINE K == Kids(i)
<1>1. Packages!ChildOf(i) = IF K = {} THEN 0 ELSE Min(K)
  BY PackagesFact, SameMin, Zenon DEF Packages!ChildOf, Packages!FirstOf, Packages!None
<1>2. fdt_subnode(P[i]) = IF K = {} THEN NOTFOUND ELSE P[Min(K)]
  BY SubnodeFact, Zenon
<1>3. K # {} => Min(K) \in 1 .. Count
  <2>1. K \subseteq 1 .. Count /\ 1 .. Count \subseteq Nat
    BY DEF Kids
  <2>2. K \subseteq Nat
    BY <2>1, Zenon
  <2> HIDE DEF K
  <2> QED BY <2>1, <2>2, MinFact, Zenon
<1> HIDE DEF K
<1>4. NOTFOUND < 0
  BY DEF NOTFOUND
<1>5. CASE K = {}
  BY <1>1, <1>2, <1>4, <1>5, NumberFact, Zenon DEF OrZero
<1>6. CASE K # {}
  <2>1. ~(P[Min(K)] < 0) /\ Number(rom_get_phandle(P[Min(K)])) = Min(K)
    BY <1>3, <1>6, HandedFact, NumberFact, Zenon
  <2> QED BY <1>1, <1>2, <1>6, <2>1, Zenon DEF OrZero
<1> QED BY <1>5, <1>6

LEMMA PeerAnswer ==
  ASSUME FromFile, NEW P, Layout(P), NEW i \in 1 .. Count
  PROVE  Number(OrZero(fdt_sibling(P[i]))) = Packages!PeerOf(i)
<1> DEFINE K == Sibs(i)
           S == {m \in Packages!Packages : m > i /\ \E p \in Packages!Packages : {m, i} \subseteq Packages!Children(p)}
<1>0. S = K
  <2>1. \A m, p \in 1 .. Count : {m, i} \subseteq Packages!Children(p) <=> i \in Kids(p) /\ m \in Kids(p)
    BY PackagesFact, Zenon
  <2>2. S = {m \in 1 .. Count : m > i /\ \E p \in 1 .. Count : {m, i} \subseteq Packages!Children(p)}
    BY PackagesFact, Zenon
  <2>3. S = {m \in 1 .. Count : m > i /\ \E p \in 1 .. Count : i \in Kids(p) /\ m \in Kids(p)}
    <3> DEFINE R == {m \in 1 .. Count : m > i /\ \E p \in 1 .. Count : i \in Kids(p) /\ m \in Kids(p)}
    <3>1. ASSUME NEW x \in S PROVE x \in R
      BY <2>1, <2>2, <3>1, Zenon
    <3>2. ASSUME NEW x \in R PROVE x \in S
      BY <2>1, <2>2, <3>2, ZenonT(90)
    <3> HIDE DEF R, S
    <3>3. R = S
      BY <3>1, <3>2, Zenon
    <3> QED BY <3>3 DEF R
  <2> QED BY <2>3, SibsFact, Zenon
<1>1. Packages!PeerOf(i) = IF K = {} THEN 0 ELSE Min(K)
  BY <1>0, SameMin, Zenon DEF Packages!PeerOf, Packages!FirstOf, Packages!None
<1>2. fdt_sibling(P[i]) = IF K = {} THEN NOTFOUND ELSE P[Min(K)]
  BY SiblingFact, Zenon
<1>3. K # {} => Min(K) \in 1 .. Count
  <2>1. K \subseteq 1 .. Count /\ 1 .. Count \subseteq Nat
    BY DEF Sibs
  <2>2. K \subseteq Nat
    BY <2>1, Zenon
  <2> HIDE DEF K
  <2> QED BY <2>1, <2>2, MinFact, Zenon
<1> HIDE DEF K
<1>4. NOTFOUND < 0
  BY DEF NOTFOUND
<1>5. CASE K = {}
  BY <1>1, <1>2, <1>4, <1>5, NumberFact, Zenon DEF OrZero
<1>6. CASE K # {}
  <2>1. ~(P[Min(K)] < 0) /\ Number(rom_get_phandle(P[Min(K)])) = Min(K)
    BY <1>3, <1>6, HandedFact, NumberFact, Zenon
  <2> QED BY <1>1, <1>2, <1>6, <2>1, Zenon DEF OrZero
<1> QED BY <1>5, <1>6

LEMMA ParentAnswer ==
  ASSUME FromFile, NEW i \in 1 .. Count
  PROVE  Packages!ParentOf(i) = IF i = 1 THEN 0 ELSE Parent(i)
<1> DEFINE S == {p \in Packages!Packages : Packages!IsParent(p, i)}
<1>1. S = {p \in 1 .. Count : i \in Kids(p)}
  BY PackagesFact, Zenon
<1>2. Packages!ParentOf(i) = IF S = {} THEN 0 ELSE Min(S)
  BY SameMin, Zenon DEF Packages!ParentOf, Packages!FirstOf, Packages!None
<1>3. CASE i = 1
  <2>1. S = {}
    BY <1>1, <1>3, ParentFact, Zenon
  <2> QED BY <1>2, <1>3, <2>1, Zenon
<1>4. CASE i # 1
  <2>1. Parent(i) \in 1 .. Count /\ \A p \in 1 .. Count : i \in Kids(p) <=> p = Parent(i)
    BY <1>4, ParentFact, Zenon
  <2>2. S = {Parent(i)}
    BY <1>1, <2>1, Zenon
  <2> DEFINE q == Parent(i)
  <2> HIDE DEF S, q
  <2>3. S \subseteq Int /\ q \in S /\ \A k \in S : q <= k
    BY <2>1, <2>2 DEF q
  <2>4. Min(S) = q
    BY <2>3, MinIs, Zenon
  <2> QED BY <1>2, <1>4, <2>3, <2>4, Zenon DEF q
<1> QED BY <1>3, <1>4

LEMMA InstanceAnswer ==
  ASSUME FromFile, NEW ih
  PROVE  Packages!Instance(ih) = IF Instances(ih) = {} THEN -1 ELSE Min(Instances(ih))
<1>1. {n \in Packages!Packages : tree.ihandle[n] = ih} = Instances(ih)
  BY PackagesFact, Zenon DEF Instances
<1> QED BY <1>1, SameMin, Zenon DEF Packages!Instance, Packages!FirstOf, Packages!Unknown

LEMMA PathAnswer ==
  ASSUME FromFile, NEW P, Layout(P), NEW i \in 1 .. Count
  PROVE  fdt_get_path(P[i], XferSize) = Packages!Path(i)
<1>1. Packages!PathOf(i) = PathTo(i)
  <2>1. ASSUME NEW d \in 1 .. Depth(i)
        PROVE  (CHOOSE m \in Packages!Ancestry(i) : tree.depth[m] = d) = Above(i, d)
    <3>1. Packages!Ancestry(i) = Line(i)
      BY PackagesFact, Zenon DEF Packages!Ancestry, Line, Depth
    <3> QED BY <3>1, Zenon DEF Above, Depth
  <2> DEFINE A(d) == CHOOSE m \in Packages!Ancestry(i) : tree.depth[m] = d
  <2>2. Packages!PathOf(i) = [d \in 1 .. Depth(i) |-> tree.name[A(d)]]
    BY Zenon DEF Packages!PathOf, Depth
  <2>3. \A d \in 1 .. Depth(i) : A(d) = Above(i, d)
    BY <2>1, Zenon
  <2> HIDE DEF A
  <2> QED BY <2>2, <2>3 DEF PathTo
<1>2. Packages!PathLength(PathTo(i)) = Strlen(PathTo(i))
  BY SameFold, Zenon
<1>3. i # -1
  OBVIOUS
<1>4. XferSize \in Nat
  BY BuffersAssumption, Zenon
<1>5. fdt_get_path(P[i], XferSize) =
        IF Strlen(PathTo(i)) < XferSize THEN [found |-> TRUE, names |-> PathTo(i)] ELSE NoPath
  BY <1>4, GetPathFact, Zenon
<1>6. NoPath = Packages!NoPath
  BY Zenon DEF NoPath, Packages!NoPath
<1> QED BY <1>1, <1>2, <1>3, <1>5, <1>6, Zenon DEF Packages!Path, Packages!Unknown

-----------------------------------------------------------------------------
(* While the block stays, so does what a loop sees and what a path leads to.*)
(* A loop over fdt_next_node, of what it gives for each state of the loop. *)
Loop(next, o, depth) ==
  LET from[s \in [offset : Int, depth : Int]] ==
        IF s.offset < 0 \/ s.depth < 0 THEN <<s>> ELSE <<s>> \o from[next[s]]
  IN  from[[offset |-> o, depth |-> depth]]

Nexts == [s \in [offset : Int, depth : Int] |-> fdt_next_node(s.offset, s.depth)]

LEMMA WalkLoop == \A o, depth : Walk(o, depth) = Loop(Nexts, o, depth)
<1> DEFINE D == [offset : Int, depth : Int]
           A(g) == [s \in D |-> IF s.offset < 0 \/ s.depth < 0 THEN <<s>> ELSE <<s>> \o g[fdt_next_node(s.offset, s.depth)]]
           B(g) == [s \in D |-> IF s.offset < 0 \/ s.depth < 0 THEN <<s>> ELSE <<s>> \o g[Nexts[s]]]
           f == CHOOSE g : g = A(g)
           h == CHOOSE g : g = B(g)
<1>1. \A s \in D : Nexts[s] = fdt_next_node(s.offset, s.depth)
  BY DEF Nexts
<1>2. \A g : A(g) = B(g)
  BY <1>1, Zenon
<1>3. \A o, depth : Walk(o, depth) = f[[offset |-> o, depth |-> depth]]
  BY Zenon DEF Walk
<1>4. \A o, depth : Loop(Nexts, o, depth) = h[[offset |-> o, depth |-> depth]]
  BY Zenon DEF Loop
<1> HIDE DEF A, B
<1>5. f = h
  BY <1>2
<1> QED BY <1>3, <1>4, <1>5, Zenon

(* What a step of the loop depends on.                                     *)
Start(o) == IF o >= 0 THEN _fdt_check_node_offset(o) ELSE 0

Stop(n) == Min({i \in n .. Len(fdt) - 1 : Tag(i) \in {"BEGIN_NODE", "END"}})

Closed(m, n) == {i \in m .. n : Tag(i) = "END_NODE"}

Ahead(start, depth, stop, closed, tag) ==
  LET left(i) == depth - Cardinality(closed \cap (start .. i))
  IN  IF start < 0 THEN [offset |-> start, depth |-> depth]
      ELSE IF left(stop) < 0 THEN [offset |-> 1 + Min({i \in closed : left(i) < 0}), depth |-> -1]
      ELSE IF tag = "END" THEN [offset |-> NOTFOUND, depth |-> left(stop)]
      ELSE [offset |-> stop, depth |-> left(stop) + 1]

LEMMA NextAhead ==
  \A o, depth : fdt_next_node(o, depth) =
    Ahead(Start(o), depth, Stop(Start(o)), Closed(Start(o), Stop(Start(o))), Tag(Stop(Start(o))))
BY Zenon DEF fdt_next_node, Ahead, Start, Stop, Closed

LEMMA WalkStays ==
  ASSUME UNCHANGED fdt
  PROVE  \A o, depth : Walk(o, depth)' = Walk(o, depth)
<1>1. fdt' = fdt
  OBVIOUS
<1>2. \A o, depth : fdt_next_node(o, depth)' = fdt_next_node(o, depth)
  <2>1. \A i : Tag(i)' = Tag(i)
    BY <1>1, Zenon DEF Tag, At
  <2>2. \A o : Start(o)' = Start(o)
    BY <2>1, Zenon DEF Start, _fdt_check_node_offset, IsNode
  <2>3. \A n : Stop(n)' = Stop(n)
    BY <1>1, <2>1, Zenon DEF Stop
  <2>4. \A m, n : Closed(m, n)' = Closed(m, n)
    BY <1>1, <2>1, Zenon DEF Closed
  <2>5. (\A o, depth : fdt_next_node(o, depth) =
          Ahead(Start(o), depth, Stop(Start(o)), Closed(Start(o), Stop(Start(o))), Tag(Stop(Start(o)))))'
    BY NextAhead, PTL
  <2> QED BY <2>1, <2>2, <2>3, <2>4, <2>5, NextAhead, Zenon
<1>4. Nexts' = Nexts
  BY <1>2 DEF Nexts
<1>3. (\A o, depth : Walk(o, depth) = Loop(Nexts, o, depth))'
  BY WalkLoop, PTL
<1> QED BY <1>4, <1>3, WalkLoop, Zenon

LEMMA ScanStays ==
  ASSUME UNCHANGED fdt
  PROVE  \A at, name : Hop(at, name)' = Hop(at, name)
<1>1. fdt' = fdt
  OBVIOUS
<1>2. \A o, depth : Walk(o, depth)' = Walk(o, depth)
  BY <1>1, WalkStays, Zenon
<1>3. \A o, name : _fdt_nodename_eq(o, name)' <=> _fdt_nodename_eq(o, name)
  BY <1>1, Zenon DEF _fdt_nodename_eq, At
<1> QED BY <1>2, <1>3, ZenonT(90) DEF Hop, fdt_subnode_offset, Scan

LEMMA DescendBy ==
  \A o, comps : Descend(o, comps) = (CHOOSE f : IsDescent(f, o, comps))[DOMAIN comps]
BY Zenon DEF Descend, FoldLeft, MapThenFoldSet, IsDescent, Hop

LEMMA DescendStays ==
  ASSUME UNCHANGED fdt
  PROVE  \A o, comps : Descend(o, comps)' = Descend(o, comps)
<1>1. \A at, name : Hop(at, name)' = Hop(at, name)
  BY ScanStays, Zenon
<1>2. \A f, o, comps : IsDescent(f, o, comps)' <=> IsDescent(f, o, comps)
  BY <1>1, Zenon DEF IsDescent
<1>3. (\A o, comps : Descend(o, comps) = (CHOOSE f : IsDescent(f, o, comps))[DOMAIN comps])'
  BY DescendBy, PTL
<1> QED BY <1>2, <1>3, DescendBy

LEMMA AboveStays ==
  ASSUME UNCHANGED fdt
  PROVE  \A o : /\ fdt_node_depth(o)' = fdt_node_depth(o)
               /\ fdt_parent_offset(o)' = fdt_parent_offset(o)
               /\ \A d : fdt_supernode_atdepth_offset(o, d)' = fdt_supernode_atdepth_offset(o, d)
<1>1. \A o, depth : Walk(o, depth)' = Walk(o, depth)
  BY WalkStays, Zenon
<1>2. \A o : UpTo(o)' = UpTo(o)
  BY <1>1, Zenon DEF UpTo
<1>3. \A o : fdt_node_depth(o)' = fdt_node_depth(o)
  <2> DEFINE deep(seen) == IF seen = {} THEN BADOFFSET ELSE (CHOOSE s \in seen : TRUE).depth
  <2>1. \A o : Seen(UpTo(o), o)' = Seen(UpTo(o), o)
    BY <1>2, Zenon DEF Seen
  <2>2. \A o : fdt_node_depth(o) = deep(Seen(UpTo(o), o)) /\ fdt_node_depth(o)' = deep(Seen(UpTo(o), o)')
    BY Zenon DEF fdt_node_depth
  <2> HIDE DEF deep
  <2> QED BY <2>1, <2>2, Zenon
<1>4. \A o, d : fdt_supernode_atdepth_offset(o, d)' = fdt_supernode_atdepth_offset(o, d)
  BY <1>2, Zenon DEF fdt_supernode_atdepth_offset
<1> QED BY <1>3, <1>4, Zenon DEF fdt_parent_offset

(* A path leads to a node, unless an earlier sibling answers to it.        *)
Back(o, names) == fdt_path_offset([alias |-> "", comps |-> names]) = o \/ Shadowed(o)

(* What a path leads to depends on the block alone.                        *)
LEMMA BackStays ==
  ASSUME UNCHANGED fdt, NEW o, NEW names
  PROVE  Back(o, names)' <=> Back(o, names)
<1>1. fdt' = fdt
  OBVIOUS
<1>2. \A a, b : Descend(a, b)' = Descend(a, b)
  BY <1>1, DescendStays, Zenon
<1>3. \A a : fdt_get_alias(a)' = fdt_get_alias(a)
  BY <1>1, <1>2, ZenonT(90) DEF fdt_get_alias, AliasesNode, HasProp, IsNode, Tag, At, PropertyAt, fdt_getprop, _fdt_string_eq
<1>4. \A p : fdt_path_offset(p)' = fdt_path_offset(p)
  BY <1>2, <1>3, Zenon DEF fdt_path_offset
<1>5. \A p : fdt_parent_offset(p)' = fdt_parent_offset(p)
  BY <1>1, AboveStays, Zenon
<1>6. \A p : fdt_node_depth(p)' = fdt_node_depth(p)
  BY <1>1, AboveStays, Zenon
<1>7. \A p, d : fdt_supernode_atdepth_offset(p, d)' = fdt_supernode_atdepth_offset(p, d)
  BY <1>1, AboveStays, Zenon
<1>8. Nodes' = Nodes /\ \A p : At(p)' = At(p)
  BY <1>1, Zenon DEF Nodes, IsNode, Tag, At
<1>9. \A p, name : _fdt_nodename_eq(p, name)' <=> _fdt_nodename_eq(p, name)
  BY <1>8, Zenon DEF _fdt_nodename_eq
<1>10. \A p : Shadowed(p)' <=> Shadowed(p)
  BY <1>5, <1>6, <1>7, <1>8, <1>9, Zenon DEF Shadowed
<1> QED BY <1>4, <1>10, Zenon DEF Back

-----------------------------------------------------------------------------
(* The path of the last call, in the part of the invariant that is about it: *)
(* a client that asked for one asked of a node it was given, or of 0.      *)
IsPtopath(service) == service = "package-to-path"

Leadback ==
  (IsPtopath(call.service) /\ call.path.found)
  => Back(rom_node_offset_by_phandle(call.argument), call.path.names)

LEMMA LeadbackFact == PathLeadsBack <=> Leadback
BY Zenon DEF PathLeadsBack, Leadback, Back, IsPtopath

LEMMA NoPathFact == NoPath.found = FALSE /\ ~IsPtopath(NoCall.service)
<1>1. NoPath.found = FALSE
  BY DEF NoPath
<1>2. NoCall.service = "none"
  BY DEF NoCall
<1>3. "none" # "package-to-path"
  OBVIOUS
<1> QED BY <1>1, <1>2, <1>3, Zenon DEF IsPtopath

(* No service but rom_ptopath and rom_itopath gives a path.                *)
LEMMA StepsOfPaths ==
  ASSUME TreeInv, Wild = {}, Next
  PROVE  \/ rom_init \/ Resume \/ rom_claim_ex \/ Stops(0)
         \/ \E service, argument, result, wrote, room : Returns(service, argument, result, wrote, room, NoPath)
         \/ \E ih, n : rom_itopath(ih, n)
         \/ \E ph \in Asked : \E n \in Lengths : rom_ptopath(ph, n)
<1> DEFINE R == \E service, argument, result, wrote, room : Returns(service, argument, result, wrote, room, NoPath)
<1>0. have \cup {0} \cup Wild \subseteq Asked
  BY AskedFact, Zenon
<1>1. GivesNode => R
  BY Zenon DEF GivesNode, Gives
<1>2. ASSUME NEW ph \in Asked, rom_peer(ph) PROVE R
  BY <1>1, <1>2, PeerServes, Zenon
<1>3. ASSUME NEW ph \in Asked, rom_child(ph) PROVE R
  BY <1>1, <1>3, ChildServes, Zenon
<1>4. ASSUME NEW ph \in Asked, rom_parent(ph) PROVE R \/ Stops(0)
  BY <1>1, <1>4, ParentServes, Zenon
<1>5. ASSUME NEW path \in Lookups, rom_finddevice(path) PROVE R
  BY <1>1, <1>5, FinddeviceServes, Zenon
<1>6. ASSUME NEW ih \in Ihandles, rom_itopackage(ih) PROVE R
  BY <1>1, <1>6, InstanceServes, Zenon
<1>7. ASSUME NEW ph, NEW name, NEW n, rom_getprop(ph, name, n) PROVE R
  BY <1>7, Zenon DEF rom_getprop
<1>8. ASSUME NEW ph, NEW name, rom_getproplen(ph, name) PROVE R
  BY <1>8, Zenon DEF rom_getproplen
<1> HIDE DEF R
<1>9. R => \E service, argument, result, wrote, room : Returns(service, argument, result, wrote, room, NoPath)
  BY DEF R
<1> QED BY <1>0, <1>2, <1>3, <1>4, <1>5, <1>6, <1>7, <1>8, <1>9, Zenon DEF Next

(* rom_ptopath gives the path of the node asked of.                        *)
LEMMA PtopathFact ==
  ASSUME TreeInv, NEW ph \in Asked, NEW n, rom_ptopath(ph, n)
  PROVE  /\ UNCHANGED fdt
         /\ call'.path.found => Back(rom_node_offset_by_phandle(call'.argument), call'.path.names)
<1>0. FromFile
  BY Zenon DEF TreeInv
<1>1. PICK P : Layout(P)
  BY <1>0, LayoutExists, Zenon
<1> DEFINE o == rom_node_offset_by_phandle(ph)
           path == IF o < 0 THEN NoPath ELSE fdt_get_path(o, XferSize)
           k == IF path.found THEN Strlen(path.names) ELSE -1
<1>2. Returns("package-to-path", ph, k, Least(n, k + 1), n, path)
  BY Zenon DEF rom_ptopath, PathOut
<1> HIDE DEF path, k
<1>3. UNCHANGED <<tree, fdt>> /\ call'.argument = ph /\ call'.path = path
  BY <1>2, ReturnsFact, Zenon
<1>4. CASE o < 0
  <2>1. path = NoPath
    BY <1>4, Zenon DEF path
  <2> QED BY <1>3, <2>1, NoPathFact, Zenon
<1>5. CASE ~(o < 0)
  <2>1. PICK i \in 1 .. Count : o = P[i]
    BY <1>0, <1>1, <1>5, AskedNode, Zenon
  <2>3. XferSize \in Nat
    BY BuffersAssumption, Zenon
  <2>4. path = IF Strlen(PathTo(i)) < XferSize THEN [found |-> TRUE, names |-> PathTo(i)] ELSE NoPath
    BY <1>0, <1>1, <1>5, <2>1, <2>3, GetPathFact, Zenon DEF path
  <2>5. path.found => path.names = PathTo(i)
    BY <2>4, NoPathFact
  <2>6. Back(P[i], PathTo(i))
    BY <1>0, <1>1, PathBack, Zenon DEF Back
  <2> QED BY <1>3, <2>1, <2>5, <2>6, Zenon
<1> QED BY <1>4, <1>5

LEMMA LeadbackStep ==
  ASSUME ServicesInv, Leadback, Wild = {}, [Next]_vars
  PROVE  Leadback'
<1>0. TreeInv /\ (pc = "boot" => call = NoCall /\ told = -1)
  BY Zenon DEF ServicesInv
<1>1. CASE UNCHANGED vars
  <2>1. fdt' = fdt /\ call' = call
    BY <1>1 DEF vars
  <2>2. \A o, names : Back(o, names)' <=> Back(o, names)
    BY <2>1, BackStays, Zenon
  <2>3. (IsPtopath(call'.service) /\ call'.path.found) => Back(rom_node_offset_by_phandle(call'.argument), call'.path.names)
    BY <2>1, Zenon DEF Leadback
  <2> QED BY <2>2, <2>3, Zenon DEF Leadback, rom_node_offset_by_phandle
<1>2. CASE rom_init
  <2>1. call' = NoCall
    BY <1>0, <1>2, Zenon DEF rom_init
  <2> QED BY <2>1, NoPathFact, Zenon DEF Leadback
<1>3. CASE Resume
  <2>1. call' = NoCall
    BY <1>3, Zenon DEF Resume
  <2> QED BY <2>1, NoPathFact, Zenon DEF Leadback
<1>4. ASSUME NEW service, NEW argument, NEW result, NEW wrote, NEW room,
             Returns(service, argument, result, wrote, room, NoPath)
      PROVE  Leadback'
  <2>1. call'.path = NoPath
    BY <1>4, ReturnsFact, Zenon
  <2> QED BY <2>1, NoPathFact, Zenon DEF Leadback
<1>5. ASSUME NEW ih, NEW n, rom_itopath(ih, n) PROVE Leadback'
  <2>1. call'.service = "instance-to-path"
    BY <1>5, ReturnsFact, Zenon DEF rom_itopath, PathOut
  <2>2. "instance-to-path" # "package-to-path"
    OBVIOUS
  <2> QED BY <2>1, <2>2, Zenon DEF Leadback, IsPtopath
<1>6. ASSUME NEW ph \in Asked, NEW n, rom_ptopath(ph, n) PROVE Leadback'
  <2>1. fdt' = fdt /\ (call'.path.found => Back(rom_node_offset_by_phandle(call'.argument), call'.path.names))
    BY <1>0, <1>6, PtopathFact, Zenon
  <2>2. \A o, names : Back(o, names)' <=> Back(o, names)
    BY <2>1, BackStays, Zenon
  <2> QED BY <2>1, <2>2, Zenon DEF Leadback, rom_node_offset_by_phandle
<1>7. CASE rom_claim_ex
  <2>1. fdt' = fdt /\ call' = call
    BY <1>7, Zenon DEF rom_claim_ex
  <2>2. \A o, names : Back(o, names)' <=> Back(o, names)
    BY <2>1, BackStays, Zenon
  <2>3. (IsPtopath(call'.service) /\ call'.path.found) => Back(rom_node_offset_by_phandle(call'.argument), call'.path.names)
    BY <2>1, Zenon DEF Leadback
  <2> QED BY <2>2, <2>3, Zenon DEF Leadback, rom_node_offset_by_phandle
<1>8. CASE Stops(0)
  <2>1. call'.path = NoPath
    BY <1>8 DEF Stops, NoCall
  <2> QED BY <2>1, NoPathFact, Zenon DEF Leadback
<1> QED BY <1>0, <1>1, <1>2, <1>3, <1>4, <1>5, <1>6, <1>7, <1>8, StepsOfPaths, Zenon

(* The path that package-to-path gives a client, of any tree whatever its  *)
(* names, is one that finddevice follows back to the same node, unless an  *)
(* earlier sibling answers to one of the names on it.                      *)
THEOREM TreePathLeadsBack ==
  ASSUME Wild = {}
  PROVE  Spec => []PathLeadsBack
<1>1. Init => Leadback
  BY NoPathFact, Zenon DEF Init, Leadback
<1>2. ServicesInv /\ Leadback /\ [Next]_vars => Leadback'
  BY LeadbackStep
<1>3. Leadback <=> PathLeadsBack
  BY LeadbackFact
<1> QED BY <1>1, <1>2, <1>3, ServicesAlways, PTL DEF Spec

-----------------------------------------------------------------------------
(* The way down a path among the packages.                                 *)
Steps(n, name) == IF n = -1 THEN -1 ELSE IF Named(n, name) = {} THEN -1 ELSE Min(Named(n, name))

Reached == 1 .. Count \cup {-1}

IsFind(f, path) ==
  f = [s \in SUBSET DOMAIN path |->
         IF s = {} THEN 1
         ELSE IF f[s \ {Max(s)}] = -1 THEN -1
         ELSE Packages!FirstOf({m \in Packages!Children(f[s \ {Max(s)}]) : Packages!Answers(m, path[Max(s)])}, -1)]

FindChain(v, path) ==
  v[0] = 1 /\ \A k \in 1 .. Len(path) : v[k] = Steps(v[k - 1], path[k])

LEMMA StepsFact ==
  ASSUME FromFile, NEW name
  PROVE  /\ \A n \in Reached : Steps(n, name) \in Reached
         /\ \A n \in 1 .. Count :
              Packages!FirstOf({m \in Packages!Children(n) : Packages!Answers(m, name)}, -1) = Steps(n, name)
<1>1. ASSUME NEW n \in 1 .. Count
      PROVE  /\ Steps(n, name) = IF Named(n, name) = {} THEN -1 ELSE Min(Named(n, name))
             /\ Named(n, name) # {} => Min(Named(n, name)) \in 1 .. Count
  <2>1. n # -1
    OBVIOUS
  <2>2. Named(n, name) \subseteq 1 .. Count
    BY Zenon DEF Named, Kids
  <2>3. 1 .. Count \subseteq Nat
    OBVIOUS
  <2>4. Named(n, name) \subseteq Nat
    BY <2>2, <2>3, Zenon
  <2> QED BY <2>1, <2>2, <2>4, MinFact, Zenon DEF Steps
<1>2. ASSUME NEW n \in Reached PROVE Steps(n, name) \in Reached
  <2>1. CASE n = -1
    BY <2>1, Zenon DEF Steps, Reached
  <2>2. CASE n \in 1 .. Count
    BY <1>1, <2>2, Zenon DEF Reached
  <2> QED BY <2>1, <2>2, Zenon DEF Reached
<1>3. ASSUME NEW n \in 1 .. Count
      PROVE  Packages!FirstOf({m \in Packages!Children(n) : Packages!Answers(m, name)}, -1) = Steps(n, name)
  <2> DEFINE S == {m \in Packages!Children(n) : Packages!Answers(m, name)}
  <2>1. Packages!Children(n) = Kids(n)
    BY PackagesFact, Zenon
  <2>2. S = Named(n, name)
    BY <2>1, Zenon DEF Named, Packages!Answers
  <2>3. Packages!FirstOf(Named(n, name), -1) = Steps(n, name)
    BY <1>1, SameMin, Zenon DEF Packages!FirstOf
  <2> QED BY <2>2, <2>3, Zenon
<1> QED BY <1>2, <1>3

LEMMA FindBy ==
  \A path : Packages!Find(path) = (CHOOSE f : IsFind(f, path))[DOMAIN path]
<1>1. \A S : Packages!Max(S) = Max(S)
  BY Zenon DEF Packages!Max, Max
<1> QED BY <1>1, ZenonT(90) DEF Packages!Find, Packages!FoldLeft, Packages!MapThenFoldSet, IsFind, Packages!Unknown

LEMMA FindExists ==
  ASSUME FromFile, NEW S, NEW path \in Seq(S)
  PROVE  \E f : IsFind(f, path)
<1> DEFINE n == Len(path)
           A == Reached
           F == [z \in A \X (1 .. n) |-> Steps(z[1], path[z[2]])]
<1>1. n \in Nat /\ DOMAIN path = 1 .. n
  BY SeqDomain, Zenon
<1>2. \A y \in A : \A k \in 1 .. n : F[<<y, k>>] = Steps(y, path[k])
  OBVIOUS
<1>3. F \in [A \X (1 .. n) -> A]
  <2>1. ASSUME NEW z \in A \X (1 .. n) PROVE Steps(z[1], path[z[2]]) \in A
    <3>1. z[1] \in A
      OBVIOUS
    <3> QED BY <3>1, StepsFact, Zenon
  <2> QED BY <2>1, Zenon
<1>4. 1 \in A
  <2>1. Count \in Nat /\ Count > 0
    BY TreeFact
  <2>2. 1 \in 1 .. Count
    BY <2>1
  <2> QED BY <2>2, Zenon DEF Reached
<1> HIDE DEF F, n, A
<1>5. PICK f \in [SUBSET (1 .. n) -> A] : IsIter(f, 1, F, n)
  BY <1>1, <1>3, <1>4, IterExists, Zenon
<1> DEFINE next(s) == IF f[s \ {Max(s)}] = -1 THEN -1
                      ELSE Packages!FirstOf({m \in Packages!Children(f[s \ {Max(s)}]) :
                                               Packages!Answers(m, path[Max(s)])}, -1)
<1>6. ASSUME NEW s \in SUBSET (1 .. n), s # {}
      PROVE  f[s] = next(s)
  <2> DEFINE m == Max(s)
             r == s \ {m}
  <2>1. m \in 1 .. n /\ r \in SUBSET (1 .. n)
    BY <1>1, <1>6, SubsetMax, Zenon
  <2>2. f[s] = F[<<f[r], m>>]
    BY <1>5, <1>6, Zenon DEF IsIter
  <2>3. f[r] \in A
    BY <2>1, Zenon
  <2>4. next(s) = IF f[r] = -1 THEN -1
                  ELSE Packages!FirstOf({k \in Packages!Children(f[r]) : Packages!Answers(k, path[m])}, -1)
    BY Zenon
  <2> HIDE DEF m, r, next
  <2>5. F[<<f[r], m>>] = Steps(f[r], path[m])
    BY <1>2, <2>1, <2>3, Zenon
  <2>6. CASE f[r] = -1
    BY <2>2, <2>4, <2>5, <2>6, Zenon DEF Steps
  <2>7. CASE f[r] # -1
    <3>1. f[r] \in 1 .. Count
      BY <2>3, <2>7, Zenon DEF A, Reached
    <3> QED BY <2>2, <2>4, <2>5, <2>7, <3>1, StepsFact, Zenon
  <2> QED BY <2>6, <2>7
<1>7. f[{}] = 1
  BY <1>5, Zenon DEF IsIter
<1>8. \A s \in SUBSET (1 .. n) : f[s] = IF s = {} THEN 1 ELSE next(s)
  BY <1>6, <1>7, Zenon
<1>9. f = [s \in SUBSET (1 .. n) |-> f[s]]
  BY <1>5, Zenon
<1>10. f = [s \in SUBSET (1 .. n) |-> IF s = {} THEN 1 ELSE next(s)]
  BY <1>8, <1>9, Zenon
<1> QED BY <1>1, <1>10, Zenon DEF IsFind

LEMMA FindIsChain ==
  ASSUME FromFile, NEW S, NEW path \in Seq(S)
  PROVE  \E v : FindChain(v, path) /\ Packages!Find(path) = v[Len(path)]
<1> DEFINE n == Len(path)
           f == CHOOSE f : IsFind(f, path)
           v == [k \in 0 .. n |-> f[1 .. k]]
<1>1. n \in Nat /\ DOMAIN path = 1 .. n
  BY SeqDomain, Zenon
<1>2. IsFind(f, path)
  BY FindExists, Zenon
<1>3. Packages!Find(path) = f[DOMAIN path]
  BY FindBy, Zenon
<1>4. /\ \A s \in SUBSET (1 .. n) : s = {} => f[s] = 1
      /\ \A s \in SUBSET (1 .. n) : s # {} =>
           f[s] = IF f[s \ {Max(s)}] = -1 THEN -1
                  ELSE Packages!FirstOf({m \in Packages!Children(f[s \ {Max(s)}]) :
                                           Packages!Answers(m, path[Max(s)])}, -1)
  BY <1>1, <1>2, Zenon DEF IsFind
<1> HIDE DEF f
<1>5. \A k \in 0 .. n : v[k] = f[1 .. k]
  BY Zenon
<1> HIDE DEF v
<1>6. 0 \in 0 .. n /\ n \in 0 .. n /\ 1 .. 0 = {} /\ {} \in SUBSET (1 .. n)
  BY <1>1
<1>7. v[0] = 1
  BY <1>4, <1>5, <1>6, Zenon
<1>8. ASSUME NEW k \in 1 .. n, v[k - 1] \in Reached PROVE v[k] = Steps(v[k - 1], path[k])
  <2>1. /\ 1 .. k \in SUBSET (1 .. n) /\ 1 .. k # {}
        /\ Max(1 .. k) = k /\ (1 .. k) \ {k} = 1 .. k - 1
    BY <1>1, Prefix, Zenon
  <2>2. k \in 0 .. n /\ k - 1 \in 0 .. n
    BY <1>1
  <2> DEFINE u == v[k - 1]
  <2>3. f[1 .. k - 1] = u /\ v[k] = f[1 .. k]
    BY <1>5, <2>2, Zenon
  <2>4. f[1 .. k] = IF u = -1 THEN -1
                    ELSE Packages!FirstOf({m \in Packages!Children(u) : Packages!Answers(m, path[k])}, -1)
    BY <1>4, <2>1, <2>3, ZenonT(90)
  <2> HIDE DEF u
  <2>5. CASE u = -1
    BY <2>3, <2>4, <2>5, Zenon DEF Steps, u
  <2>6. CASE u # -1
    <3>1. u \in 1 .. Count
      BY <1>8, <2>6, Zenon DEF Reached, u
    <3>2. Packages!FirstOf({m \in Packages!Children(u) : Packages!Answers(m, path[k])}, -1) = Steps(u, path[k])
      BY <3>1, StepsFact, Zenon
    <3> QED BY <2>3, <2>4, <2>6, <3>2, Zenon DEF u
  <2> QED BY <2>5, <2>6
<1> DEFINE T == {k \in Nat : k <= n => v[k] \in Reached}
<1>9. 0 \in T
  <2>1. Count \in Nat /\ Count > 0
    BY TreeFact
  <2>2. 1 \in 1 .. Count /\ 0 \in Nat
    BY <2>1
  <2> QED BY <1>7, <2>2, Zenon DEF Reached
<1>10. ASSUME NEW k \in Nat, k \in T PROVE k + 1 \in T
  <2> DEFINE m == k + 1
  <2>1. m \in Nat /\ m - 1 = k
    OBVIOUS
  <2>2. ASSUME m <= n PROVE v[m] \in Reached
    <3>1. m \in 1 .. n /\ k <= n
      BY <1>1, <2>2
    <3>2. v[k] \in Reached
      BY <1>10, <3>1, Zenon
    <3> HIDE DEF m
    <3>3. v[m] = Steps(v[k], path[m])
      BY <1>8, <2>1, <3>1, <3>2, Zenon
    <3> QED BY <3>2, <3>3, StepsFact, Zenon
  <2> QED BY <2>1, <2>2, Zenon
<1> HIDE DEF T
<1>11. Nat \subseteq T
  BY <1>9, <1>10, SetInduction
<1>12. \A k \in 1 .. n : k - 1 \in Nat /\ k - 1 <= n
  BY <1>1
<1>13. \A k \in 1 .. n : v[k] = Steps(v[k - 1], path[k])
  BY <1>8, <1>11, <1>12, Zenon DEF T
<1>14. FindChain(v, path)
  BY <1>7, <1>13, Zenon DEF FindChain
<1>15. Packages!Find(path) = v[n]
  BY <1>1, <1>3, <1>5, <1>6, Zenon
<1> QED BY <1>14, <1>15

(* A package, and where the block has it; or neither.                      *)
Same(P, n, at) ==
  \/ n = -1 /\ at \in {NOTFOUND, BADPATH}
  \/ n \in 1 .. Count /\ at = P[n]

LEMMA SameStep ==
  ASSUME FromFile, NEW P, Layout(P), NEW n, NEW at, Same(P, n, at), NEW name
  PROVE  Same(P, Steps(n, name), Hop(at, name))
<1>1. CASE n = -1 /\ at \in {NOTFOUND, BADPATH}
  <2>1. at < 0
    BY <1>1 DEF NOTFOUND, BADPATH
  <2>2. Steps(n, name) = -1 /\ Hop(at, name) = at
    BY <1>1, <2>1, Zenon DEF Steps, Hop
  <2> QED BY <1>1, <2>2, Zenon DEF Same
<1>2. CASE n \in 1 .. Count /\ at = P[n]
  <2>1. n # -1
    BY <1>2
  <2>2. Steps(n, name) = IF Named(n, name) = {} THEN -1 ELSE Min(Named(n, name))
    BY <2>1, Zenon DEF Steps
  <2>3. /\ Hop(at, name) = IF Named(n, name) = {} THEN NOTFOUND ELSE P[Min(Named(n, name))]
        /\ Named(n, name) # {} => Min(Named(n, name)) \in 1 .. Count
    BY <1>2, HopFact, Zenon
  <2> QED BY <2>2, <2>3, Zenon DEF Same
<1> QED BY <1>1, <1>2, Zenon DEF Same

LEMMA ChainsSame ==
  ASSUME FromFile, NEW P, Layout(P), NEW v, NEW w, NEW m \in Nat, NEW comps, NEW len \in Nat,
         \A k \in 1 .. len : v[m + k] = Steps(v[m + (k - 1)], comps[k]),
         \A k \in 1 .. len : w[k] = Hop(w[k - 1], comps[k]),
         Same(P, v[m], w[0])
  PROVE  Same(P, v[m + len], w[len])
<1> DEFINE T == {k \in Nat : k <= len => Same(P, v[m + k], w[k])}
<1>1. 0 \in T
  <2>1. m + 0 = m /\ 0 \in Nat
    OBVIOUS
  <2> QED BY <2>1, Zenon
<1>2. ASSUME NEW j \in Nat, j \in T PROVE j + 1 \in T
  <2> DEFINE k == j + 1
  <2>1. k \in Nat /\ k - 1 = j
    OBVIOUS
  <2>2. ASSUME k <= len PROVE Same(P, v[m + k], w[k])
    <3>1. k \in 1 .. len /\ j <= len
      BY <2>2
    <3>2. Same(P, v[m + j], w[j])
      BY <1>2, <3>1, Zenon
    <3> HIDE DEF k
    <3>3. v[m + k] = Steps(v[m + j], comps[k]) /\ w[k] = Hop(w[j], comps[k])
      BY <2>1, <3>1, Zenon
    <3> QED BY <3>2, <3>3, SameStep, ZenonT(90)
  <2> QED BY <2>1, <2>2, Zenon
<1> HIDE DEF T
<1>3. Nat \subseteq T
  BY <1>1, <1>2, SetInduction
<1>4. len <= len
  OBVIOUS
<1> QED BY <1>3, <1>4, Zenon DEF T

(* Find follows a path as Descend does.                                    *)
LEMMA FindSame ==
  ASSUME FromFile, NEW P, Layout(P), NEW comps \in Seq(Names)
  PROVE  Same(P, Packages!Find(comps), Descend(0, comps))
<1>0. P[1] = 0 /\ 1 \in 1 .. Count /\ 0 \in Offsets(P)
  BY RootOffset, Zenon
<1> DEFINE n == Len(comps)
<1>1. n \in Nat
  BY SeqDomain, Zenon
<1>2. PICK v : FindChain(v, comps) /\ Packages!Find(comps) = v[n]
  BY FindIsChain, Zenon
<1>3. PICK w : DescentChain(w, 0, comps) /\ Descend(0, comps) = w[n]
  BY <1>0, DescendChain, Zenon
<1>4. v[0] = 1 /\ (\A k \in 1 .. n : v[k] = Steps(v[k - 1], comps[k]))
  BY <1>2, Zenon DEF FindChain
<1>5. w[0] = 0 /\ \A k \in 1 .. n : w[k] = Hop(w[k - 1], comps[k])
  BY <1>3, Zenon DEF DescentChain
<1>6. \A k \in 1 .. n : 0 + k = k /\ 0 + (k - 1) = k - 1
  OBVIOUS
<1>7. 0 + n = n /\ 0 + 0 = 0 /\ 0 \in Nat
  BY <1>1
<1> HIDE DEF n
<1>8. \A k \in 1 .. n : v[0 + k] = Steps(v[0 + (k - 1)], comps[k])
  BY <1>4, <1>6, Zenon
<1>9. Same(P, v[0], w[0])
  BY <1>0, <1>4, <1>5, Zenon DEF Same
<1>10. Same(P, v[0 + n], w[n])
  BY <1>1, <1>5, <1>7, <1>8, <1>9, ChainsSame, Zenon
<1> QED BY <1>2, <1>3, <1>7, <1>10, Zenon

LEMMA FindOn ==
  ASSUME FromFile, NEW P, Layout(P), NEW lead \in Seq(Names), NEW comps \in Seq(Names)
  PROVE  Same(P, Packages!Find(lead \o comps), Descend(Descend(0, lead), comps))
<1>0. P[1] = 0 /\ 1 \in 1 .. Count /\ 0 \in Offsets(P)
  BY RootOffset, Zenon
<1> DEFINE n == Len(comps)
           m == Len(lead)
           path == lead \o comps
           o == Descend(0, lead)
<1>1. /\ path \in Seq(Names) /\ Len(path) = m + n /\ m \in Nat /\ n \in Nat
      /\ \A k \in 1 .. m : path[k] = lead[k]
      /\ \A k \in 1 .. n : path[m + k] = comps[k]
  BY Joined
<1>2. o \in Offsets(P)
  BY <1>0, DescendOffset, Zenon
<1> HIDE DEF path, o
<1>3. PICK v : FindChain(v, path) /\ Packages!Find(path) = v[m + n]
  BY <1>1, FindIsChain, Zenon
<1>4. PICK u : DescentChain(u, 0, lead) /\ o = u[m]
  BY <1>0, DescendChain, Zenon DEF o
<1>5. PICK w : DescentChain(w, o, comps) /\ Descend(o, comps) = w[n]
  BY <1>2, DescendChain, Zenon
<1>6. v[0] = 1 /\ \A k \in 1 .. m + n : v[k] = Steps(v[k - 1], path[k])
  BY <1>1, <1>3, Zenon DEF FindChain
<1>7. u[0] = 0 /\ \A k \in 1 .. m : u[k] = Hop(u[k - 1], lead[k])
  BY <1>4, Zenon DEF DescentChain
<1>8. w[0] = o /\ \A k \in 1 .. n : w[k] = Hop(w[k - 1], comps[k])
  BY <1>5, Zenon DEF DescentChain
<1> HIDE DEF m, n
<1>9. \A k \in 1 .. m : 0 + k = k /\ 0 + (k - 1) = k - 1 /\ k \in 1 .. m + n
  BY <1>1
<1>10. 0 + m = m /\ 0 \in Nat
  BY <1>1
<1>11. \A k \in 1 .. m : v[0 + k] = Steps(v[0 + (k - 1)], lead[k])
  BY <1>1, <1>6, <1>9, Zenon
<1>12. Same(P, v[0], u[0])
  BY <1>0, <1>6, <1>7, Zenon DEF Same
<1>13. Same(P, v[0 + m], u[m])
  BY <1>1, <1>7, <1>10, <1>11, <1>12, ChainsSame, ZenonT(90)
<1>14. Same(P, v[m], w[0])
  BY <1>4, <1>8, <1>10, <1>13, Zenon
<1>15. \A k \in 1 .. n : m + k \in 1 .. m + n /\ (m + k) - 1 = m + (k - 1)
  BY <1>1
<1>16. \A k \in 1 .. n : v[m + k] = Steps(v[m + (k - 1)], comps[k])
  BY <1>1, <1>6, <1>15, Zenon
<1>17. Same(P, v[m + n], w[n])
  BY <1>1, <1>8, <1>14, <1>16, ChainsSame, ZenonT(90)
<1> QED BY <1>3, <1>5, <1>17, Zenon DEF path, o

(* From nowhere no name leads anywhere.                                    *)
LEMMA NowhereFact ==
  ASSUME FromFile, NEW P, Layout(P), NEW comps \in Seq(Names)
  PROVE  Same(P, -1, Descend(BADPATH, comps))
<1> DEFINE n == Len(comps)
           v == [k \in Nat |-> -1]
<1>0. BADPATH \in Offsets(P) /\ n \in Nat
  BY SeqDomain, Zenon DEF Offsets
<1>1. PICK w : DescentChain(w, BADPATH, comps) /\ Descend(BADPATH, comps) = w[n]
  BY <1>0, DescendChain, Zenon
<1>2. w[0] = BADPATH /\ \A k \in 1 .. n : w[k] = Hop(w[k - 1], comps[k])
  BY <1>1, Zenon DEF DescentChain
<1> HIDE DEF n
<1>3. \A k \in 1 .. n : 0 + k \in Nat /\ 0 + (k - 1) \in Nat
  BY <1>0
<1>4. 0 + n = n /\ 0 \in Nat
  BY <1>0
<1>5. \A k \in Nat : v[k] = -1
  OBVIOUS
<1> HIDE DEF v
<1>6. \A k \in 1 .. n : v[0 + k] = Steps(v[0 + (k - 1)], comps[k])
  BY <1>3, <1>5, Zenon DEF Steps
<1>7. Same(P, v[0], w[0])
  BY <1>2, <1>4, <1>5, Zenon DEF Same
<1>8. Same(P, v[0 + n], w[n])
  BY <1>0, <1>2, <1>4, <1>6, <1>7, ChainsSame, Zenon
<1> QED BY <1>0, <1>1, <1>4, <1>5, <1>8, Zenon

Blank == [base |-> "", at |-> "", length |-> 0]

(* Every node but the root has a name.                                     *)
LEMMA BlankFact ==
  ASSUME FromFile
  PROVE  Packages!Find(<<Blank>>) = -1
<1> DEFINE path == <<Blank>>
<1>1. path \in Seq({Blank}) /\ Len(path) = 1 /\ path[1] = Blank
  OBVIOUS
<1>2. Named(1, Blank) = {}
  <2>1. ASSUME NEW j \in Named(1, Blank) PROVE FALSE
    <3>1. j \in Kids(1) /\ tree.name[j].base = Blank.base
      BY Zenon DEF Named
    <3>2. j \in 1 .. Count /\ 1 < j
      BY <3>1, Zenon DEF Kids
    <3>3. j \in 2 .. Count
      BY <3>2
    <3>4. tree.name[j].base # ""
      BY <3>3, TreesAssumption, Zenon DEF FromFile, IsTree, Count
    <3>5. Blank.base = ""
      BY DEF Blank
    <3> QED BY <3>1, <3>4, <3>5, Zenon
  <2> QED BY <2>1, Zenon
<1> HIDE DEF path
<1>3. PICK v : FindChain(v, path) /\ Packages!Find(path) = v[Len(path)]
  BY <1>1, FindIsChain, Zenon
<1>4. 1 \in 1 .. 1 /\ 1 - 1 = 0 /\ 1 # -1
  OBVIOUS
<1>5. v[1] = Steps(1, Blank)
  BY <1>1, <1>3, <1>4, Zenon DEF FindChain
<1>6. Steps(1, Blank) = -1
  BY <1>2, <1>4, Zenon DEF Steps
<1> QED BY <1>1, <1>3, <1>5, <1>6, Zenon DEF path

LEMMA FindAnswer ==
  ASSUME FromFile, NEW P, Layout(P), NEW path, Plain(path.alias), path.comps \in Seq(Names)
  PROVE  Same(P, Packages!Find(Meant(path)), fdt_path_offset(path))
<1> DEFINE alias == path.alias
           comps == path.comps
<1>0. Meant(path) = IF alias = "" THEN comps
                    ELSE IF Leads(alias) # {} /\ Tops # {} THEN Aliases[Min(Leads(alias))].path \o comps
                    ELSE <<Blank>>
  <2>1. DOMAIN tree.depth = 1 .. Count
    BY TreeFact, Zenon
  <2>2. {i \in DOMAIN tree.depth : tree.depth[i] = 1 /\ tree.name[i].base = "aliases"} = Tops
    BY <2>1, Zenon DEF Tops, Depth
  <2> QED BY <2>2, Zenon DEF Meant, Leads, Blank
<1>1. CASE alias = ""
  <2>1. Meant(path) = comps /\ fdt_path_offset(path) = Descend(0, comps)
    BY <1>0, <1>1, Zenon DEF fdt_path_offset
  <2> QED BY <2>1, FindSame, Zenon
<1>2. CASE alias # "" /\ (Tops = {} \/ Leads(alias) = {})
  <2>1. Meant(path) = <<Blank>>
    BY <1>0, <1>2, Zenon
  <2>2. fdt_path_offset(path) = Descend(BADPATH, comps)
    BY <1>2, AliasFact, Zenon DEF fdt_path_offset
  <2> QED BY <2>1, <2>2, BlankFact, NowhereFact, Zenon
<1>3. CASE alias # "" /\ ~(Tops = {} \/ Leads(alias) = {})
  <2> DEFINE lead == Aliases[Min(Leads(alias))].path
  <2>1. Meant(path) = lead \o comps
    BY <1>0, <1>3, Zenon
  <2>2. fdt_path_offset(path) = Descend(Descend(0, lead), comps)
    BY <1>3, AliasFact, Zenon DEF fdt_path_offset
  <2>3. lead \in Seq(Names)
    BY <1>3, LeadsFact, Zenon
  <2> HIDE DEF lead
  <2> QED BY <2>1, <2>2, <2>3, FindOn, Zenon
<1> QED BY <1>1, <1>2, <1>3

-----------------------------------------------------------------------------
(* A call as the packages see it.                                          *)
Mapped(c) ==
  [service  |-> IF c.service \in {"getprop", "getproplen", "BUG_ON"} THEN "none" ELSE c.service,
   argument |-> CASE c.service \in {"child", "peer", "parent", "package-to-path"} -> Number(c.argument)
                  [] c.service = "finddevice" -> Meant(c.argument)
                  [] c.service \in {"instance-to-package", "instance-to-path"} -> c.argument
                  [] OTHER -> 0,
   answer   |-> CASE c.service \in {"package-to-path", "instance-to-path"} -> c.path
                  [] c.service \in {"getprop", "getproplen", "BUG_ON"} -> 0
                  [] OTHER -> Number(c.result)]

Answered(c) == Mapped(c).answer = Packages!Answer(Mapped(c).service, Mapped(c).argument)

LEMMA NumberStays ==
  ASSUME UNCHANGED <<tree, fdt>>
  PROVE  \A x : Number(x)' = Number(x) /\ Meant(x)' = Meant(x)
<1>1. tree' = tree /\ fdt' = fdt
  OBVIOUS
<1>2. Nodes' = Nodes
  BY <1>1, Zenon DEF Nodes, IsNode, Tag, At
<1>3. \A x : Number(x)' = Number(x)
  BY <1>2, Zenon DEF Number
<1>4. \A x : Meant(x)' = Meant(x)
  BY <1>1, Zenon DEF Meant
<1> QED BY <1>3, <1>4, Zenon

LEMMA MappedStays ==
  ASSUME UNCHANGED <<tree, fdt>>, NEW c, call' = c
  PROVE  Mapped(call)' = Mapped(c)
<1>1. \A x : Number(x)' = Number(x) /\ Meant(x)' = Meant(x)
  BY NumberStays, Zenon
<1> QED BY <1>1, Zenon DEF Mapped

LEMMA StepRefines ==
  ASSUME UNCHANGED <<tree, fdt>>, NEW c, call' = c, Answered(c)
  PROVE  Packages!Next
<1>1. Mapped(call)' = Mapped(c)
  BY MappedStays, Zenon
<1>2. Mapped(call)'.answer = Packages!Answer(Mapped(call)'.service, Mapped(call)'.argument)
  BY <1>1, Zenon DEF Answered
<1> QED BY <1>2, Zenon DEF Packages!Next, Mapped

OfNode(service) == service \in {"child", "peer", "parent"}

OfProperty(service) == service \in {"getprop", "getproplen", "BUG_ON"}

LEMMA NodeMapped ==
  ASSUME NEW c, OfNode(c.service)
  PROVE  /\ Mapped(c).service = c.service /\ Mapped(c).argument = Number(c.argument)
         /\ Mapped(c).answer = Number(c.result)
BY DEF Mapped, OfNode

LEMMA PathMapped ==
  ASSUME NEW c, c.service = "package-to-path"
  PROVE  /\ Mapped(c).service = c.service /\ Mapped(c).argument = Number(c.argument)
         /\ Mapped(c).answer = c.path
BY DEF Mapped

LEMMA DeviceMapped ==
  ASSUME NEW c, c.service = "finddevice"
  PROVE  /\ Mapped(c).service = c.service /\ Mapped(c).argument = Meant(c.argument)
         /\ Mapped(c).answer = Number(c.result)
BY DEF Mapped

LEMMA InstanceMapped ==
  ASSUME NEW c, c.service = "instance-to-package"
  PROVE  /\ Mapped(c).service = c.service /\ Mapped(c).argument = c.argument
         /\ Mapped(c).answer = Number(c.result)
BY DEF Mapped

LEMMA InstancePathMapped ==
  ASSUME NEW c, c.service = "instance-to-path"
  PROVE  /\ Mapped(c).service = c.service /\ Mapped(c).argument = c.argument
         /\ Mapped(c).answer = c.path
BY DEF Mapped

LEMMA PropMapped ==
  ASSUME NEW c, OfProperty(c.service)
  PROVE  Mapped(c).service = "none" /\ Mapped(c).answer = 0
BY DEF Mapped, OfProperty

LEMMA NoneMapped == Mapped(NoCall).service = "none" /\ Mapped(NoCall).answer = 0
<1>1. NoCall.service = "none" /\ NoCall.result = 0
  BY DEF NoCall
<1>2. Mapped(NoCall).service = "none" /\ Mapped(NoCall).answer = Number(0)
  BY <1>1 DEF Mapped
<1>3. Number(0) = 0
  BY DEF Number
<1> QED BY <1>2, <1>3

LEMMA AnswerFact ==
  ASSUME NEW a
  PROVE  /\ Packages!Answer("child", a) = IF a = -1 THEN 0 ELSE Packages!ChildOf(Packages!OrRoot(a))
         /\ Packages!Answer("peer", a) = IF a = -1 THEN 0 ELSE IF a = 0 THEN 1 ELSE Packages!PeerOf(a)
         /\ Packages!Answer("parent", a) = IF a = -1 THEN -1 ELSE Packages!ParentOf(a)
         /\ Packages!Answer("package-to-path", a) = Packages!Path(Packages!OrRoot(a))
         /\ Packages!Answer("finddevice", a) = Packages!Find(a)
         /\ Packages!Answer("instance-to-package", a) = Packages!Instance(a)
         /\ Packages!Answer("instance-to-path", a) = Packages!Path(Packages!Instance(a))
         /\ Packages!Answer("none", a) = 0
BY DEF Packages!Answer, Packages!Unknown, Packages!None

(* Each service answers as the packages do.                                *)
Answers == UNCHANGED <<tree, fdt>> /\ \E c : call' = c /\ Answered(c)

LEMMA ReturnsCall ==
  ASSUME NEW service, NEW argument, NEW result, NEW wrote, NEW room, NEW path,
         Returns(service, argument, result, wrote, room, path)
  PROVE  /\ UNCHANGED <<tree, fdt>>
         /\ \E c : /\ call' = c
                   /\ c.service = service /\ c.argument = argument /\ c.result = result /\ c.path = path
<1>1. call' = call' /\ UNCHANGED <<tree, fdt>>
  BY Zenon DEF Returns
<1>2. /\ call'.service = service /\ call'.argument = argument /\ call'.result = result
      /\ call'.path = path
  BY ReturnsFact, Zenon
<1> QED BY <1>1, <1>2, Zenon

(* What a client asks with, as the packages see it: 0 is the root, but to  *)
(* peer and parent.                                                        *)
LEMMA AskedNumber ==
  ASSUME TreeInv, NEW P, Layout(P), NEW ph \in Asked
  PROVE  \/ /\ ph = -1 /\ Number(ph) = -1 /\ rom_node_offset_by_phandle(ph) < 0
            /\ Packages!OrRoot(Number(ph)) = -1
         \/ \E i \in 1 .. Count :
              /\ Packages!OrRoot(Number(ph)) = i /\ Number(ph) # -1
              /\ rom_node_offset_by_phandle(ph) = P[i] /\ ~(P[i] < 0) /\ i # -1 /\ i # 0
              /\ (ph = 0 /\ Number(ph) = 0) \/ (ph = rom_get_phandle(P[i]) /\ Number(ph) = i)
<1>1. FromFile
  BY Zenon DEF TreeInv
<1>2. -1 # 0 /\ 0 # -1 /\ 1 # -1 /\ 1 # 0
  OBVIOUS
<1>3. CASE ph = -1 /\ rom_node_offset_by_phandle(ph) < 0
  <2>1. Number(ph) = -1
    BY <1>1, <1>3, NumberFact, Zenon
  <2>2. Packages!OrRoot(-1) = -1
    BY <1>2, Zenon DEF Packages!OrRoot, Packages!None
  <2> QED BY <1>3, <2>1, <2>2, Zenon
<1>4. CASE ph = 0 /\ rom_node_offset_by_phandle(ph) = P[1] /\ 1 \in 1 .. Count
  <2>1. Number(ph) = 0
    BY <1>1, <1>4, NumberFact, Zenon
  <2>2. Packages!OrRoot(0) = 1
    BY Zenon DEF Packages!OrRoot, Packages!None
  <2>3. ~(P[1] < 0)
    BY <1>1, <1>4, HandedFact, Zenon
  <2> QED BY <1>2, <1>4, <2>1, <2>2, <2>3, Zenon
<1>5. ASSUME NEW i \in 1 .. Count, ph = rom_get_phandle(P[i]), rom_node_offset_by_phandle(ph) = P[i]
      PROVE  /\ Packages!OrRoot(Number(ph)) = i /\ Number(ph) # -1 /\ Number(ph) = i
             /\ ~(P[i] < 0) /\ i # -1 /\ i # 0
  <2>1. i # -1 /\ i # 0
    OBVIOUS
  <2>2. Number(ph) = i /\ ~(P[i] < 0)
    BY <1>1, <1>5, NumberFact, HandedFact, Zenon
  <2>3. Packages!OrRoot(i) = i
    BY <2>1, Zenon DEF Packages!OrRoot, Packages!None
  <2> QED BY <2>1, <2>2, <2>3, Zenon
<1> QED BY <1>1, <1>3, <1>4, <1>5, PhandleNode, Zenon

LEMMA NodeAnswered ==
  ASSUME NEW service, OfNode(service), NEW c, NEW a, NEW r,
         c.service = service, c.argument = a, c.result = r,
         Number(r) = Packages!Answer(service, Number(a))
  PROVE  Answered(c)
<1>1. OfNode(c.service)
  BY Zenon
<1>2. /\ Mapped(c).service = c.service /\ Mapped(c).argument = Number(c.argument)
      /\ Mapped(c).answer = Number(c.result)
  BY <1>1, NodeMapped, Zenon
<1>3. /\ Mapped(c).service = service /\ Mapped(c).argument = Number(a)
      /\ Mapped(c).answer = Number(r)
  BY <1>2, Zenon
<1>4. Packages!Answer(Mapped(c).service, Mapped(c).argument) = Packages!Answer(service, Number(a))
  BY <1>3, Zenon
<1> QED BY <1>3, <1>4, Zenon DEF Answered

LEMMA ChildRefines ==
  ASSUME TreeInv, NEW ph \in Asked, rom_child(ph)
  PROVE  Answers
<1>0. FromFile
  BY Zenon DEF TreeInv
<1>1. PICK P : Layout(P)
  BY <1>0, LayoutExists, Zenon
<1> DEFINE o == rom_node_offset_by_phandle(ph)
           r == IF o < 0 THEN 0 ELSE OrZero(fdt_subnode(o))
<1>2. Returns("child", ph, r, 0, 0, NoPath)
  BY Zenon DEF rom_child, Gives
<1>3. Number(r) = Packages!Answer("child", Number(ph))
  <2>1. CASE ph = -1 /\ Number(ph) = -1 /\ o < 0
    BY <1>0, <1>1, <2>1, NumberFact, AnswerFact, Zenon
  <2>2. CASE \E i \in 1 .. Count : Packages!OrRoot(Number(ph)) = i /\ Number(ph) # -1 /\ o = P[i] /\ ~(P[i] < 0)
    <3>1. PICK i \in 1 .. Count : Packages!OrRoot(Number(ph)) = i /\ Number(ph) # -1 /\ o = P[i] /\ ~(P[i] < 0)
      BY <2>2
    <3>2. Number(r) = Packages!ChildOf(i)
      BY <1>0, <1>1, <3>1, ChildAnswer, Zenon
    <3>3. Packages!Answer("child", Number(ph)) = Packages!ChildOf(i)
      BY <3>1, AnswerFact, Zenon
    <3> QED BY <3>1, <3>2, <3>3, Zenon
  <2> QED BY <1>1, <2>1, <2>2, AskedNumber, Zenon
<1> HIDE DEF r
<1>4. UNCHANGED <<tree, fdt>>
  BY <1>2, ReturnsCall, Zenon
<1>5. PICK c : call' = c /\ c.service = "child" /\ c.argument = ph /\ c.result = r
  BY <1>2, ReturnsCall, Zenon
<1>6. Answered(c)
  <2>1. OfNode("child")
    BY DEF OfNode
  <2> QED BY <1>3, <1>5, <2>1, NodeAnswered, Zenon
<1> QED BY <1>4, <1>5, <1>6, Zenon DEF Answers

LEMMA PeerRefines ==
  ASSUME TreeInv, NEW ph \in Asked, rom_peer(ph)
  PROVE  Answers
<1>0. FromFile
  BY Zenon DEF TreeInv
<1>1. PICK P : Layout(P)
  BY <1>0, LayoutExists, Zenon
<1> DEFINE o == rom_node_offset_by_phandle(ph)
           r == IF ph = 0 THEN ROOT_PHANDLE ELSE IF o < 0 THEN 0 ELSE OrZero(fdt_sibling(o))
<1>2. Returns("peer", ph, r, 0, 0, NoPath)
  BY Zenon DEF rom_peer, Gives
<1>3. Number(r) = Packages!Answer("peer", Number(ph))
  <2>0. 0 # -1
    OBVIOUS
  <2>1. CASE ph = 0
    <3>1. ROOT_PHANDLE = rom_get_phandle(P[1]) /\ 1 \in 1 .. Count
      BY <1>0, <1>1, RootOffset, Zenon DEF ROOT_PHANDLE
    <3>2. Number(r) = 1 /\ Number(ph) = 0
      BY <1>0, <1>1, <2>1, <3>1, NumberFact, Zenon
    <3> QED BY <2>0, <3>2, AnswerFact, Zenon
  <2>2. CASE ph # 0
    <3>1. CASE ph = -1 /\ Number(ph) = -1 /\ o < 0
      BY <1>0, <1>1, <2>2, <3>1, NumberFact, AnswerFact, Zenon
    <3>2. CASE \E i \in 1 .. Count : Number(ph) = i /\ o = P[i] /\ ~(P[i] < 0) /\ i # -1 /\ i # 0
      <4>1. PICK i \in 1 .. Count : Number(ph) = i /\ o = P[i] /\ ~(P[i] < 0) /\ i # -1 /\ i # 0
        BY <3>2
      <4>2. Number(r) = Packages!PeerOf(i)
        BY <1>0, <1>1, <2>2, <4>1, PeerAnswer, Zenon
      <4>3. Packages!Answer("peer", i) = Packages!PeerOf(i)
        BY <4>1, AnswerFact, Zenon
      <4> QED BY <4>1, <4>2, <4>3, Zenon
    <3> QED BY <1>1, <2>2, <3>1, <3>2, AskedNumber, Zenon
  <2> QED BY <2>1, <2>2
<1> HIDE DEF r
<1>4. UNCHANGED <<tree, fdt>>
  BY <1>2, ReturnsCall, Zenon
<1>5. PICK c : call' = c /\ c.service = "peer" /\ c.argument = ph /\ c.result = r
  BY <1>2, ReturnsCall, ZenonT(90)
<1>6. Answered(c)
  <2>1. OfNode("peer")
    BY DEF OfNode
  <2> QED BY <1>3, <1>5, <2>1, NodeAnswered, Zenon
<1> QED BY <1>4, <1>5, <1>6, Zenon DEF Answers

LEMMA ParentRefines ==
  ASSUME TreeInv, NEW ph \in Asked, rom_parent(ph)
  PROVE  Answers \/ Stops(0)
<1>0. FromFile
  BY Zenon DEF TreeInv
<1>1. PICK P : Layout(P)
  BY <1>0, LayoutExists, Zenon
<1>2. P[1] = 0 /\ 1 \in 1 .. Count /\ ROOT_PHANDLE = rom_get_phandle(P[1])
  BY <1>0, <1>1, RootOffset, Zenon DEF ROOT_PHANDLE
<1> DEFINE o == rom_node_offset_by_phandle(ph)
<1>20. CASE ph = 0
  <2>1. rom_node_offset_by_phandle(0) = 0
    BY DEF rom_node_offset_by_phandle, PHANDLE_MUNGE
  <2>2. fdt_parent_offset(0) = NOTFOUND
    BY <1>0, <1>1, <1>2, ParentOffsetFact, Zenon
  <2>3. ~(0 < 0) /\ ~(NOTFOUND >= 0)
    BY DEF NOTFOUND
  <2>4. ROOT_PHANDLE # 0
    BY <1>0, <1>1, <1>2, HandedFact, Zenon
  <2>5. Stops(0)
    BY <1>20, <2>1, <2>2, <2>3, <2>4, Zenon DEF rom_parent
  <2> QED BY <2>5
<1>21. SUFFICES ASSUME ph # 0 PROVE Answers
  BY <1>20
<1>3. \E r : Gives("parent", ph, r) /\ Number(r) = Packages!Answer("parent", Number(ph))
  <2>1. CASE ph = ROOT_PHANDLE
    <3>1. Gives("parent", ph, 0)
      BY <2>1, Zenon DEF rom_parent
    <3>2. Number(0) = 0 /\ Number(ph) = 1
      BY <1>0, <1>1, <1>2, <2>1, NumberFact, Zenon
    <3>3. 1 # -1
      OBVIOUS
    <3>4. Packages!Answer("parent", 1) = 0
      BY <1>0, <1>2, <3>3, ParentAnswer, AnswerFact, Zenon
    <3> QED BY <3>1, <3>2, <3>4, Zenon
  <2>2. CASE ph # ROOT_PHANDLE /\ ph = -1 /\ Number(ph) = -1 /\ o < 0
    <3>1. Gives("parent", ph, -1)
      BY <2>2, Zenon DEF rom_parent
    <3> QED BY <2>2, <3>1, AnswerFact, Zenon
  <2>3. CASE /\ ph # ROOT_PHANDLE
             /\ \E i \in 1 .. Count : ph = rom_get_phandle(P[i]) /\ Number(ph) = i /\ o = P[i] /\ ~(P[i] < 0) /\ i # -1
    <3>1. PICK i \in 1 .. Count : ph = rom_get_phandle(P[i]) /\ Number(ph) = i /\ o = P[i] /\ ~(P[i] < 0) /\ i # -1
      BY <2>3
    <3>2. i # 1
      BY <1>2, <2>3, <3>1, Zenon
    <3>3. Parent(i) \in 1 .. Count
      BY <1>0, <3>2, ParentFact, Zenon
    <3>4. fdt_parent_offset(o) = P[Parent(i)]
      BY <1>0, <1>1, <3>1, <3>2, ParentOffsetFact, Zenon
    <3>5. P[Parent(i)] \in Nat /\ Number(rom_get_phandle(P[Parent(i)])) = Parent(i)
      BY <1>0, <1>1, <3>3, HandedFact, NumberFact, Zenon
    <3>6. P[Parent(i)] >= 0
      BY <3>5
    <3>7. Gives("parent", ph, rom_get_phandle(P[Parent(i)]))
      BY <2>3, <3>1, <3>4, <3>6, Zenon DEF rom_parent
    <3>8. Packages!Answer("parent", Number(ph)) = Parent(i)
      BY <1>0, <3>1, <3>2, ParentAnswer, AnswerFact, ZenonT(90)
    <3> QED BY <3>5, <3>7, <3>8, Zenon
  <2> QED BY <1>1, <1>21, <2>1, <2>2, <2>3, AskedNumber, Zenon
<1>4. PICK r : Returns("parent", ph, r, 0, 0, NoPath) /\ Number(r) = Packages!Answer("parent", Number(ph))
  BY <1>3, Zenon DEF Gives
<1>5. UNCHANGED <<tree, fdt>>
  BY <1>4, ReturnsCall, Zenon
<1>6. PICK c : call' = c /\ c.service = "parent" /\ c.argument = ph /\ c.result = r
  BY <1>4, ReturnsCall, Zenon
<1>7. Answered(c)
  <2>1. OfNode("parent")
    BY DEF OfNode
  <2> QED BY <1>4, <1>6, <2>1, NodeAnswered, Zenon
<1> QED BY <1>5, <1>6, <1>7, Zenon DEF Answers

LEMMA FinddeviceRefines ==
  ASSUME TreeInv, NEW path \in Lookups, rom_finddevice(path)
  PROVE  Answers
<1>0. FromFile
  BY Zenon DEF TreeInv
<1>1. PICK P : Layout(P)
  BY <1>0, LayoutExists, Zenon
<1> DEFINE o == fdt_path_offset(path)
           r == OrUnknown(o)
           n == Packages!Find(Meant(path))
<1>2. Returns("finddevice", path, r, 0, 0, NoPath)
  BY Zenon DEF rom_finddevice, Gives
<1>3. Same(P, n, o)
  <2>1. path \in [alias : STRING \ {"linux,phandle"}, comps : Seq(Names)]
    BY PathsAssumption, Zenon
  <2>2. path.alias \in STRING \ {"linux,phandle"} /\ path.comps \in Seq(Names)
    BY <2>1, LookupFact, Zenon
  <2>3. Plain(path.alias)
    BY <2>2, Zenon DEF Plain
  <2> QED BY <1>0, <1>1, <2>2, <2>3, FindAnswer, Zenon
<1> HIDE DEF o, n
<1>4. Number(r) = n
  <2>1. CASE n = -1 /\ o \in {NOTFOUND, BADPATH}
    <3>1. o < 0
      BY <2>1 DEF NOTFOUND, BADPATH
    <3>2. r = -1
      BY <3>1, Zenon DEF OrUnknown
    <3> QED BY <1>0, <1>1, <2>1, <3>2, NumberFact, Zenon
  <2>2. CASE n \in 1 .. Count /\ o = P[n]
    <3>1. ~(o < 0) /\ Number(rom_get_phandle(o)) = n
      BY <1>0, <1>1, <2>2, HandedFact, NumberFact, Zenon
    <3> QED BY <3>1, Zenon DEF OrUnknown
  <2> QED BY <1>3, <2>1, <2>2, Zenon DEF Same
<1> HIDE DEF r
<1>5. UNCHANGED <<tree, fdt>>
  BY <1>2, ReturnsCall, Zenon
<1>6. PICK c : call' = c /\ c.service = "finddevice" /\ c.argument = path /\ c.result = r
  BY <1>2, ReturnsCall, Zenon
<1>7. /\ Mapped(c).service = "finddevice" /\ Mapped(c).argument = Meant(path)
      /\ Mapped(c).answer = Number(r)
  BY <1>6, DeviceMapped, Zenon
<1>8. Packages!Answer(Mapped(c).service, Mapped(c).argument) = n
  BY <1>7, AnswerFact, Zenon DEF n
<1>9. Answered(c)
  BY <1>4, <1>7, <1>8, Zenon DEF Answered
<1> QED BY <1>5, <1>6, <1>9, Zenon DEF Answers

LEMMA HolderFact ==
  ASSUME FromFile, NEW P, Layout(P), NEW ih \in Ihandles
  PROVE  \E i \in 1 .. Count : /\ Packages!Instance(ih) = i /\ rom_node_offset_by_ihandle(ih) = P[i]
                               /\ ~(P[i] < 0) /\ Number(rom_get_phandle(P[i])) = i
<1> DEFINE i == Min(Instances(ih))
<1>1. i \in 1 .. Count /\ rom_node_offset_by_ihandle(ih) = P[i] /\ Instances(ih) # {}
  BY IhandleFact, Zenon
<1>2. Packages!Instance(ih) = i
  BY <1>1, InstanceAnswer, Zenon
<1> HIDE DEF i
<1>3. ~(P[i] < 0) /\ Number(rom_get_phandle(P[i])) = i
  BY <1>1, HandedFact, NumberFact, Zenon
<1> QED BY <1>1, <1>2, <1>3

LEMMA InstanceRefines ==
  ASSUME TreeInv, NEW ih \in Ihandles, rom_itopackage(ih)
  PROVE  Answers
<1>0. FromFile
  BY Zenon DEF TreeInv
<1>1. PICK P : Layout(P)
  BY <1>0, LayoutExists, Zenon
<1> DEFINE o == rom_node_offset_by_ihandle(ih)
           r == OrUnknown(o)
<1>2. Returns("instance-to-package", ih, r, 0, 0, NoPath)
  BY Zenon DEF rom_itopackage, Gives
<1>3. PICK i \in 1 .. Count : /\ Packages!Instance(ih) = i /\ o = P[i]
                              /\ ~(P[i] < 0) /\ Number(rom_get_phandle(P[i])) = i
  BY <1>0, <1>1, HolderFact, Zenon
<1>4. Number(r) = Packages!Instance(ih)
  BY <1>3, Zenon DEF OrUnknown
<1> HIDE DEF r
<1>5. UNCHANGED <<tree, fdt>>
  BY <1>2, ReturnsCall, Zenon
<1>6. PICK c : call' = c /\ c.service = "instance-to-package" /\ c.argument = ih /\ c.result = r
  BY <1>2, ReturnsCall, Zenon
<1>7. /\ Mapped(c).service = "instance-to-package" /\ Mapped(c).argument = ih
      /\ Mapped(c).answer = Number(r)
  BY <1>6, InstanceMapped, Zenon
<1>8. Packages!Answer(Mapped(c).service, Mapped(c).argument) = Packages!Instance(ih)
  BY <1>7, AnswerFact, Zenon
<1>9. Answered(c)
  BY <1>4, <1>7, <1>8, Zenon DEF Answered
<1> QED BY <1>5, <1>6, <1>9, Zenon DEF Answers

LEMMA InstancePathRefines ==
  ASSUME TreeInv, NEW ih \in Ihandles, NEW n, rom_itopath(ih, n)
  PROVE  Answers
<1>0. FromFile
  BY Zenon DEF TreeInv
<1>1. PICK P : Layout(P)
  BY <1>0, LayoutExists, Zenon
<1> DEFINE o == rom_node_offset_by_ihandle(ih)
           path == IF o < 0 THEN NoPath ELSE fdt_get_path(o, XferSize)
           k == IF path.found THEN Strlen(path.names) ELSE -1
<1>2. Returns("instance-to-path", ih, k, Least(n, k + 1), n, path)
  BY Zenon DEF rom_itopath, PathOut
<1> HIDE DEF k
<1>3. PICK i \in 1 .. Count : Packages!Instance(ih) = i /\ o = P[i] /\ ~(P[i] < 0)
  BY <1>0, <1>1, HolderFact, Zenon
<1>4. path = Packages!Path(Packages!Instance(ih))
  BY <1>0, <1>1, <1>3, PathAnswer, Zenon
<1> HIDE DEF path
<1>5. UNCHANGED <<tree, fdt>>
  BY <1>2, ReturnsCall, Zenon
<1>6. PICK c : call' = c /\ c.service = "instance-to-path" /\ c.argument = ih /\ c.path = path
  BY <1>2, ReturnsCall, Zenon
<1>7. /\ Mapped(c).service = "instance-to-path" /\ Mapped(c).argument = ih
      /\ Mapped(c).answer = path
  BY <1>6, InstancePathMapped, Zenon
<1>8. Packages!Answer(Mapped(c).service, Mapped(c).argument) = Packages!Path(Packages!Instance(ih))
  BY <1>7, AnswerFact, Zenon
<1>9. Answered(c)
  BY <1>4, <1>7, <1>8, Zenon DEF Answered
<1> QED BY <1>5, <1>6, <1>9, Zenon DEF Answers

LEMMA PackagePathRefines ==
  ASSUME TreeInv, NEW ph \in Asked, NEW n, rom_ptopath(ph, n)
  PROVE  Answers
<1>0. FromFile
  BY Zenon DEF TreeInv
<1>1. PICK P : Layout(P)
  BY <1>0, LayoutExists, Zenon
<1> DEFINE o == rom_node_offset_by_phandle(ph)
           path == IF o < 0 THEN NoPath ELSE fdt_get_path(o, XferSize)
           k == IF path.found THEN Strlen(path.names) ELSE -1
<1>2. Returns("package-to-path", ph, k, Least(n, k + 1), n, path)
  BY Zenon DEF rom_ptopath, PathOut
<1> HIDE DEF k
<1>3. path = Packages!Path(Packages!OrRoot(Number(ph)))
  <2>1. CASE Packages!OrRoot(Number(ph)) = -1 /\ o < 0
    <3>1. Packages!Path(-1) = NoPath
      BY Zenon DEF Packages!Path, Packages!Unknown, Packages!NoPath, NoPath
    <3> QED BY <2>1, <3>1, Zenon
  <2>2. CASE \E i \in 1 .. Count : Packages!OrRoot(Number(ph)) = i /\ o = P[i] /\ ~(P[i] < 0)
    <3>1. PICK i \in 1 .. Count : Packages!OrRoot(Number(ph)) = i /\ o = P[i] /\ ~(P[i] < 0)
      BY <2>2
    <3> QED BY <1>0, <1>1, <3>1, PathAnswer, Zenon
  <2> QED BY <1>1, <2>1, <2>2, AskedNumber, Zenon
<1> HIDE DEF path
<1>4. UNCHANGED <<tree, fdt>>
  BY <1>2, ReturnsCall, Zenon
<1>5. PICK c : call' = c /\ c.service = "package-to-path" /\ c.argument = ph /\ c.path = path
  BY <1>2, ReturnsCall, Zenon
<1>6. /\ Mapped(c).service = "package-to-path" /\ Mapped(c).argument = Number(ph)
      /\ Mapped(c).answer = path
  BY <1>5, PathMapped, Zenon
<1>7. Packages!Answer(Mapped(c).service, Mapped(c).argument) = Packages!Path(Packages!OrRoot(Number(ph)))
  BY <1>6, AnswerFact, Zenon
<1>8. Answered(c)
  BY <1>3, <1>6, <1>7, Zenon DEF Answered
<1> QED BY <1>4, <1>5, <1>8, Zenon DEF Answers

LEMMA PropertyRefines ==
  ASSUME NEW service, OfProperty(service), NEW argument, NEW result, NEW wrote, NEW room, NEW path,
         Returns(service, argument, result, wrote, room, path)
  PROVE  Answers
<1>1. UNCHANGED <<tree, fdt>>
  BY ReturnsCall, Zenon
<1>2. PICK c : call' = c /\ c.service = service
  BY ReturnsCall, Zenon
<1>3. OfProperty(c.service)
  BY <1>2, Zenon
<1>4. Mapped(c).service = "none" /\ Mapped(c).answer = 0
  BY <1>3, PropMapped, Zenon
<1>5. Packages!Answer(Mapped(c).service, Mapped(c).argument) = 0
  BY <1>4, AnswerFact, Zenon
<1>6. Answered(c)
  BY <1>4, <1>5, Zenon DEF Answered
<1> QED BY <1>1, <1>2, <1>6, Zenon DEF Answers

LEMMA GetpropRefines ==
  ASSUME NEW ph, NEW name, NEW n, rom_getprop(ph, name, n) \/ rom_getproplen(ph, name)
  PROVE  Answers
<1>1. OfProperty("getprop") /\ OfProperty("getproplen")
  BY DEF OfProperty
<1>2. CASE rom_getprop(ph, name, n)
  BY <1>1, <1>2, PropertyRefines, Zenon DEF rom_getprop
<1>3. CASE rom_getproplen(ph, name)
  BY <1>1, <1>3, PropertyRefines, Zenon DEF rom_getproplen
<1> QED BY <1>2, <1>3

LEMMA ResumeRefines ==
  ASSUME Resume
  PROVE  Answers
<1>1. call' = NoCall
  BY Zenon DEF Resume
<1>2. UNCHANGED <<tree, fdt>>
  BY Zenon DEF Resume
<1>3. Packages!Answer(Mapped(NoCall).service, Mapped(NoCall).argument) = 0
  BY NoneMapped, AnswerFact, Zenon
<1>4. Answered(NoCall)
  BY <1>3, NoneMapped, Zenon DEF Answered
<1> QED BY <1>1, <1>2, <1>4, Zenon DEF Answers

LEMMA StopRefines ==
  ASSUME Stops(0)
  PROVE  Answers
<1>1. UNCHANGED <<tree, fdt>>
  BY Zenon DEF Stops
<1>2. call' = call' /\ OfProperty(call'.service)
  BY DEF Stops, NoCall, OfProperty
<1>3. PICK c : call' = c /\ OfProperty(c.service)
  BY <1>2, Zenon
<1>4. Mapped(c).service = "none" /\ Mapped(c).answer = 0
  BY <1>3, PropMapped, Zenon
<1>5. Packages!Answer(Mapped(c).service, Mapped(c).argument) = 0
  BY <1>4, AnswerFact, Zenon
<1>6. Answered(c)
  BY <1>4, <1>5, Zenon DEF Answered
<1> QED BY <1>1, <1>3, <1>6, Zenon DEF Answers

(* Every step but that of rom_init, which calls no service, and a claim's  *)
(* is the packages'.                                                       *)
LEMMA NextRefines ==
  ASSUME TreeInv, Wild = {}, Next
  PROVE  rom_init \/ rom_claim_ex \/ Answers
<1>0. have \cup {0} \cup Wild \subseteq Asked
  BY AskedFact, Zenon
<1>1. ASSUME NEW ph \in Asked, rom_child(ph) \/ rom_peer(ph) \/ rom_parent(ph) PROVE Answers
  BY <1>1, PeerRefines, ChildRefines, ParentRefines, StopRefines, Zenon
<1> QED BY <1>0, <1>1, ResumeRefines, PackagePathRefines, GetpropRefines,
       FinddeviceRefines, InstanceRefines, InstancePathRefines, Zenon DEF Next

LEMMA StillStutters ==
  ASSUME UNCHANGED <<tree, fdt, call>>
  PROVE  Mapped(call)' = Mapped(call)
<1>1. \A x : Number(x)' = Number(x) /\ Meant(x)' = Meant(x)
  BY NumberStays, Zenon
<1>2. call' = call
  OBVIOUS
<1> QED BY <1>1, <1>2, Zenon DEF Mapped

(* Whatever the tree the file was made from, the services, which know only *)
(* the block, give a client the answers that tree gives.                   *)
THEOREM TreeImplementsPackageTree ==
  ASSUME Wild = {}
  PROVE  Spec => ImplementsPackageTree
<1>1. Init => Packages!Init
  <2>1. SUFFICES ASSUME Init PROVE Packages!Init
    OBVIOUS
  <2>2. Mapped(call) = Mapped(NoCall)
    BY <2>1, Zenon DEF Init
  <2>3. Mapped(call).service = "none" /\ Mapped(call).answer = 0
    BY <2>2, NoneMapped, Zenon
  <2> QED BY <2>3, Zenon DEF Mapped, Packages!Init, Packages!None
<1>2. ServicesInv /\ [Next]_vars => [Packages!Next]_<<tree, Mapped(call)>>
  <2>1. SUFFICES ASSUME ServicesInv, [Next]_vars PROVE [Packages!Next]_<<tree, Mapped(call)>>
    OBVIOUS
  <2>2. TreeInv
    BY <2>1, Zenon DEF ServicesInv
  <2>3. CASE UNCHANGED <<tree, fdt, call>>
    <3>1. tree' = tree
      BY <2>3
    <3>2. Mapped(call)' = Mapped(call)
      BY <2>3, StillStutters
    <3> QED BY <3>1, <3>2
  <2>4. CASE Answers
    <3>1. PICK c : call' = c /\ Answered(c)
      BY <2>4, Zenon DEF Answers
    <3>2. UNCHANGED <<tree, fdt>>
      BY <2>4, Zenon DEF Answers
    <3> QED BY <3>1, <3>2, StepRefines, Zenon
  <2>5. UNCHANGED vars => UNCHANGED <<tree, fdt, call>>
    BY DEF vars
  <2>6. rom_init => UNCHANGED <<tree, fdt, call>>
    BY DEF rom_init
  <2>7. rom_claim_ex => UNCHANGED <<tree, fdt, call>>
    BY DEF rom_claim_ex
  <2> QED BY <2>1, <2>2, <2>3, <2>4, <2>5, <2>6, <2>7, NextRefines, Zenon
<1>3. Packages!Init /\ [][Packages!Next]_<<tree, Mapped(call)>> => ImplementsPackageTree
  BY Zenon DEF ImplementsPackageTree, Packages!Spec, Mapped
<1> QED BY <1>1, <1>2, <1>3, ServicesAlways, PTL DEF Spec
=============================================================================
