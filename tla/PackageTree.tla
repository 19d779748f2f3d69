---------------------------- MODULE PackageTree -----------------------------
(***************************************************************************)
(* What the device tree services of src/rom.c promise a client: the        *)
(* packages form an ordered tree, which never changes; child, peer and     *)
(* parent move about in it, finddevice and package-to-path translate       *)
(* between packages and paths, instance-to-package finds the package that  *)
(* an instance handle names.                                               *)
(*                                                                         *)
(* Packages are numbered in the order of the tree, a package before what is*)
(* below it, the root being 1; depth is the distance from the root.        *)
(***************************************************************************)
EXTENDS Integers, Sequences, FiniteSets, FiniteSetsExt, SequencesExt

CONSTANT PathMax  \* a path and its NUL are at most this long

VARIABLES
  tree,     \* depth, name and ihandle of each package
  call      \* the last call: service, argument, answer; or "none", to a
            \* service this is not about

None == 0
Unknown == -1

Packages == DOMAIN tree.depth

IsParent(p, n) ==
  /\ p < n /\ tree.depth[p] = tree.depth[n] - 1
  /\ \A m \in p + 1 .. n - 1 : tree.depth[m] >= tree.depth[n]

Children(p) == {n \in Packages : IsParent(p, n)}

FirstOf(S, else) == IF S = {} THEN else ELSE Min(S)

ChildOf(n) == FirstOf(Children(n), None)

PeerOf(n) == FirstOf({m \in Packages : m > n /\ \E p \in Packages : {m, n} \subseteq Children(p)}, None)

ParentOf(n) == FirstOf({p \in Packages : IsParent(p, n)}, None)

(* The names on the way from the root, which has none, to a package: on it *)
(* there is one package of each depth.                                     *)
Ancestry(n) == {m \in Packages : m <= n /\ \A k \in m + 1 .. n : tree.depth[k] > tree.depth[m]}

PathOf(n) ==
  [d \in 1 .. tree.depth[n] |-> tree.name[CHOOSE m \in Ancestry(n) : tree.depth[m] = d]]

(* strlen of the path; the root's is "/".                                  *)
PathLength(path) ==
  IF path = <<>> THEN 1 ELSE FoldLeft(LAMBDA n, name : n + name.length + 1, 0, path)

(* A name may leave out the unit address: the first package is meant.      *)
Answers(n, name) ==
  \/ tree.name[n] = name
  \/ name.at = "" /\ tree.name[n].base = name.base

Find(path) ==
  FoldLeft(LAMBDA n, name : IF n = Unknown THEN Unknown
                            ELSE FirstOf({m \in Children(n) : Answers(m, name)}, Unknown),
           1, path)

Instance(ih) == FirstOf({n \in Packages : tree.ihandle[n] = ih}, Unknown)

NoPath == [found |-> FALSE, names |-> <<>>]

(* A path is given when it fits.                                           *)
Path(n) ==
  IF n # Unknown /\ PathLength(PathOf(n)) < PathMax
    THEN [found |-> TRUE, names |-> PathOf(n)] ELSE NoPath

(* 0 stands for the root, but to peer and parent.                          *)
OrRoot(a) == IF a = None THEN 1 ELSE a

(* Of what finddevice did not find, nothing is known.                      *)
Answer(service, a) ==
  CASE service = "child"               -> IF a = Unknown THEN None ELSE ChildOf(OrRoot(a))
    [] service = "peer"                -> IF a = Unknown THEN None ELSE IF a = None THEN 1 ELSE PeerOf(a)
    [] service = "parent"              -> IF a = Unknown THEN Unknown ELSE ParentOf(a)
    [] service = "package-to-path"     -> Path(OrRoot(a))
    [] service = "finddevice"          -> Find(a)
    [] service = "instance-to-package" -> Instance(a)
    [] service = "instance-to-path"    -> Path(Instance(a))
    [] service = "none"                -> None

Init == call.service = "none" /\ call.answer = None

Next ==
  /\ call'.answer = Answer(call'.service, call'.argument)
  /\ UNCHANGED tree

Spec == Init /\ [][Next]_<<tree, call>>
=============================================================================
