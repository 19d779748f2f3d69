----------------------------- MODULE MCCifCalls -----------------------------
(***************************************************************************)
(* CifCalls with every service, asked with the right counts, with one      *)
(* argument or one result too few, with one more of each, and with a count *)
(* that reaches around the address space; over arrays of which every       *)
(* beginning is in memory, and arrays with one cell cut by the end of a    *)
(* page, the next one there or missing.                                    *)
(***************************************************************************)
EXTENDS CifCalls

Arity(service) ==
  CASE service \in {"milliseconds", "exit", "enter", "boot", "chain", "bogus"} -> 0
    [] service \in {"child", "peer", "parent", "instance-to-package", "finddevice", "open", "close"} -> 1
    [] service = "getproplen" -> 2
    [] service \in {"instance-to-path", "package-to-path", "seek", "read", "write", "claim"} -> 3
    [] service = "getprop" -> 4
    [] service = "call-method" -> 6

Names ==
  {"child", "peer", "parent", "instance-to-package", "instance-to-path", "finddevice", "getprop",
   "getproplen", "open", "seek", "close", "write", "read", "claim", "exit", "enter", "boot", "chain",
   "milliseconds", "call-method", "package-to-path", "bogus"}

Declared(n) ==
  {<<n, 2>>, <<n + 1, 3>>, <<n, 1>>, <<n, 0>>, <<13, 1>>} \cup (IF n = 0 THEN {} ELSE {<<n - 1, 2>>})

Places ==
  {<<p, {}>> : p \in {2, 3, 4, 5, 6, 7, 8, 9, 10, 11, 12, 14}}
    \cup UNION {{<<k + 1, {k}>>, <<14, {k}>>} : k \in 0 .. 11}

MCCalls ==
  UNION {{[service |-> s, nin |-> d[1], nout |-> d[2], present |-> p[1], cut |-> p[2]] :
            d \in Declared(Arity(s)), p \in Places} : s \in Names}
=============================================================================
