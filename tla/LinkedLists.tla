---------------------------- MODULE LinkedLists ----------------------------
(***************************************************************************)
(* The doubly linked lists of src/include/list.h.  A heap is a function    *)
(* from the addresses of list_heads to their two pointers; a list is what  *)
(* its head reaches.                                                       *)
(***************************************************************************)
EXTENDS Naturals, Sequences, FiniteSets

LIST_POISON1 == "poison 1"
LIST_POISON2 == "poison 2"

LIST_HEAD_INIT(name) == [next |-> name, prev |-> name]

INIT_LIST_HEAD(heap, ptr) == [heap EXCEPT ![ptr] = LIST_HEAD_INIT(ptr)]

(* The four assignments, in their order.                                   *)
__list_add(heap, new, prev, next) ==
  [heap EXCEPT ![next].prev = new, ![new].next = next, ![new].prev = prev, ![prev].next = new]

list_add_tail(heap, new, head) == __list_add(heap, new, heap[head].prev, head)

__list_del(heap, prev, next) == [heap EXCEPT ![next].prev = prev, ![prev].next = next]

list_del(heap, entry) ==
  [__list_del(heap, heap[entry].prev, heap[entry].next)
     EXCEPT ![entry] = [next |-> LIST_POISON1, prev |-> LIST_POISON2]]

(* One step of a loop along next; it is lost once it has left the list.    *)
Forward(heap, pos) == IF pos \in DOMAIN heap THEN heap[pos].next ELSE pos

(* The entries list_for_each visits when its body leaves the list alone.   *)
list_for_each(heap, head) ==
  LET pos[i \in 0 .. Cardinality(DOMAIN heap)] ==
        IF i = 0 THEN head ELSE Forward(heap, pos[i - 1])
      ends == {i \in DOMAIN pos \ {0} : pos[i] = head}
      last == IF ends = {} THEN Cardinality(DOMAIN heap) + 1
              ELSE CHOOSE i \in ends : \A j \in ends : i <= j
  IN  [i \in 1 .. last - 1 |-> pos[i]]

(* What a list keeps to: forwards and backwards it is the same, and comes  *)
(* back to its head.                                                       *)
WellLinked(heap, head) ==
  LET entries == list_for_each(heap, head)
      at(i) == IF i \in DOMAIN entries THEN entries[i] ELSE head
  IN  \A i \in 0 .. Len(entries) :
        /\ at(i) \in DOMAIN heap /\ at(i + 1) \in DOMAIN heap
        /\ heap[at(i)].next = at(i + 1)
        /\ heap[at(i + 1)].prev = at(i)
=============================================================================
