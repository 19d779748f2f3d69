----------------------------- MODULE RangeList -----------------------------
(***************************************************************************)
(* guest_mem_avail_ranges as src/lib/ranges.c keeps it: heap blocks on a   *)
(* linked list, which range_remove walks while it deletes, trims and, when *)
(* a block loses its middle, inserts into it.  The claims of RomClaims run *)
(* beside it, on the set of ranges; the list must stay that set.           *)
(***************************************************************************)
EXTENDS RomClaims, LinkedLists

CONSTANT MaxBlocks   \* bound of the model: range_t blocks that malloc has

(* No fewer than the ranges that so many claims, with rom_init's three, can *)
(* leave, so that malloc always has a block, as it has for the program.    *)
ASSUME BlocksAssumption ==
  MaxClaims \in Nat /\ MaxBlocks \in Nat /\ MaxBlocks > MaxClaims + 3

VARIABLE list        \* the links, the contents, and whether a BUG_ON fired

listVars == <<vars, list>>

Blocks == 1 .. MaxBlocks
HEAD == 0            \* the list_head in guest_mem_avail_ranges

Free == range_alloc(0, 0)

malloc(L) == CHOOSE b \in Blocks : /\ L.range[b] = Free
                                   /\ \A c \in Blocks : c < b => L.range[c] # Free

(* range_add: in front of the first block that begins past it.             *)
RangeAdd(L, base, limit) ==
  LET r == malloc(L)
      entries == list_for_each(L.link, HEAD)
      past == {i \in DOMAIN entries : L.range[entries[i]].base > limit}
      before == IF past = {} THEN Len(entries) + 1
                ELSE CHOOSE i \in past : \A j \in past : i <= j
      stops == \/ base >= limit
               \/ \E i \in 1 .. before - 1 : /\ L.range[entries[i]].base <= base
                                             /\ limit <= L.range[entries[i]].limit
  IN  [L EXCEPT !.link = list_add_tail(INIT_LIST_HEAD(@, r), r,
                                       IF past = {} THEN HEAD ELSE entries[before]),
                !.range[r] = range_alloc(base, limit),
                !.stopped = @ \/ stops]

(* Variant: a block that loses its middle is cut after its front has been  *)
(* inserted, which range_add takes for a range already present.            *)
Cut_AddFirst(L, at, base, limit) ==
  LET r == L.range[at]
  IN  IF r.base > limit \/ r.limit < base THEN L
      ELSE IF r.base >= base /\ r.limit <= limit
        THEN [L EXCEPT !.link = list_del(@, at), !.range[at] = Free]
      ELSE IF r.base >= base THEN [L EXCEPT !.range[at].base = limit + 1]
      ELSE IF r.limit <= limit THEN [L EXCEPT !.range[at].limit = base - 1]
      ELSE [RangeAdd(L, r.base, base - 1) EXCEPT !.range[at].base = limit + 1]

(* The body of range_remove's loop.                                        *)
Cut(L, at, base, limit) ==
  LET r == L.range[at]
  IN  IF r.base > limit \/ r.limit < base THEN L
      ELSE IF r.base >= base /\ r.limit <= limit
        THEN [L EXCEPT !.link = list_del(@, at), !.range[at] = Free]
      ELSE IF r.base >= base THEN [L EXCEPT !.range[at].base = limit + 1]
      ELSE IF r.limit <= limit THEN [L EXCEPT !.range[at].limit = base - 1]
      ELSE RangeAdd([L EXCEPT !.range[at].base = limit + 1], r.base, base - 1)

(* list_for_each_entry_safe: n is read before the body, so the body may    *)
(* delete its entry, and does not see what it inserts there.               *)
RangeRemove(L, base, limit) ==
  LET loop[i \in 0 .. MaxBlocks] ==
        IF i = 0
          THEN [list |-> L, range |-> L.link[HEAD].next, n |-> Forward(L.link, L.link[HEAD].next)]
          ELSE LET s == loop[i - 1]
                   cut == Cut(s.list, s.range, base, limit)
               IN  IF s.range \notin Blocks \/ s.list.stopped THEN s
                   ELSE [list |-> cut, range |-> s.n, n |-> Forward(cut.link, s.n)]
  IN  IF base >= limit THEN [L EXCEPT !.stopped = TRUE] ELSE loop[MaxBlocks].list

RemoveGrant(L, out, size) == RangeRemove(L, FirstByte(out), LastByte(out, size))

-----------------------------------------------------------------------------
Empty ==
  [link    |-> [b \in Blocks \cup {HEAD} |-> LIST_HEAD_INIT(b)],
   range   |-> [b \in Blocks |-> Free],
   stopped |-> FALSE]

(* rom_init: one block for all of memory, and the ROM's own claims.        *)
ListInit ==
  /\ Init
  /\ list = RemoveGrant(RemoveGrant(RemoveGrant(RangeAdd(Empty, 0, PmemSize - 1),
              LoaderBase, LoaderLength), 4, 4), claim_arena_start - StackSize, StackSize)

(* Claim of RomClaims: rom_claim_ex walks the list unless it has refused the claim; a claim    *)
(* that was granted before finds nothing left to remove.                   *)
Walk(out, size) ==
  IF ~alive' \/ \E how \in {"fixed", "arena"} : Grant(out, size, how) \in granted'
    THEN list' = RemoveGrant(list, out, size)
    ELSE UNCHANGED list

ListClaim ==
  /\ alive /\ Cardinality(granted) < MaxClaims + 3
  /\ \E size \in Sizes :
       \/ \E addr \in Addrs : ClaimFixed(addr, size) /\ Walk(addr, size)
       \/ \E align \in Aligns :
            /\ ClaimArena(size, align)
            /\ Walk(ALIGN_UP(claim_arena_ptr, align), size)

ListNext == ListClaim \/ (GetAvailable /\ UNCHANGED list)

ListSpec == ListInit /\ [][ListNext]_listVars
-----------------------------------------------------------------------------
Held(L) == LET entries == list_for_each(L.link, HEAD)
           IN  [i \in DOMAIN entries |-> L.range[entries[i]]]

(* The list that range_remove and range_add leave behind is linked both   *)
(* ways, sorted by address, holds every block in use and no freed one, and *)
(* says exactly what the set of RomClaims says, whatever was deleted from  *)
(* it or inserted into it on the way; and the BUG_ONs of its walks stop the*)
(* program for the same claims.                                            *)
ListIsAvail ==
  /\ list.stopped <=> ~alive
  /\ alive =>
       /\ WellLinked(list.link, HEAD)
       /\ {list_for_each(list.link, HEAD)[i] : i \in DOMAIN Held(list)}
            = {b \in Blocks : list.range[b] # Free}
       /\ \A i \in 1 .. Len(Held(list)) - 1 : Held(list)[i].limit < Held(list)[i + 1].base
       /\ {Held(list)[i] : i \in DOMAIN Held(list)} = avail
=============================================================================
