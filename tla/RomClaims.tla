----------------------------- MODULE RomClaims -----------------------------
(***************************************************************************)
(* Physical memory as the Open Firmware client interface of src/rom.c      *)
(* hands it out: the "claim" service and the "claim" method of /memory     *)
(* (rom_claim, rom_mem_call), both on top of rom_claim_ex, and the         *)
(* "available" property a client reads back (rom_getprop_ex).              *)
(*                                                                         *)
(* avail is guest_mem_avail_ranges, claim_arena_ptr the bump pointer of    *)
(* the arena at the top of memory that aligned claims are served from.     *)
(* All arithmetic is on uint32_t: WordMod stands for 2^32.  alive is FALSE *)
(* once a BUG_ON has aborted the program.  wild remembers that a claim was *)
(* empty or had a sum that left the word: much is promised until then.     *)
(***************************************************************************)
EXTENDS Words, Ranges, FiniteSets

CONSTANTS
  WordMod,        \* 2^32
  PageSize,       \* PAGE_SIZE
  PmemSize,       \* pmem_size(), page aligned by pmem_init
  ArenaSize,      \* MB(16)
  StackSize,      \* MB(1)
  LoaderBase,     \* where rom_init copied the loader
  LoaderLength,   \* and the size of its file
  Addrs,          \* the addresses, sizes and alignments a client asks for
  Sizes,
  Aligns,         \* alignments other than 0, powers of two
  MaxClaims       \* bound of the model: claims a client is granted

ASSUME WordAssumption ==
  /\ WordMod \in Nat /\ PageSize \in Nat /\ PageSize >= 8
  /\ IsMultiple(WordMod, PageSize)

(* guest_init asks for MB(32), pmem_init rounds up to the page size.       *)
ASSUME MemoryAssumption ==
  /\ PmemSize \in Nat /\ ArenaSize \in Nat /\ StackSize \in Nat
  /\ PmemSize < WordMod
  /\ IsMultiple(PmemSize, PageSize)
  /\ IsMultiple(ArenaSize, PageSize)
  /\ IsMultiple(StackSize, PageSize)
  /\ 0 < StackSize /\ 0 < ArenaSize
  /\ StackSize + ArenaSize < PmemSize

(* pmem_to copied the whole loader, or rom_init has failed.                *)
ASSUME LoaderAssumption ==
  /\ LoaderBase \in Nat /\ LoaderLength \in Nat \ {0}
  /\ LoaderBase + LoaderLength <= PmemSize

ASSUME RequestAssumption ==
  /\ Addrs \subseteq 0 .. WordMod - 1
  /\ Sizes \subseteq 0 .. WordMod - 1
  /\ Aligns \subseteq 1 .. WordMod - 1
  /\ \A a \in Aligns : IsMultiple(WordMod, a)

VARIABLES avail, claim_arena_ptr, granted, alive, wild

vars == <<avail, claim_arena_ptr, granted, alive, wild>>

-----------------------------------------------------------------------------
(* uint32_t arithmetic: the sum of two words, and the predecessor.         *)
Word(x) == IF x >= WordMod THEN x - WordMod ELSE x

Pred(x) == IF x = 0 THEN WordMod - 1 ELSE x - 1

(* ALIGN_UP of defs.h, for a power of two a.                               *)
ALIGN_UP(x, a) == IF x % a = 0 THEN x ELSE Word(ALIGN(x, a) + a)

claim_arena_start == PmemSize - ArenaSize

claim_arena_end == PmemSize

(* Variants of what follows: the claimed range not widened to pages on     *)
(* either side, and the arena pointer advanced from where it was before it *)
(* was aligned.                                                            *)
FirstByte_Unaligned(out) == out

LastByte_Unaligned(out, size) == Pred(Word(out + size))

(* The page-granular range a claim takes out of avail.                     *)
FirstByte(out) == ALIGN(out, PageSize)

LastByte(out, size) == Pred(ALIGN_UP(Word(out + size), PageSize))

Grant(out, size, how) == [out |-> out, size |-> size, how |-> how]

(* The effect of range_remove and the return of rom_claim_ex.              *)
Take(out, size, how) ==
  IF RemoveStops(avail, FirstByte(out), LastByte(out, size))
    THEN /\ alive' = FALSE
         /\ UNCHANGED <<avail, granted>>
    ELSE /\ avail' = range_remove(avail, FirstByte(out), LastByte(out, size))
         /\ granted' = granted \cup {Grant(out, size, how)}
         /\ UNCHANGED alive

Refuse == UNCHANGED <<avail, granted, alive>>

(* A claim of size bytes at out, before out is cut to the word.            *)
Wild(out, size) == size = 0 \/ out + size >= WordMod

(* rom_claim_ex with align = 0: the caller names the address.              *)
ClaimFixed(addr, size) ==
  /\ wild' = (wild \/ Wild(addr, size))
  /\ UNCHANGED claim_arena_ptr
  /\ IF Word(addr + size) > PmemSize
       THEN Refuse
       ELSE Take(addr, size, "fixed")

AlignedUp(x, a) == IF x % a = 0 THEN x ELSE ALIGN(x, a) + a

ClaimArena_AdvanceUnaligned(size, align) ==
  /\ wild' = (wild \/ Wild(AlignedUp(claim_arena_ptr, align), size))
  /\ LET out == ALIGN_UP(claim_arena_ptr, align)
         ptr == Word(claim_arena_ptr + size)
     IN  IF out >= claim_arena_end
           THEN claim_arena_ptr' = out /\ Refuse
           ELSE /\ claim_arena_ptr' = ptr
                /\ IF ptr > claim_arena_end
                     THEN Refuse
                     ELSE Take(out, size, "arena")

(* rom_claim_ex with align # 0: claim_arena_ptr is aligned and advanced    *)
(* before each check, and stays where it is when the claim is refused.     *)
ClaimArena(size, align) ==
  /\ wild' = (wild \/ Wild(AlignedUp(claim_arena_ptr, align), size))
  /\ LET out == ALIGN_UP(claim_arena_ptr, align)
         ptr == Word(out + size)
     IN  IF out >= claim_arena_end
           THEN claim_arena_ptr' = out /\ Refuse
           ELSE /\ claim_arena_ptr' = ptr
                /\ IF ptr > claim_arena_end
                     THEN Refuse
                     ELSE Take(out, size, "arena")

-----------------------------------------------------------------------------
(* rom_init: the loader, the trampoline at 4 and the stack below the arena *)
(* are claimed at their addresses.                                         *)
RomRegions ==
  { Grant(LoaderBase, LoaderLength, "rom"),
    Grant(4, 4, "rom"),
    Grant(claim_arena_start - StackSize, StackSize, "rom") }

Without(R, g) == range_remove(R, FirstByte(g.out), LastByte(g.out, g.size))

Init ==
  /\ avail = Without(Without(Without({range_alloc(0, PmemSize - 1)},
                 Grant(LoaderBase, LoaderLength, "rom")),
                 Grant(4, 4, "rom")),
                 Grant(claim_arena_start - StackSize, StackSize, "rom"))
  /\ claim_arena_ptr = claim_arena_start
  /\ granted = RomRegions
  /\ alive = TRUE
  /\ wild = FALSE

(* The "claim" service and the /memory "claim" method: the same effect on  *)
(* memory, from differently ordered cells.  A result that cannot be written*)
(* back leaves the memory taken.                                           *)
Claim ==
  /\ alive
  /\ Cardinality(granted) < MaxClaims + 3
  /\ \E size \in Sizes :
       \/ \E addr \in Addrs : ClaimFixed(addr, size)
       \/ \E align \in Aligns : ClaimArena(size, align)

(* getprop of "available": BUG_ON on a range that is not page aligned.     *)
GetAvailable ==
  /\ alive
  /\ alive' = \A r \in avail : /\ r.base % PageSize = 0
                               /\ Word(Word(r.limit + WordMod - r.base) + 1) % PageSize = 0
  /\ UNCHANGED <<avail, claim_arena_ptr, granted, wild>>

Next == Claim \/ GetAvailable

Spec == Init /\ [][Next]_vars

-----------------------------------------------------------------------------
Bytes == 0 .. PmemSize - 1

Grants == [out : Nat, size : Nat, how : {"rom", "fixed", "arena"}]

TypeOK ==
  /\ avail \subseteq Ranges
  /\ claim_arena_ptr \in 0 .. WordMod - 1
  /\ granted \subseteq Grants
  /\ alive \in BOOLEAN
  /\ wild \in BOOLEAN

PageRange(r) ==
  /\ r.base < r.limit /\ r.limit < PmemSize
  /\ IsMultiple(r.base, PageSize)
  /\ IsMultiple(r.limit + 1, PageSize)

(* Whatever sizes and alignments the client asked for, the ranges it is    *)
(* shown as available are disjoint runs of whole pages inside memory: the  *)
(* BUG_ONs of rom_getprop_ex and the split in range_remove cannot fire.    *)
AvailWellFormed == DisjointRanges(avail) /\ \A r \in avail : PageRange(r)

(* The address a claim returned is never offered as available again,       *)
(* whatever was claimed around it: rom_claim_ex takes at least its page.   *)
ReturnedAddressTaken == \A g \in granted : ~Covers(avail, g.out)

(* No sequence of claims gives memory back: there is no release here.      *)
AvailOnlyShrinks ==
  [][\A x \in Bytes : Covers(avail', x) => Covers(avail, x)]_vars

(* The memory a claim occupies: every byte that shares a page with it.     *)
Extent(g) ==
  {x \in Bytes : \E y \in g.out .. g.out + g.size - 1 :
                    x \div PageSize = y \div PageSize}

Exact == \A x \in Bytes : Covers(avail, x) <=> \A g \in granted : x \notin Extent(g)

(* Until a client makes an empty or a wrapping claim the bookkeeping of    *)
(* rom_claim_ex is exact: a byte of memory is offered as available if and  *)
(* only if no claim occupies its page, although the claims overlap,        *)
(* straddle pages and leave the ranges in any fragments; and no BUG_ON of  *)
(* rom_claim_ex or rom_getprop_ex stops the machine.                       *)
AvailExact == ~wild => Exact /\ alive

BlocksDisjoint ==
  LET blocks == {g \in granted : g.how = "arena"}
  IN  /\ \A g \in blocks : /\ claim_arena_start <= g.out
                           /\ g.out + g.size <= claim_arena_ptr
                           /\ g.out + g.size <= claim_arena_end
      /\ \A g, h \in blocks :
           g # h => g.out + g.size <= h.out \/ h.out + h.size <= g.out

(* Until then, two claims served from the arena never share a byte, and    *)
(* none reaches past the pointer the next one starts from, refused claims  *)
(* in between included (they move the pointer and are not rolled back).    *)
ArenaBlocksDisjoint == ~wild => BlocksDisjoint

(* What a client may rely on: module FreeMemory, over the bytes of memory. *)
Promise == INSTANCE FreeMemory WITH
             free   <- {x \in Bytes : Covers(avail, x)},
             blocks <- {Extent(g) : g \in granted},
             void   <- wild

(* The claim services implement FreeMemory, wild claims included.          *)
ImplementsFreeMemory == Promise!Spec
=============================================================================
