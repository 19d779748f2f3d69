-------------------------- MODULE GuestMmu_proofs --------------------------
(***************************************************************************)
(* Proofs about GuestMmu, for every word, page and memory size and every   *)
(* request.  The list of ranges is inductive by itself (RangesInv); what   *)
(* the VMM holds is sound because guest_map fills the context that runs,   *)
(* that context is the one for MSR, and SDR1 leaves the magic value only   *)
(* together with guest_unmap_all (SoundInv).                               *)
(***************************************************************************)
EXTENDS GuestMmu, FiniteSetTheorems, TLAPS

(* Multiples of a page.                                                    *)
LEMMA MultipleDifference ==
  ASSUME NEW x \in Nat, NEW y \in Nat, NEW a \in Nat, a > 0, x <= y,
         IsMultiple(x, a), IsMultiple(y, a)
  PROVE  IsMultiple(y - x, a)
<1>1. PICK j \in 0 .. x : x = j * a
  BY DEF IsMultiple
<1>2. PICK k \in 0 .. y : y = k * a
  BY DEF IsMultiple
<1>4. j <= k
  <2>1. SUFFICES ASSUME k < j PROVE FALSE
    OBVIOUS
  <2>2. k * a < j * a
    BY <2>1, <1>1, <1>2, SMT
  <2> QED BY <2>2, <1>1, <1>2
<1>5. y - x = (k - j) * a
  BY <1>1, <1>2, SMT
<1>6. (k - j) <= (k - j) * a /\ k - j \in Nat
  BY <1>4, SMT
<1>7. k - j \in 0 .. y - x
  BY <1>5, <1>6
<1> QED BY <1>5, <1>7, Zenon DEF IsMultiple

LEMMA MultipleSum ==
  ASSUME NEW x \in Nat, NEW y \in Nat, NEW a \in Nat, a > 0,
         IsMultiple(x, a), IsMultiple(y, a)
  PROVE  IsMultiple(x + y, a)
<1>1. PICK j \in 0 .. x : x = j * a
  BY DEF IsMultiple
<1>2. PICK k \in 0 .. y : y = k * a
  BY DEF IsMultiple
<1>3. x + y = (j + k) * a /\ j + k \in 0 .. x + y
  BY <1>1, <1>2, SMT
<1> QED BY <1>3 DEF IsMultiple

RangePages(r) == IsMultiple(r.base, PageSize) /\ IsMultiple(r.ra, PageSize)

RangesInv ==
  /\ \A r \in ranges : RangeType(r) /\ RangePages(r)
  /\ RangesAgree

LEMMA ZeroMultiple ==
  ASSUME NEW a \in Nat
  PROVE  IsMultiple(0, a)
BY SMT DEF IsMultiple

LEMMA RangesInit == Init => RangesInv
BY ZeroMultiple, MmuAssumption
   DEF Init, RangesInv, RangeType, RangePages, RangesAgree

(* What one accepted map call adds.                                        *)
AddsRange(r) ==
  /\ RangeType(r) /\ RangePages(r)
  /\ ~AddStops(r)
  /\ ranges' = ranges \cup {r}

LEMMA AddedAgrees ==
  ASSUME RangesInv, NEW r, AddsRange(r)
  PROVE  RangesInv'
<1>1. ASSUME NEW m \in ranges, Overlaps(m, r) \/ Overlaps(r, m)
      PROVE  Word(m.ra - m.base) = Word(r.ra - r.base)
  <2>1. Overlaps(r, m)
    BY <1>1 DEF Overlaps
  <2>2. Inside(r, m) /\ Word(Word(r.base - m.base) + m.ra) = r.ra
    BY <2>1 DEF AddsRange, AddStops
  <2>3. RangeType(m) /\ RangeType(r)
    BY DEF RangesInv, AddsRange
  <2> QED BY <2>2, <2>3, MmuAssumption DEF Inside, RangeType, Word
<1>2. \A m, n \in ranges' : Overlaps(m, n) => Word(m.ra - m.base) = Word(n.ra - n.base)
  BY <1>1 DEF RangesInv, RangesAgree, AddsRange
<1>3. \A m \in ranges' : RangeType(m) /\ RangePages(m)
  BY DEF RangesInv, AddsRange
<1> QED BY <1>2, <1>3 DEF RangesInv, RangesAgree, RangeType, RangePages,
                          Overlaps, Word

LEMMA MapStep ==
  ASSUME NEW virt \in Virts, NEW phys \in Physs, NEW size \in Sizes,
         rom_mmu_call(virt, phys, size)
  PROVE  UNCHANGED ranges \/ \E r : AddsRange(r)
<1> DEFINE r == [base |-> virt,
                 limit |-> Word(Word(virt + ALIGN(size, PageSize)) - 1),
                 ra |-> phys]
<1>1. CASE UNCHANGED vars \/ Stop
  BY <1>1 DEF vars, Stop
<1>2. CASE ~(UNCHANGED vars \/ Stop)
  <2>1. /\ phys < PmemSize
        /\ IsMultiple(phys, PageSize) /\ IsMultiple(virt, PageSize)
        /\ ~AddStops(r)
        /\ ranges' = ranges \cup {r}
    BY <1>2 DEF rom_mmu_call, mmu_range_alloc
  <2>2. r.limit \in 0 .. WordMod - 1
    <3>1. size \in Nat /\ size < WordMod /\ virt \in 0 .. WordMod - 1
      BY MmuAssumption
    <3>2. ALIGN(size, PageSize) \in Nat /\ ALIGN(size, PageSize) <= size
      <4>1. size \div PageSize \in Nat /\ size % PageSize \in Nat
        BY <3>1, MmuAssumption, SMT
      <4>2. size = PageSize * (size \div PageSize) + (size % PageSize)
        BY <3>1, MmuAssumption, SMT
      <4> QED BY <3>1, <4>1, <4>2, MmuAssumption, SMT DEF ALIGN
    <3>3. PICK w \in 0 .. WordMod - 1 : w = Word(virt + ALIGN(size, PageSize))
      <4>1. Word(virt + ALIGN(size, PageSize)) \in 0 .. WordMod - 1
        BY <3>1, <3>2, MmuAssumption DEF Word
      <4> QED BY <4>1
    <3>4. Word(w - 1) \in 0 .. WordMod - 1
      BY MmuAssumption DEF Word
    <3> QED BY <3>3, <3>4
  <2>3. RangeType(r)
    <3>1. r.base \in 0 .. WordMod - 1 /\ r.ra \in 0 .. PmemSize - 1
      BY <2>1, MmuAssumption
    <3> QED BY <2>2, <3>1 DEF RangeType
  <2>4. RangePages(r)
    BY <2>1 DEF RangePages
  <2> HIDE DEF r
  <2> QED BY <2>1, <2>3, <2>4 DEF AddsRange
<1> QED BY <1>1, <1>2

LEMMA RangesStep == [Next]_vars => UNCHANGED ranges \/ \E r : AddsRange(r)
<1> SUFFICES ASSUME [Next]_vars PROVE UNCHANGED ranges \/ \E r : AddsRange(r)
  OBVIOUS
<1>1. CASE MmuMap
  BY <1>1, MapStep DEF MmuMap
<1>2. CASE ~MmuMap
  BY <1>2 DEF Next, vars, Touch, guest_fault, guest_map, Evict, SetMsr, guest_set_msr, Tlbie, MtSdr1,
              MtBat, MtSr, Pause, Cont, ToggleSs, Poke, Stop
<1> QED BY <1>1, <1>2

LEMMA RangesNext == RangesInv /\ [Next]_vars => RangesInv'
<1> SUFFICES ASSUME RangesInv, [Next]_vars PROVE RangesInv'
  OBVIOUS
<1>1. CASE UNCHANGED ranges
  BY <1>1 DEF RangesInv, RangesAgree
<1>2. CASE \E r : AddsRange(r)
  BY <1>2, AddedAgrees
<1> QED BY <1>1, <1>2, RangesStep

(* Whatever map calls a client makes, mmu_range_add lets in no two ranges  *)
(* that translate an address differently.                                  *)
THEOREM RangesAlwaysAgree == Spec => []RangesAgree
<1>1. RangesInv => RangesAgree
  BY DEF RangesInv
<1> QED BY <1>1, RangesInit, RangesNext, PTL DEF Spec

(* An address in a range with a given distance has one translation.        *)
LEMMA SameTranslation ==
  ASSUME NEW ea \in 0 .. WordMod - 1, NEW m, NEW n, RangeType(m), RangeType(n),
         m.base <= ea, n.base <= ea,
         Word(m.ra - m.base) = Word(n.ra - n.base)
  PROVE  Word(Word(ea - m.base) + m.ra) = Word(Word(ea - n.base) + n.ra)
BY MmuAssumption DEF RangeType, Word

LEMMA StableStep ==
  ASSUME RangesInv, [Next]_vars, NEW p \in Pages, RomTranslations(p) # {}
  PROVE  RomTranslations(p)' = RomTranslations(p)
<1>1. CASE UNCHANGED ranges
  BY <1>1 DEF RomTranslations, Find
<1>2. ASSUME NEW r, AddsRange(r)
      PROVE  RomTranslations(p)' = RomTranslations(p)
  <2>1. PICK m \in ranges : m.base <= p /\ p <= m.limit
    BY DEF RomTranslations, Find
  <2>2. p \in 0 .. WordMod - 1 /\ RangeType(m) /\ RangeType(r)
    BY <1>2 DEF Pages, RangesInv, AddsRange
  <2>3. RomTranslations(p)' =
          {Word(Word(p - n.base) + n.ra) : n \in {x \in ranges' : x.base <= p /\ p <= x.limit}}
    BY DEF RomTranslations, Find, Word
  <2>4. CASE r.base <= p /\ p <= r.limit
    <3>1. Overlaps(m, r)
      BY <2>1, <2>2, <2>4 DEF Overlaps, RangeType
    <3>2. Word(m.ra - m.base) = Word(r.ra - r.base)
      <4>1. RangesAgree' /\ m \in ranges' /\ r \in ranges'
        BY <1>2, AddedAgrees DEF RangesInv, AddsRange
      <4> QED BY <3>1, <4>1 DEF RangesAgree, Overlaps, Word
    <3>3. Word(Word(p - m.base) + m.ra) = Word(Word(p - r.base) + r.ra)
      BY <2>1, <2>2, <2>4, <3>2, SameTranslation
    <3> QED BY <1>2, <2>1, <2>3, <3>3 DEF AddsRange, RomTranslations, Find
  <2>5. CASE ~(r.base <= p /\ p <= r.limit)
    BY <1>2, <2>3, <2>5 DEF AddsRange, RomTranslations, Find
  <2> QED BY <2>4, <2>5
<1> QED BY <1>1, <1>2, RangesStep

(* A map call never changes a translation that was in force.               *)
THEOREM TranslationsNeverChange == Spec => TranslationsStable
<1>1. RangesInv /\ [Next]_vars =>
        [\A p \in Pages : RomTranslations(p) # {} =>
           RomTranslations(p)' = RomTranslations(p)]_vars
  BY StableStep
<1> QED BY <1>1, RangesInit, RangesNext, PTL DEF Spec, TranslationsStable

-----------------------------------------------------------------------------
(* Where guest_map gets its address from: a page of memory.                *)
LEMMA SlowBackmapPage ==
  ASSUME TypeOK, RangesInv, fault \in Pages, NEW gra \in SlowBackmap(fault), gra < PmemSize
  PROVE  gra \in 0 .. PmemSize - 1 /\ IsMultiple(gra, PageSize)
<1>0. fault \in 0 .. WordMod - 1 /\ IsMultiple(fault, PageSize)
  BY DEF Pages
<1>1. CASE ~MmuOn
  BY <1>0, <1>1 DEF SlowBackmap
<1>2. CASE MmuOn
  <2>1. PICK m \in ranges : /\ m.base <= fault /\ fault <= m.limit
                            /\ gra = Word(Word(fault - m.base) + m.ra)
    BY <1>2 DEF SlowBackmap, RomTranslations, Find
  <2>2. RangeType(m) /\ RangePages(m)
    BY DEF RangesInv
  <2>3. /\ m.base \in 0 .. WordMod - 1 /\ m.ra \in 0 .. PmemSize - 1
        /\ PageSize \in Nat /\ PageSize > 0 /\ WordMod \in Nat /\ PmemSize \in Nat
        /\ PmemSize < WordMod /\ IsMultiple(WordMod, PageSize)
    BY <2>2, MmuAssumption DEF RangeType
  <2>4. PICK d \in 0 .. WordMod - 1 : d = fault - m.base
    BY <1>0, <2>1, <2>3
  <2>5. IsMultiple(d, PageSize)
    BY <1>0, <2>1, <2>2, <2>3, <2>4, MultipleDifference DEF RangePages
  <2>6. IsMultiple(d + m.ra, PageSize)
    BY <2>2, <2>3, <2>4, <2>5, MultipleSum DEF RangePages
  <2>7. Word(d) = d
    BY <2>3, <2>4 DEF Word
  <2>8. CASE d + m.ra < WordMod
    <3>1. gra = d + m.ra
      BY <2>1, <2>3, <2>4, <2>7, <2>8 DEF Word
    <3> QED BY <2>3, <2>4, <2>6, <3>1
  <2>9. CASE ~(d + m.ra < WordMod)
    <3>1. gra = d + m.ra - WordMod
      BY <2>1, <2>3, <2>4, <2>7, <2>9 DEF Word
    <3>2. IsMultiple((d + m.ra) - WordMod, PageSize)
      BY <2>3, <2>4, <2>6, <2>9, MultipleDifference
    <3> QED BY <2>3, <2>4, <2>9, <3>1, <3>2
  <2> QED BY <2>8, <2>9
<1> QED BY <1>1, <1>2

MemoryInv == TypeOK /\ RangesInv /\ MappedInMemory

LEMMA MemoryInit == Init => MemoryInv
<1> SUFFICES ASSUME Init PROVE TypeOK /\ MappedInMemory
  BY RangesInit DEF MemoryInv
<1>1. map \in [Contexts -> [Pages -> 0 .. PmemSize - 1 \cup {NoPage}]]
  BY DEF Init
<1>2. MappedInMemory
  BY DEF Init, MappedInMemory
<1>3. \A r \in ranges : RangeType(r)
  BY RangesInit DEF RangesInv
<1> QED BY <1>1, <1>2, <1>3 DEF Init, TypeOK, Contexts, MSR_MMU_ON

LEMMA FaultMaps ==
  ASSUME MemoryInv, guest_fault
  PROVE  MemoryInv'
<1> USE DEF MemoryInv
<1>1. CASE Stop
  BY <1>1 DEF Stop, TypeOK, RangesInv, RangesAgree, MappedInMemory
<1>2. CASE /\ state' = "monitor"
           /\ UNCHANGED <<ranges, msr, magic, srT, ubat, vmm, map, fault, evictions, alive, poked>>
  BY <1>2 DEF TypeOK, RangesInv, RangesAgree, MappedInMemory
<1>3. ASSUME NEW gra \in SlowBackmap(fault), ~(gra >= PmemSize), state = "fault",
             map' = [map EXCEPT ![vmm][fault] = gra], state' = "guest",
             UNCHANGED <<ranges, msr, magic, srT, ubat, vmm, fault, evictions, alive, poked>>
      PROVE  MemoryInv'
  <2>1. fault \in Pages /\ vmm \in Contexts
    BY <1>3 DEF TypeOK
  <2>2. gra \in Int
    BY <2>1, MmuAssumption DEF SlowBackmap, RomTranslations, Find, RangesInv, RangeType,
                               Word, Pages
  <2>3. gra \in 0 .. PmemSize - 1 /\ IsMultiple(gra, PageSize)
    BY <1>3, <2>1, <2>2, SlowBackmapPage, MmuAssumption
  <2>4. map' \in [Contexts -> [Pages -> 0 .. PmemSize - 1 \cup {NoPage}]]
    BY <1>3, <2>1, <2>3 DEF TypeOK
  <2>5. MappedInMemory'
    BY <1>3, <2>1, <2>3, MmuAssumption DEF MappedInMemory, TypeOK
  <2> QED BY <1>3, <2>4, <2>5 DEF TypeOK, RangesInv, RangesAgree, RangeType
<1> QED BY <1>1, <1>2, <1>3 DEF guest_fault, guest_map

LEMMA MemoryNext == MemoryInv /\ [Next]_vars => MemoryInv'
<1> SUFFICES ASSUME MemoryInv, [Next]_vars PROVE MemoryInv'
  OBVIOUS
<1> USE DEF MemoryInv
<1>0. RangesInv'
  BY RangesNext
<1>1. CASE UNCHANGED vars
  BY <1>0, <1>1 DEF vars, TypeOK, MappedInMemory
<1>2. ASSUME NEW page \in Touched, Touch(page) PROVE MemoryInv'
  <2>1. page \in Pages
    BY MmuAssumption DEF Pages
  <2> QED BY <1>0, <1>2, <2>1 DEF Touch, TypeOK, MappedInMemory
<1>3. CASE guest_fault
  BY <1>3, FaultMaps
<1>4. CASE Evict
  <2>1. PICK c \in Contexts, p \in Touched : map' = [map EXCEPT ![c][p] = NoPage]
    BY <1>4 DEF Evict
  <2>2. p \in Pages
    BY MmuAssumption DEF Pages
  <2>3. map' \in [Contexts -> [Pages -> 0 .. PmemSize - 1 \cup {NoPage}]]
    BY <2>1, <2>2 DEF TypeOK
  <2>4. MappedInMemory'
    BY <2>1, <2>2 DEF MappedInMemory, TypeOK
  <2> QED BY <1>0, <1>4, <2>3, <2>4 DEF Evict, TypeOK
<1>5. ASSUME NEW m \in SUBSET MSR_MMU_ON, guest_set_msr(m) PROVE MemoryInv'
  BY <1>0, <1>5 DEF guest_set_msr, Stop, TypeOK, MappedInMemory, Contexts
<1>6. CASE SetMsr
  BY <1>5, <1>6 DEF SetMsr
<1>7. CASE ToggleSs
  BY <1>5, <1>7 DEF ToggleSs, TypeOK
<1>8. ASSUME guest_unmap_all \/ \E ea \in Pages : guest_unmap(ea)
      PROVE  /\ map' \in [Contexts -> [Pages -> 0 .. PmemSize - 1 \cup {NoPage}]]
             /\ MappedInMemory'
  BY <1>8 DEF guest_unmap_all, guest_unmap, TypeOK, MappedInMemory, Contexts
<1>9. CASE Tlbie
  <2>1. guest_unmap_all \/ \E ea \in Pages : guest_unmap(ea)
    BY <1>9, MmuAssumption DEF Tlbie, Pages
  <2> QED BY <1>0, <1>8, <1>9, <2>1 DEF Tlbie, TypeOK
<1>10. CASE MtSdr1
  <2>1. CASE guest_unmap_all
    BY <1>0, <1>8, <1>10, <2>1 DEF MtSdr1, TypeOK
  <2>2. CASE UNCHANGED map
    BY <1>0, <1>10, <2>2 DEF MtSdr1, TypeOK, MappedInMemory
  <2> QED BY <1>10, <2>1, <2>2 DEF MtSdr1
<1>11. CASE MtBat \/ MtSr \/ Pause \/ Cont \/ Poke
  BY <1>0, <1>11 DEF MtBat, MtSr, Pause, Cont, Poke, TypeOK, MappedInMemory
<1>12. CASE MmuMap
  <2>1. UNCHANGED <<msr, magic, vmm, map, fault, state, poked>> /\ alive' \in BOOLEAN
    BY <1>12, ZenonT(60) DEF MmuMap, rom_mmu_call, mmu_range_alloc, Stop, vars, TypeOK
  <2> QED BY <1>0, <2>1 DEF TypeOK, MappedInMemory, RangesInv, RangeType
<1> QED BY <1>1, <1>2, <1>3, <1>4, <1>6, <1>7, <1>9, <1>10, <1>11, <1>12 DEF Next

(* The state of guest.c keeps its types.                                   *)
THEOREM MmuTypes == Spec => []TypeOK
<1>1. MemoryInv => TypeOK
  BY DEF MemoryInv
<1> QED BY <1>1, MemoryInit, MemoryNext, PTL DEF Spec

(* No page outside guest memory is ever mapped, monitor writes included.   *)
THEOREM OnlyMemoryMapped == Spec => []MappedInMemory
<1>1. MemoryInv => MappedInMemory
  BY DEF MemoryInv
<1> QED BY <1>1, MemoryInit, MemoryNext, PTL DEF Spec

-----------------------------------------------------------------------------
(* Until the monitor's user pokes, what the VMM holds is what guest_fault  *)
(* would compute, and the context that runs is the one for MSR.            *)
SoundInv == MemoryInv /\ (~poked => ContextRight /\ MapSound)

LEMMA SoundInit == Init => SoundInv
<1> SUFFICES ASSUME Init PROVE ContextRight /\ MapSound
  BY MemoryInit DEF SoundInv
<1>1. ContextRight
  BY DEF Init, ContextRight, MmuOn
<1>2. MapSound
  BY DEF Init, MapSound, Contexts
<1> QED BY <1>1, <1>2

(* Eviction and unmapping only forget mappings.                            *)
Forgets ==
  \A c \in Contexts, p \in Pages : map'[c][p] \in {map[c][p], NoPage}

LEMMA ForgettingIsSound ==
  ASSUME MapSound, Forgets, UNCHANGED ranges, magic' = magic
  PROVE  MapSound'
<1>1. ASSUME NEW p \in Pages PROVE RomTranslations(p)' = RomTranslations(p)
  BY DEF RomTranslations, Find
<1>2. "mmu_on" \in Contexts /\ "mmu_off" \in Contexts
  BY DEF Contexts
<1> QED BY <1>1, <1>2 DEF MapSound, Forgets

LEMMA FaultIsSound ==
  ASSUME MemoryInv, MapSound, ContextRight, guest_fault
  PROVE  MapSound'
<1>0. MapSound /\ ContextRight /\ TypeOK
  BY DEF MemoryInv
<1>1. CASE UNCHANGED <<map, magic, ranges>>
  BY <1>0, <1>1, ForgettingIsSound DEF Forgets
<1>2. ASSUME NEW gra \in SlowBackmap(fault), state = "fault",
             map' = [map EXCEPT ![vmm][fault] = gra],
             UNCHANGED <<ranges, magic>>
      PROVE  MapSound'
  <2>1. fault \in Pages
    BY <1>0, <1>2 DEF TypeOK
  <2>2. \A p \in Pages : RomTranslations(p)' = RomTranslations(p)
    BY <1>2 DEF RomTranslations, Find
  <2>3. CASE MmuOn
    <3>1. vmm = "mmu_on" /\ magic /\ gra \in RomTranslations(fault)
      BY <1>0, <1>2, <2>3 DEF ContextRight, SlowBackmap
    <3> QED BY <1>0, <1>2, <2>1, <2>2, <3>1 DEF MapSound, TypeOK, Contexts
  <2>4. CASE ~MmuOn
    <3>1. vmm = "mmu_off" /\ gra = fault
      BY <1>0, <1>2, <2>4 DEF ContextRight, SlowBackmap
    <3> QED BY <1>0, <1>2, <2>1, <2>2, <3>1 DEF MapSound, TypeOK, Contexts
  <2> QED BY <2>3, <2>4
<1> QED BY <1>1, <1>2 DEF guest_fault, guest_map, Stop

LEMMA PokedStays == MemoryInv /\ [Next]_vars /\ ~poked' => ~poked /\ ~Poke
<1> SUFFICES ASSUME [Next]_vars, ~poked' PROVE ~poked /\ ~Poke
  OBVIOUS
<1>1. CASE MmuMap
  BY <1>1 DEF MmuMap, rom_mmu_call, mmu_range_alloc, Stop, vars, Poke
<1>2. CASE ~MmuMap
  BY <1>2 DEF Next, vars, Touch, guest_fault, guest_map, Evict, SetMsr, guest_set_msr, Tlbie, MtSdr1,
              MtBat, MtSr, Pause, Cont, ToggleSs, Poke, Stop
<1> QED BY <1>1, <1>2

LEMMA SoundNext == SoundInv /\ [Next]_vars => SoundInv'
<1> SUFFICES ASSUME SoundInv, [Next]_vars, ~poked' PROVE ContextRight' /\ MapSound'
  BY MemoryNext DEF SoundInv
<1>0. /\ MapSound /\ ContextRight /\ MemoryInv /\ TypeOK /\ RangesInv
      /\ MemoryInv' /\ ~Poke
  BY PokedStays, MemoryNext DEF SoundInv, MemoryInv
<1>1. CASE UNCHANGED <<map, magic, ranges, msr, vmm>>
  BY <1>0, <1>1, ForgettingIsSound DEF Forgets, ContextRight, MmuOn
<1>2. CASE guest_fault
  <2>1. UNCHANGED <<msr, vmm>>
    BY <1>2 DEF guest_fault, guest_map, Stop
  <2> QED BY <1>0, <1>2, <2>1, FaultIsSound DEF ContextRight, MmuOn
<1>3. CASE Evict
  <2>1. Forgets
    <3>1. PICK c \in Contexts, p \in Touched : map' = [map EXCEPT ![c][p] = NoPage]
      BY <1>3 DEF Evict
    <3> QED BY <1>0, <3>1 DEF Forgets, TypeOK
  <2>2. UNCHANGED <<magic, ranges, msr, vmm>>
    BY <1>3 DEF Evict
  <2> QED BY <1>0, <2>1, <2>2, ForgettingIsSound DEF ContextRight, MmuOn
<1>4. ASSUME NEW m \in SUBSET MSR_MMU_ON, guest_set_msr(m)
      PROVE  ContextRight' /\ MapSound'
  <2>1. UNCHANGED <<magic, ranges, map>>
    BY <1>4 DEF guest_set_msr, Stop
  <2>2. MapSound'
    BY <1>0, <2>1, ForgettingIsSound DEF Forgets
  <2>3. ContextRight'
    <3>1. CASE Cardinality(m) = 1
      BY <1>0, <1>4, <3>1 DEF guest_set_msr, Stop, ContextRight, MmuOn
    <3>2. CASE Cardinality(m) # 1
      <4>1. m \in {{}, MSR_MMU_ON}
        <5>1. m = {} \/ m = MSR_MMU_ON \/ m = {"IR"} \/ m = {"DR"}
          BY DEF MSR_MMU_ON
        <5> QED BY <3>2, <5>1, FS_Singleton
      <4> QED BY <1>4, <3>2, <4>1 DEF guest_set_msr, ContextRight, MmuOn, MSR_MMU_ON
    <3> QED BY <3>1, <3>2
  <2> QED BY <2>2, <2>3
<1>5. CASE SetMsr \/ ToggleSs
  BY <1>0, <1>4, <1>5 DEF SetMsr, ToggleSs, TypeOK
<1>6. ASSUME guest_unmap_all \/ \E ea : guest_unmap(ea) PROVE Forgets
  BY <1>0, <1>6 DEF guest_unmap_all, guest_unmap, Forgets, TypeOK, Contexts
<1>7. CASE Tlbie
  <2>1. UNCHANGED <<magic, ranges, msr, vmm>> /\ Forgets
    BY <1>6, <1>7 DEF Tlbie
  <2> QED BY <1>0, <2>1, ForgettingIsSound DEF ContextRight, MmuOn
<1>8. CASE MtSdr1
  <2>0. UNCHANGED <<ranges, msr, vmm>>
    BY <1>8 DEF MtSdr1
  <2>1. CASE magic /\ ~magic'
    <3>1. map' = [map EXCEPT !["mmu_on"] = [p \in Pages |-> NoPage]]
      BY <1>8, <2>1 DEF MtSdr1, guest_unmap_all
    <3> QED BY <1>0, <2>0, <3>1 DEF MapSound, TypeOK, Contexts, ContextRight, MmuOn
  <2>2. CASE ~magic /\ magic'
    <3>1. map' = map
      BY <1>8, <2>2 DEF MtSdr1
    <3>2. \A p \in Pages : map["mmu_on"][p] = NoPage
      BY <1>0, <2>2 DEF MapSound
    <3> QED BY <1>0, <2>0, <3>1, <3>2 DEF MapSound, ContextRight, MmuOn
  <2>3. CASE magic' = magic
    <3>1. map' = map
      BY <1>8, <2>3 DEF MtSdr1
    <3> QED BY <1>0, <2>0, <2>3, <3>1, ForgettingIsSound DEF Forgets, ContextRight, MmuOn
  <2>4. magic \in BOOLEAN /\ magic' \in BOOLEAN
    BY <1>0 DEF MemoryInv, TypeOK
  <2> QED BY <2>1, <2>2, <2>3, <2>4
<1>9. CASE MmuMap
  <2>1. UNCHANGED <<msr, vmm, map, magic>>
    BY <1>9 DEF MmuMap, rom_mmu_call, mmu_range_alloc, Stop, vars
  <2>2. \A p \in Pages : RomTranslations(p) # {} =>
          RomTranslations(p)' = RomTranslations(p)
    BY <1>0, StableStep
  <2> QED BY <1>0, <2>1, <2>2 DEF MapSound, ContextRight, MmuOn
<1> QED BY <1>1, <1>2, <1>3, <1>5, <1>7, <1>8, <1>9
        DEF Next, vars, Touch, MtBat, MtSr, Pause, Cont, Poke

(* As long as the monitor's user has not written msr or sdr1, every mapping*)
(* the VMM holds is the current translation, and the guest runs in the     *)
(* context of its MSR.                                                     *)
THEOREM MappingsStaySound == Spec => []MappingSound
<1>1. SoundInv => MappingSound
  BY DEF SoundInv, MappingSound
<1> QED BY <1>1, SoundInit, SoundNext, PTL DEF Spec
=============================================================================
