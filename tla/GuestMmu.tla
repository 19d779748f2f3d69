------------------------------ MODULE GuestMmu ------------------------------
(***************************************************************************)
(* Address translation for the guest of src/guest.c.  Two VMM contexts, one*)
(* per setting of MSR IR/DR, hold page mappings that Mach's VMM makes on   *)
(* request and may evict at any time.  guest_fault computes a missing      *)
(* mapping; the translation is the list rom_mmu_ranges, extended by the    *)
(* "map" method of /mmu (src/rom.c, src/mmu_ranges.c), for as long as SDR1 *)
(* holds SDR1_MAGIC_ROM_MODE.                                              *)
(*                                                                         *)
(* Addresses are uint32_t, WordMod stands for 2^32.  alive is FALSE once a *)
(* BUG_ON has aborted the program.                                         *)
(***************************************************************************)
EXTENDS Words, FiniteSets

CONSTANTS
  WordMod,       \* 2^32
  PageSize,      \* PAGE_SIZE
  PmemSize,      \* pmem_size()
  BlockSize,     \* what a BAT of the 601 matches on, 128K
  SegmentSize,   \* what one segment register covers, 256M
  Touched,       \* the pages the guest touches
  Virts,         \* the addresses and sizes the client maps
  Physs,
  Sizes,
  Bats,          \* the BAT registers, and the block numbers written to them
  Blocks,
  MaxEvictions,  \* bound of the model: mappings the VMM drops on its own
  MaxRanges,     \* bound of the model: entries of rom_mmu_ranges
  MonitorPokes   \* whether the user of the monitor writes msr and sdr1

ASSUME MmuAssumption ==
  /\ WordMod \in Nat /\ PageSize \in Nat \ {0, 1} /\ PmemSize \in Nat \ {0}
  /\ BlockSize \in Nat \ {0} /\ SegmentSize \in Nat \ {0}
  /\ PmemSize < WordMod
  /\ IsMultiple(PmemSize, PageSize) /\ IsMultiple(WordMod, PageSize)
  /\ Virts \subseteq 0 .. WordMod - 1 /\ Physs \subseteq 0 .. WordMod - 1
  /\ Sizes \subseteq 0 .. WordMod - 1
  /\ Touched \subseteq {p \in 0 .. WordMod - 1 : IsMultiple(p, PageSize)}
  /\ MonitorPokes \in BOOLEAN

VARIABLES
  ranges,     \* rom_mmu_ranges, a set of [base, limit, ra]
  msr,        \* the bits of guest->msr that matter here
  magic,      \* guest->sdr1 = SDR1_MAGIC_ROM_MODE
  srT,        \* the segments whose register has SR_T set
  ubat,       \* the block number in the upper half of each BAT
  vmm,        \* guest->vmm, the context that runs
  map,        \* the VMM's mappings: context, page, address in pmem
  fault,      \* the page the guest waits for
  state,      \* "guest" runs, "fault" in guest_fault, "monitor" waits
  evictions,
  alive,
  poked       \* history: the monitor's user has written msr or sdr1

vars == <<ranges, msr, magic, srT, ubat, vmm, map, fault, state, evictions, alive, poked>>

-----------------------------------------------------------------------------
(* A word from an integer in (-2^32, 2^33): sums and differences of words. *)
Word(x) ==
  IF x < 0 THEN x + WordMod ELSE IF x >= WordMod THEN x - WordMod ELSE x

Pages == {p \in 0 .. WordMod - 1 : IsMultiple(p, PageSize)}

NoPage == -1

MSR_MMU_ON == {"IR", "DR"}

MmuOn == msr = MSR_MMU_ON

Contexts == {"mmu_on", "mmu_off"}

(* mmu_range_find returns the first range of the list with ea in it; here  *)
(* it is any such range, RangesAgree says that it does not matter which.   *)
Find(ea) == {m \in ranges : m.base <= ea /\ ea <= m.limit}

(* rom_fault                                                               *)
RomTranslations(ea) == {Word(Word(ea - m.base) + m.ra) : m \in Find(ea)}

(* guest_bat_fault: masked with SR_T, 1 << 31, the register is compared    *)
(* with 1.  A hit is a BUG_ON, so the result is always ERR_UNSUPPORTED.    *)
SrAndT(ea) == IF ea \div SegmentSize \in srT THEN WordMod \div 2 ELSE 0

BatStops(ea) ==
  /\ SrAndT(ea) # 1
  /\ \E i \in Bats : ubat[i] = ea \div BlockSize

(* guest_backmap_ex without its fast path: the addresses it may find.      *)
SlowBackmap(ea) ==
  IF ~MmuOn THEN {ea} \cap 0 .. PmemSize - 1
            ELSE IF magic THEN RomTranslations(ea) ELSE {}

SlowBackmapStops(ea) == MmuOn /\ ~magic /\ BatStops(ea)

Stop == alive' = FALSE /\ UNCHANGED <<ranges, msr, magic, srT, ubat, vmm, map, fault, state, evictions, poked>>

Init ==
  /\ ranges = {[base |-> 0, limit |-> PmemSize - 1, ra |-> 0]}
  /\ msr = MSR_MMU_ON /\ vmm = "mmu_on"
  /\ magic = TRUE
  /\ srT = {}
  /\ ubat = [i \in Bats |-> 0]
  /\ map = [c \in Contexts |-> [p \in Pages |-> NoPage]]
  /\ fault = NoPage
  /\ state = "guest"
  /\ evictions = 0
  /\ alive = TRUE
  /\ poked = FALSE

-----------------------------------------------------------------------------
(* The guest runs (kVmmExecuteVM) and touches a page; the instruction is   *)
(* retried when the fault has been handled.                                *)
Touch(page) ==
  /\ alive /\ state = "guest" /\ fault \in {NoPage, page}
  /\ IF map[vmm][page] # NoPage
       THEN fault' = NoPage /\ UNCHANGED state
       ELSE fault' = page /\ state' = "fault"
  /\ UNCHANGED <<ranges, msr, magic, srT, ubat, vmm, map, evictions, alive, poked>>

(* guest_fault that always fills the mmu_on context, and one that maps     *)
(* whatever address the translation gave.                                  *)
guest_fault_MapOn ==
  /\ alive /\ state = "fault"
  /\ ~SlowBackmapStops(fault)
  /\ \E gra \in SlowBackmap(fault) : map' = [map EXCEPT !["mmu_on"][fault] = gra]
  /\ state' = "guest"
  /\ UNCHANGED <<ranges, msr, magic, srT, ubat, vmm, fault, evictions, alive, poked>>

guest_fault_Unbounded ==
  /\ alive /\ state = "fault"
  /\ ~SlowBackmapStops(fault)
  /\ \E gra \in SlowBackmap(fault) : map' = [map EXCEPT ![vmm][fault] = gra]
  /\ state' = "guest"
  /\ UNCHANGED <<ranges, msr, magic, srT, ubat, vmm, fault, evictions, alive, poked>>

(* kVmmMapPage into the context that runs.  Its failure, like any of       *)
(* guest_fault, enters the monitor.                                        *)
guest_map(host_address, ea) ==
  \/ map' = [map EXCEPT ![vmm][ea] = host_address] /\ state' = "guest"
  \/ UNCHANGED map /\ state' = "monitor"

guest_fault ==
  /\ alive /\ state = "fault"
  /\ \/ /\ SlowBackmapStops(fault)
        /\ Stop
     \/ /\ ~SlowBackmapStops(fault)
        /\ SlowBackmap(fault) = {}
        /\ state' = "monitor"
        /\ UNCHANGED <<ranges, msr, magic, srT, ubat, vmm, map, fault, evictions, alive, poked>>
     \/ \E gra \in SlowBackmap(fault) :
          IF gra >= PmemSize   \* pmem_ha
            THEN Stop
            ELSE /\ guest_map(gra, fault)
                 /\ UNCHANGED <<ranges, msr, magic, srT, ubat, vmm, fault, evictions, alive, poked>>

(* The VMM drops a mapping on its own (guest_backmap_ex, "may have gotten  *)
(* evicted").                                                              *)
Evict ==
  /\ alive /\ evictions < MaxEvictions
  /\ \E c \in Contexts, p \in Touched :
       /\ map[c][p] # NoPage
       /\ map' = [map EXCEPT ![c][p] = NoPage]
  /\ evictions' = evictions + 1
  /\ UNCHANGED <<ranges, msr, magic, srT, ubat, vmm, fault, state, alive, poked>>

-----------------------------------------------------------------------------
(* guest_set_msr and guest_set_vmm, as far as translation goes.            *)
guest_set_msr(m) ==
  IF Cardinality(m) = 1
    THEN Stop
    ELSE /\ msr' = m
         /\ vmm' = IF m = {} THEN "mmu_off" ELSE "mmu_on"
         /\ UNCHANGED <<ranges, magic, srT, ubat, map, fault, state, evictions, alive, poked>>

guest_unmap_all == map' = [map EXCEPT !["mmu_on"] = [p \in Pages |-> NoPage]]

guest_unmap(ea) == map' = [map EXCEPT !["mmu_on"][ALIGN(ea, PageSize)] = NoPage]

Idle == alive /\ state = "guest" /\ fault = NoPage

(* guest_emulate: mtmsr and rfi                                            *)
SetMsr == Idle /\ \E m \in SUBSET MSR_MMU_ON : guest_set_msr(m)

(* guest_emulate: tlbie, followed by sync or not                           *)
Tlbie ==
  /\ Idle
  /\ guest_unmap_all \/ \E ea \in Touched : guest_unmap(ea)
  /\ UNCHANGED <<ranges, msr, magic, srT, ubat, vmm, fault, state, evictions, alive, poked>>

MtSdr1_NoUnmap ==
  /\ Idle
  /\ magic' \in BOOLEAN
  /\ UNCHANGED <<ranges, msr, srT, ubat, vmm, map, fault, state, evictions, alive, poked>>

(* guest_emulate: mtspr to SDR1                                            *)
MtSdr1 ==
  /\ Idle
  /\ \E to \in BOOLEAN :
       /\ IF magic /\ ~to THEN guest_unmap_all ELSE UNCHANGED map
       /\ magic' = to
  /\ UNCHANGED <<ranges, msr, srT, ubat, vmm, fault, state, evictions, alive, poked>>

(* guest_emulate: mtspr to an upper BAT, mtsr                              *)
MtBat ==
  /\ Idle
  /\ \E i \in Bats, block \in Blocks : ubat' = [ubat EXCEPT ![i] = block]
  /\ UNCHANGED <<ranges, msr, magic, srT, vmm, map, fault, state, evictions, alive, poked>>

MtSr ==
  /\ Idle
  /\ \E page \in Touched :
       LET seg == page \div SegmentSize
       IN  srT' \in {srT \cup {seg}, srT \ {seg}}
  /\ UNCHANGED <<ranges, msr, magic, ubat, vmm, map, fault, state, evictions, alive, poked>>

-----------------------------------------------------------------------------
mmu_range_alloc(base, limit, ra) == [base |-> base, limit |-> limit, ra |-> ra]

(* mmu_range_add: a range inside another must translate alike, any other   *)
(* overlap is refused; refusal is a BUG_ON.  The scan stops at the first   *)
(* range above the new one; the list is sorted, so none above it overlaps. *)
Inside(r, m) == m.base <= r.base /\ r.limit <= m.limit

Overlaps(r, m) == m.base <= r.limit /\ r.base <= m.limit

AddStops_AnyInside(r) ==
  \/ r.base >= r.limit
  \/ \E m \in ranges : ~Inside(r, m) /\ Overlaps(r, m)

AddStops_AnyOverlap(r) ==
  \/ r.base >= r.limit
  \/ \E m \in ranges : Inside(r, m) /\ Word(Word(r.base - m.base) + m.ra) # r.ra

AddStops(r) ==
  \/ r.base >= r.limit
  \/ \E m \in ranges :
       IF Inside(r, m) THEN Word(Word(r.base - m.base) + m.ra) # r.ra
                       ELSE Overlaps(r, m)

(* rom_mmu_call: "map" of virt, phys and size.  Arguments that cannot be   *)
(* read change nothing, a mode other than -1 or -2 is a BUG_ON.            *)
rom_mmu_call(virt, phys, size) ==
  LET r == mmu_range_alloc(virt, Word(Word(virt + ALIGN(size, PageSize)) - 1), phys)
  IN  \/ Stop
      \/ /\ phys = virt \/ phys >= PmemSize
         /\ UNCHANGED vars
      \/ /\ phys # virt /\ phys < PmemSize
         /\ \/ ~IsMultiple(phys, PageSize) \/ ~IsMultiple(virt, PageSize)
            \/ AddStops(r)
         /\ Stop
      \/ /\ phys # virt /\ phys < PmemSize
         /\ IsMultiple(phys, PageSize) /\ IsMultiple(virt, PageSize)
         /\ ~AddStops(r)
         /\ ranges' = ranges \cup {r}
         /\ UNCHANGED <<msr, magic, srT, ubat, vmm, map, fault, state, evictions, alive, poked>>

MmuMap ==
  /\ Idle
  /\ Cardinality(ranges) < MaxRanges
  /\ \E virt \in Virts, phys \in Physs, size \in Sizes : rom_mmu_call(virt, phys, size)

-----------------------------------------------------------------------------
(* The monitor: cont; ss, which passes guest->msr through guest_set_msr    *)
(* again; and the msr and sdr1 commands, which write the words and nothing *)
(* else.  The monitor is also reached by its own means (pause).            *)
Pause ==
  /\ Idle
  /\ state' = "monitor"
  /\ UNCHANGED <<ranges, msr, magic, srT, ubat, vmm, map, fault, evictions, alive, poked>>

Cont ==
  /\ alive /\ state = "monitor"
  /\ state' = "guest"
  /\ UNCHANGED <<ranges, msr, magic, srT, ubat, vmm, map, fault, evictions, alive, poked>>

ToggleSs == alive /\ state = "monitor" /\ guest_set_msr(msr)

Poke ==
  /\ MonitorPokes
  /\ alive /\ state = "monitor"
  /\ \/ msr' \in SUBSET MSR_MMU_ON /\ UNCHANGED magic
     \/ magic' \in BOOLEAN /\ UNCHANGED msr
  /\ poked' = TRUE
  /\ UNCHANGED <<ranges, srT, ubat, vmm, map, fault, state, evictions, alive>>

Next ==
  \/ \E page \in Touched : Touch(page)
  \/ guest_fault
  \/ Evict
  \/ SetMsr \/ Tlbie \/ MtSdr1 \/ MtBat \/ MtSr
  \/ MmuMap
  \/ Pause \/ Cont \/ ToggleSs \/ Poke

Spec == Init /\ [][Next]_vars

(* The main loop of pvp.c handles every exit and runs the guest again, and *)
(* the guest retries the instruction that faulted.                         *)
Retry == fault # NoPage /\ Touch(fault)

FairSpec == Spec /\ WF_vars(guest_fault) /\ WF_vars(Retry)

-----------------------------------------------------------------------------
RangeType(r) ==
  /\ r.base \in 0 .. WordMod - 1 /\ r.limit \in 0 .. WordMod - 1
  /\ r.ra \in 0 .. PmemSize - 1

TypeOK ==
  /\ \A r \in ranges : RangeType(r)
  /\ msr \subseteq MSR_MMU_ON
  /\ magic \in BOOLEAN
  /\ vmm \in Contexts
  /\ map \in [Contexts -> [Pages -> 0 .. PmemSize - 1 \cup {NoPage}]]
  /\ fault \in Pages \cup {NoPage}
  /\ state \in {"guest", "fault", "monitor"}
  /\ (state = "fault" => fault \in Pages)
  /\ alive \in BOOLEAN
  /\ poked \in BOOLEAN

(* Ranges that share an address translate it alike, so the first one that  *)
(* mmu_range_find meets is as good as any, whatever order, nesting and     *)
(* repetition of map calls built the list.                                 *)
RangesAgree ==
  \A m, n \in ranges :
    Overlaps(m, n) => Word(m.ra - m.base) = Word(n.ra - n.base)

MapSound ==
  \A p \in Pages :
    /\ map["mmu_off"][p] \in {p, NoPage}
    /\ map["mmu_on"][p] # NoPage => magic /\ map["mmu_on"][p] \in RomTranslations(p)

ContextRight == msr \in {{}, MSR_MMU_ON} /\ vmm = (IF MmuOn THEN "mmu_on" ELSE "mmu_off")

(* A mapping the VMM still holds is the one guest_fault would compute now: *)
(* no mapping of one setting of SDR1 or MSR is seen under another, and the *)
(* fast path of guest_backmap_ex answers like its slow path; and the       *)
(* context that runs is the one for the guest's MSR (guest_set_msr); as    *)
(* long as the monitor's user has not written msr or sdr1 (mon.c).         *)
MappingSound == ~poked => MapSound /\ ContextRight

(* Every mapping lies in guest memory, on a page: the guest never reaches  *)
(* host memory outside pmem, even with registers the monitor user wrote.   *)
MappedInMemory ==
  \A c \in Contexts, p \in Pages :
    map[c][p] # NoPage => map[c][p] < PmemSize /\ IsMultiple(map[c][p], PageSize)

(* A map call adds translations and never changes one that was in force,   *)
(* which is what lets it leave the VMM's mappings alone.                   *)
TranslationsStable ==
  [][\A p \in Pages : RomTranslations(p) # {} =>
       RomTranslations(p)' = RomTranslations(p)]_vars

(* A fault is resolved: after finitely many evictions the page is mapped   *)
(* in the context that runs and the guest goes on, or the monitor has it,  *)
(* or a BUG_ON.                                                            *)
FaultResolved == state = "fault" ~> fault = NoPage \/ state = "monitor" \/ ~alive

(* guest.c: "BAT on 601 is enabled only when the matching SR T = 0": the   *)
(* guest is not stopped over a BAT in a segment whose T is set.            *)
BatHonoursT ==
  [][state = "fault" /\ ~magic /\ alive /\ ~alive'
       => fault \div SegmentSize \notin srT]_vars
=============================================================================
