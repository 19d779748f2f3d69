--------------------------- MODULE GuestContexts ----------------------------
(***************************************************************************)
(* The registers of the guest in src/guest.c.  They live in the state page *)
(* of the VMM context that runs, guest->regs; guest_set_vmm copies the page*)
(* when MSR IR/DR switch contexts, and an instruction that was emulated    *)
(* advances the PC after that.  guest->mon_msr holds the bits the monitor  *)
(* forces on, which the guest must not see.                                *)
(*                                                                         *)
(* One general register stands for all, and of memory only the word that a *)
(* lock sequence has just stored is kept.  alive is FALSE once a BUG_ON has*)
(* aborted the program, held is TRUE while the monitor has the guest.      *)
(***************************************************************************)
EXTENDS FiniteSets

CONSTANTS
  Words,    \* what a register holds, as the MSR bits it has set
  Succ,     \* the address of the next instruction, pc + 4
  Little    \* whether the program was started with -L

Bits == {"IR", "DR", "SE", "LE"}

MSR_MMU_ON == {"IR", "DR"}

ASSUME WordsAssumption ==
  /\ Words \subseteq SUBSET Bits
  /\ {} \in Words /\ MSR_MMU_ON \in Words
  /\ Succ \in [Words -> Words]
  /\ Little \in BOOLEAN

VARIABLES
  page,     \* vmm_proc_state of each context: its GPR, PC and MSR
  vmm,      \* guest->vmm, the context that runs
  msr,      \* guest->msr
  mon_msr,  \* guest->mon_msr
  srr0, srr1,
  sprg0,    \* guest->sprg[0]
  stored,   \* the word guest_emulate has just stored, or NoStore
  held,
  alive,
  pending   \* history: the user wrote guest->msr, guest_set_msr has yet to follow

vars == <<page, vmm, msr, mon_msr, srr0, srr1, sprg0, stored, held, alive, pending>>

NoStore == {"no store"}

Contexts == {"mmu_on", "mmu_off"}

(* guest_init and the end of rom_init: the entry point and the arguments.  *)
Init ==
  /\ mon_msr = IF Little THEN {"LE"} ELSE {}
  /\ \E entry \in Words :
       page = [c \in Contexts |->
                 IF c = "mmu_on"
                   THEN [gpr |-> {}, pc |-> entry, msr |-> MSR_MMU_ON \cup mon_msr]
                   ELSE [gpr |-> {}, pc |-> {}, msr |-> {}]]
  /\ vmm = "mmu_on"
  /\ msr = MSR_MMU_ON
  /\ srr0 = {} /\ srr1 = {} /\ sprg0 = {}
  /\ stored = NoStore
  /\ held = FALSE /\ alive = TRUE /\ pending = FALSE

-----------------------------------------------------------------------------
(* Variants of the definitions below, for the properties to tell apart.    *)
SetVmm_NoCopy(c) == page

SetMsr_Plain(m, c) == [page EXCEPT ![c] = [page[vmm] EXCEPT !.msr = m]]

(* guest_set_vmm: the pages after a switch to context c.                   *)
SetVmm(c) == [page EXCEPT ![c] = page[vmm]]

SetMsr_Sticky(m, c) == [SetVmm(c) EXCEPT ![c].msr = @ \cup m \cup mon_msr]

ContextOf(m) == IF MSR_MMU_ON \cap m # {} THEN "mmu_on" ELSE "mmu_off"

(* guest_set_msr                                                           *)
SetMsr(m, c) == [SetVmm(c) EXCEPT ![c].msr = m \cup mon_msr]

Inconsistent(m) == Cardinality(MSR_MMU_ON \cap m) = 1

Stop ==
  alive' = FALSE /\ UNCHANGED <<page, vmm, msr, mon_msr, srr0, srr1, sprg0, held, pending>>

R == page[vmm].gpr
PC == page[vmm].pc

(* guest->regs written, the PC advanced after it.                          *)
Put(r) == page' = [page EXCEPT ![vmm].gpr = r, ![vmm].pc = Succ[PC]]

Guest == alive /\ ~held

-----------------------------------------------------------------------------
(* kVmmExecuteVM: instructions run until the VMM returns, after the first  *)
(* one when SE is set (kVmmReturnTraceException, which pvp.c does not      *)
(* handle).  The VMM leaks the MSR it used into the page.                  *)
Run ==
  /\ Guest
  /\ \E r \in Words, at \in Words :
       page' = [page EXCEPT ![vmm] =
                  [gpr |-> r, pc |-> at, msr |-> @.msr \cup {"IR", "DR", "PR"}]]
  /\ held' = ("SE" \in page[vmm].msr)
  /\ UNCHANGED <<vmm, msr, mon_msr, srr0, srr1, sprg0, alive, pending>>

(* rom_call, when it returns to the guest.                                 *)
rom_call ==
  /\ Guest
  /\ \E r \in Words, lr \in Words : page' = [page EXCEPT ![vmm].gpr = r, ![vmm].pc = lr]
  /\ UNCHANGED <<vmm, msr, mon_msr, srr0, srr1, sprg0, held, alive, pending>>

(* guest_emulate, by instruction.                                          *)
mtmsr ==
  /\ Guest
  /\ LET c == ContextOf(R)
     IN  IF Inconsistent(R)
           THEN Stop
           ELSE /\ page' = [SetMsr(R, c) EXCEPT ![c].pc = Succ[PC]]
                /\ vmm' = c /\ msr' = R /\ pending' = FALSE
                /\ UNCHANGED <<mon_msr, srr0, srr1, sprg0, held, alive>>

rfi ==
  /\ Guest
  /\ LET c == ContextOf(srr1)
     IN  IF Inconsistent(srr1)
           THEN Stop
           ELSE /\ page' = [SetMsr(srr1, c) EXCEPT ![c].pc = srr0]
                /\ vmm' = c /\ msr' = srr1 /\ pending' = FALSE
                /\ UNCHANGED <<mon_msr, srr0, srr1, sprg0, held, alive>>

mfmsr == Guest /\ Put(msr) /\ UNCHANGED <<vmm, msr, mon_msr, srr0, srr1, sprg0, held, alive, pending>>

mfspr ==
  /\ Guest
  /\ Put(srr0) \/ Put(srr1) \/ Put(sprg0)
  /\ UNCHANGED <<vmm, msr, mon_msr, srr0, srr1, sprg0, held, alive, pending>>

mtspr ==
  /\ Guest
  /\ \/ srr0' = R /\ UNCHANGED <<srr1, sprg0>>
     \/ srr1' = R /\ UNCHANGED <<srr0, sprg0>>
     \/ sprg0' = R /\ UNCHANGED <<srr0, srr1>>
  /\ Put(R)
  /\ UNCHANGED <<vmm, msr, mon_msr, held, alive, pending>>

(* A lock sequence, known by its instructions: mfsprg of SPRG0, bne, stwcx.*)
(* of the register that was read, bne, isync.  It is replaced by a store of*)
(* SPRG0, which is skipped over if its page is not mapped; the register is *)
(* not written.  The first sequence is ten instructions long.              *)
Five(at) == Succ[Succ[Succ[Succ[Succ[at]]]]]

lock_sequence ==
  /\ Guest
  /\ stored' \in {sprg0, NoStore}
  /\ page' \in {[page EXCEPT ![vmm].pc = Five(PC)], [page EXCEPT ![vmm].pc = Five(Five(PC))]}
  /\ UNCHANGED <<vmm, msr, mon_msr, srr0, srr1, sprg0, held, alive, pending>>

(* An instruction guest_emulate does not know, a call rom_call refuses.    *)
Unhandled ==
  /\ Guest
  /\ held' = TRUE
  /\ UNCHANGED <<page, vmm, msr, mon_msr, srr0, srr1, sprg0, alive, pending>>

-----------------------------------------------------------------------------
cont ==
  /\ alive /\ held
  /\ held' = FALSE
  /\ UNCHANGED <<page, vmm, msr, mon_msr, srr0, srr1, sprg0, alive, pending>>

(* guest_toggle_ss, which calls guest_set_msr for the MSR it finds.        *)
Toggled == IF "SE" \in mon_msr THEN mon_msr \ {"SE"} ELSE mon_msr \cup {"SE"}

ss ==
  /\ alive /\ held
  /\ LET c == ContextOf(msr)
     IN  IF Inconsistent(msr)
           THEN Stop
           ELSE /\ mon_msr' = Toggled
                /\ page' = [SetVmm(c) EXCEPT ![c].msr = msr \cup Toggled]
                /\ vmm' = c /\ pending' = FALSE
                /\ UNCHANGED <<msr, srr0, srr1, sprg0, held, alive>>

(* picol_reg: a register of the running context written, or guest->msr and *)
(* nothing else.                                                           *)
reg ==
  /\ alive /\ held
  /\ \E w \in Words :
       \/ page' = [page EXCEPT ![vmm].gpr = w] /\ UNCHANGED <<msr, pending>>
       \/ page' = [page EXCEPT ![vmm].pc = w] /\ UNCHANGED <<msr, pending>>
       \/ msr' = w /\ pending' = TRUE /\ UNCHANGED page
  /\ UNCHANGED <<vmm, mon_msr, srr0, srr1, sprg0, held, alive>>

Quiet ==
  \/ Run \/ rom_call
  \/ mtmsr \/ rfi \/ mfmsr \/ mfspr \/ mtspr \/ Unhandled
  \/ cont \/ ss \/ reg

Next == (Quiet /\ stored' = NoStore) \/ lock_sequence

Spec == Init /\ [][Next]_vars

-----------------------------------------------------------------------------
Pages == [gpr : Words, pc : Words, msr : SUBSET (Bits \cup {"PR"})]

TypeOK ==
  /\ page \in [Contexts -> Pages]
  /\ vmm \in Contexts
  /\ msr \in Words
  /\ mon_msr \subseteq {"SE", "LE"}
  /\ srr0 \in Words /\ srr1 \in Words /\ sprg0 \in Words
  /\ stored \in Words \cup {NoStore}
  /\ held \in BOOLEAN /\ alive \in BOOLEAN /\ pending \in BOOLEAN

(* guest.h: "Bits the VMM may force on transparent of the guest state."    *)
(* The guest always runs with the monitor's bits on: little-endian and     *)
(* single-stepping survive whatever the guest writes to its own MSR, and   *)
(* every switch of context.                                                *)
ForcedBitsApplied == mon_msr \subseteq page[vmm].msr

(* And none of them outlives its forcing: the guest steps only while it or *)
(* the monitor asks for it now.  An ss that was undone, an SE the guest has*)
(* taken back, the MSR the VMM leaks and the page of the other context     *)
(* leave nothing behind.  Only guest->msr written by the monitor's user    *)
(* waits for the next guest_set_msr.                                       *)
ForcedBitsExact ==
  ~pending => page[vmm].msr \cap {"SE", "LE"} = (msr \cup mon_msr) \cap {"SE", "LE"}

(* Transparent of the guest state: the guest sees one register file, where *)
(* it reads back what it wrote.  Neither a switch of context nor ss loses  *)
(* a register or shows in MSR, and a lock sequence stores nothing but what *)
(* the guest last wrote to SPRG0.                                          *)
Cpu == INSTANCE GuestCpu WITH gpr <- page[vmm].gpr, pc <- page[vmm].pc

ImplementsGuestCpu == Cpu!Spec
=============================================================================
