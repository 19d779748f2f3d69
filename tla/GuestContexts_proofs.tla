------------------------ MODULE GuestContexts_proofs ------------------------
(***************************************************************************)
(* Proofs about GuestContexts, for every set of register values.  The types*)
(* and the forced bits are inductive together: a bit joins mon_msr, and    *)
(* leaves it, only where the MSR of the running page is written again.     *)
(***************************************************************************)
EXTENDS GuestContexts, TLAPS, FiniteSetTheorems

Inv == TypeOK /\ ForcedBitsApplied /\ ForcedBitsExact

LEMMA ContextIsContext ==
  ASSUME NEW m
  PROVE  ContextOf(m) \in Contexts
BY DEF ContextOf, Contexts

LEMMA FiveInWords ==
  ASSUME NEW at \in Words
  PROVE  Five(at) \in Words /\ Five(Five(at)) \in Words
<1>1. ASSUME NEW w \in Words PROVE Five(w) \in Words
  <2>1. Succ[w] \in Words
    BY WordsAssumption
  <2>2. Succ[Succ[Succ[w]]] \in Words
    BY <2>1, WordsAssumption
  <2> QED BY <2>2, WordsAssumption DEF Five
<1> QED BY <1>1

LEMMA InvInit == Init => Inv
<1> SUFFICES ASSUME Init PROVE Inv
  OBVIOUS
<1>1. mon_msr \in {{}, {"LE"}} /\ MSR_MMU_ON \in Words /\ {} \in Words
  BY WordsAssumption DEF Init
<1>2. PICK entry \in Words :
        page = [c \in Contexts |->
                  IF c = "mmu_on"
                    THEN [gpr |-> {}, pc |-> entry, msr |-> MSR_MMU_ON \cup mon_msr]
                    ELSE [gpr |-> {}, pc |-> {}, msr |-> {}]]
  BY DEF Init
<1>3. MSR_MMU_ON \cup mon_msr \in SUBSET (Bits \cup {"PR"})
  BY <1>1 DEF MSR_MMU_ON, Bits
<1>4. page \in [Contexts -> Pages]
  BY <1>1, <1>2, <1>3 DEF Pages
<1>5. vmm = "mmu_on" /\ "mmu_on" \in Contexts
  BY DEF Init, Contexts
<1>6. page[vmm].msr = MSR_MMU_ON \cup mon_msr
  BY <1>2, <1>5
<1>7. msr = MSR_MMU_ON /\ "SE" \notin MSR_MMU_ON /\ "LE" \notin MSR_MMU_ON
  BY DEF Init, MSR_MMU_ON
<1> QED BY <1>1, <1>4, <1>5, <1>6, <1>7
        DEF Init, Inv, TypeOK, ForcedBitsApplied, ForcedBitsExact

(* guest_set_msr followed by a write of the PC.                            *)
LEMMA MsrWritten ==
  ASSUME Inv, NEW m \in Words, NEW at \in Words, NEW c \in Contexts,
         page' = [SetMsr(m, c) EXCEPT ![c].pc = at]
  PROVE  /\ page' \in [Contexts -> Pages]
         /\ page'[c] = [gpr |-> R, pc |-> at, msr |-> m \cup mon_msr]
<1>1. page[vmm] \in Pages /\ page \in [Contexts -> Pages]
  BY DEF Inv, TypeOK
<1>2. m \cup mon_msr \in SUBSET (Bits \cup {"PR"})
  BY WordsAssumption DEF Bits, Inv, TypeOK
<1>3. PICK q \in Pages : q = [gpr |-> R, pc |-> at, msr |-> m \cup mon_msr]
  BY <1>1, <1>2 DEF Pages, R
<1>4. SetVmm(c) = [page EXCEPT ![c] = page[vmm]] /\ SetVmm(c) \in [Contexts -> Pages]
  BY <1>1 DEF SetVmm
<1>5. SetVmm(c)[c] = page[vmm]
  BY <1>1, <1>4
<1>6. SetMsr(m, c)[c] = [page[vmm] EXCEPT !.msr = m \cup mon_msr]
      /\ SetMsr(m, c) \in [Contexts -> Pages]
  BY <1>1, <1>2, <1>4, <1>5 DEF SetMsr, Pages
<1>7. page'[c] = q
  BY <1>1, <1>3, <1>6 DEF Pages, R
<1>8. page' = [SetMsr(m, c) EXCEPT ![c] = q]
  BY <1>3, <1>6, <1>7
<1> QED BY <1>3, <1>6, <1>7, <1>8

LEMMA InvQuiet ==
  ASSUME Inv, Quiet, stored' = NoStore
  PROVE  Inv'
<1>0. TypeOK /\ ForcedBitsApplied /\ ForcedBitsExact /\ page[vmm] \in Pages /\ R \in Words /\ PC \in Words
  BY DEF Inv, TypeOK, Pages, R, PC
<1>2. CASE Stop
  BY <1>0, <1>2 DEF Stop, Inv, TypeOK, ForcedBitsApplied, ForcedBitsExact
(* Steps that stay in the context and keep its MSR bits.                   *)
<1>3. ASSUME NEW r \in Words, NEW at \in Words, NEW m \in SUBSET (Bits \cup {"PR"}),
             page[vmm].msr \subseteq m,
             m \cap {"SE", "LE"} = page[vmm].msr \cap {"SE", "LE"},
             page' = [page EXCEPT ![vmm] = [gpr |-> r, pc |-> at, msr |-> m]],
             UNCHANGED <<vmm, msr, mon_msr, pending>>
      PROVE  page' \in [Contexts -> Pages] /\ ForcedBitsApplied' /\ ForcedBitsExact'
  <2>1. page' \in [Contexts -> Pages] /\ page'[vmm'].msr = m
    BY <1>0, <1>3 DEF TypeOK, Pages
  <2> QED BY <1>0, <1>3, <2>1 DEF ForcedBitsApplied, ForcedBitsExact
<1>4. CASE Run
  <2>1. PICK r \in Words, at \in Words :
          page' = [page EXCEPT ![vmm] =
                     [gpr |-> r, pc |-> at, msr |-> page[vmm].msr \cup {"IR", "DR", "PR"}]]
    BY <1>0, <1>4 DEF Run, TypeOK
  <2>2. page[vmm].msr \cup {"IR", "DR", "PR"} \in SUBSET (Bits \cup {"PR"})
    BY <1>0 DEF Pages, Bits
  <2>3. UNCHANGED <<vmm, msr, mon_msr, pending>>
    BY <1>4 DEF Run
  <2>4. page' \in [Contexts -> Pages] /\ ForcedBitsApplied' /\ ForcedBitsExact'
    BY <1>3, <2>1, <2>2, <2>3
  <2> QED BY <1>0, <1>4, <2>4 DEF Run, Inv, TypeOK
<1>5. ASSUME NEW r \in Words, NEW at \in Words,
             page' = [page EXCEPT ![vmm].gpr = r, ![vmm].pc = at],
             UNCHANGED <<vmm, msr, mon_msr, pending>>
      PROVE  page' \in [Contexts -> Pages] /\ ForcedBitsApplied' /\ ForcedBitsExact'
  BY <1>0, <1>5 DEF TypeOK, ForcedBitsApplied, ForcedBitsExact, Pages
<1>6. CASE rom_call
  BY <1>0, <1>5, <1>6 DEF rom_call, Inv, TypeOK
<1>7. ASSUME NEW r \in Words, Put(r), UNCHANGED <<vmm, msr, mon_msr, pending>>
      PROVE  page' \in [Contexts -> Pages] /\ ForcedBitsApplied' /\ ForcedBitsExact'
  <2>1. Succ[PC] \in Words
    BY <1>0, WordsAssumption
  <2> QED BY <1>5, <1>7, <2>1 DEF Put
<1>8. CASE mfmsr \/ mfspr
  BY <1>0, <1>7, <1>8 DEF mfmsr, mfspr, Inv, TypeOK
<1>9. CASE mtspr
  <2>1. Put(R) /\ UNCHANGED <<vmm, msr, mon_msr, pending>>
    BY <1>9 DEF mtspr
  <2>2. page' \in [Contexts -> Pages] /\ ForcedBitsApplied' /\ ForcedBitsExact'
    BY <1>0, <1>7, <2>1
  <2> QED BY <1>0, <1>9, <2>2 DEF mtspr, Inv, TypeOK
<1>10. CASE mtmsr
  <2>1. CASE ~Inconsistent(R)
    <3>1. Succ[PC] \in Words /\ mon_msr \in SUBSET {"SE", "LE"} /\ ContextOf(R) \in Contexts
      BY <1>0, WordsAssumption, ContextIsContext DEF TypeOK
    <3>2. page' = [SetMsr(R, ContextOf(R)) EXCEPT ![ContextOf(R)].pc = Succ[PC]]
          /\ vmm' = ContextOf(R)
      BY <1>10, <2>1 DEF mtmsr
    <3>3. /\ page' \in [Contexts -> Pages]
          /\ page'[vmm'] = [gpr |-> R, pc |-> Succ[PC], msr |-> R \cup mon_msr]
      BY <1>0, <3>1, <3>2, MsrWritten
    <3>4. /\ msr' = R /\ vmm' \in Contexts /\ pending' = FALSE
          /\ UNCHANGED <<mon_msr, srr0, srr1, sprg0, held, alive>>
      BY <1>10, <2>1, <3>1 DEF mtmsr
    <3>5. page'[vmm'].msr = msr' \cup mon_msr'
      BY <3>3, <3>4
    <3>6. ForcedBitsApplied' /\ ForcedBitsExact'
      BY <3>4, <3>5 DEF ForcedBitsApplied, ForcedBitsExact
    <3> QED BY <1>0, <3>3, <3>4, <3>6 DEF Inv, TypeOK
  <2> QED BY <1>2, <1>10, <2>1 DEF mtmsr
<1>11. CASE rfi
  <2>1. CASE ~Inconsistent(srr1)
    <3>1. srr0 \in Words /\ srr1 \in Words /\ mon_msr \in SUBSET {"SE", "LE"}
          /\ ContextOf(srr1) \in Contexts
      BY <1>0, ContextIsContext DEF TypeOK
    <3>2. page' = [SetMsr(srr1, ContextOf(srr1)) EXCEPT ![ContextOf(srr1)].pc = srr0]
          /\ vmm' = ContextOf(srr1)
      BY <1>11, <2>1 DEF rfi
    <3>3. /\ page' \in [Contexts -> Pages]
          /\ page'[vmm'] = [gpr |-> R, pc |-> srr0, msr |-> srr1 \cup mon_msr]
      BY <1>0, <3>1, <3>2, MsrWritten
    <3>4. /\ msr' = srr1 /\ vmm' \in Contexts /\ pending' = FALSE
          /\ UNCHANGED <<mon_msr, srr0, srr1, sprg0, held, alive>>
      BY <1>11, <2>1, <3>1 DEF rfi
    <3>5. page'[vmm'].msr = msr' \cup mon_msr'
      BY <3>3, <3>4
    <3>6. ForcedBitsApplied' /\ ForcedBitsExact'
      BY <3>4, <3>5 DEF ForcedBitsApplied, ForcedBitsExact
    <3> QED BY <1>0, <3>3, <3>4, <3>6 DEF Inv, TypeOK
  <2> QED BY <1>2, <1>11, <2>1 DEF rfi
<1>12. CASE Unhandled \/ cont
  BY <1>0, <1>12 DEF Unhandled, cont, Inv, TypeOK, ForcedBitsApplied, ForcedBitsExact
<1>13. CASE ss
  <2>1. CASE ~Inconsistent(msr)
    <3>1. Toggled \in SUBSET {"SE", "LE"} /\ ContextOf(msr) \in Contexts /\ msr \in Words
      BY <1>0, ContextIsContext DEF TypeOK, Toggled
    <3>2. /\ page' = [SetVmm(ContextOf(msr)) EXCEPT ![ContextOf(msr)].msr = msr \cup Toggled]
          /\ vmm' = ContextOf(msr) /\ mon_msr' = Toggled /\ pending' = FALSE
          /\ UNCHANGED <<msr, srr0, srr1, sprg0, held, alive>>
      BY <1>13, <2>1 DEF ss
    <3>3. /\ page' \in [Contexts -> Pages]
          /\ page'[vmm'].msr = msr \cup Toggled
      <4>1. msr \cup Toggled \in SUBSET (Bits \cup {"PR"})
        BY <3>1, WordsAssumption DEF Bits
      <4> QED BY <1>0, <3>1, <3>2, <4>1 DEF SetVmm, Pages, TypeOK
    <3> QED BY <1>0, <3>1, <3>2, <3>3 DEF Inv, TypeOK, ForcedBitsApplied, ForcedBitsExact
  <2> QED BY <1>2, <1>13, <2>1 DEF ss
<1>14. CASE reg
  <2>1. UNCHANGED <<vmm, mon_msr, srr0, srr1, sprg0, held, alive>>
    BY <1>14 DEF reg
  <2>2. PICK w \in Words :
          \/ page' = [page EXCEPT ![vmm].gpr = w] /\ UNCHANGED <<msr, pending>>
          \/ page' = [page EXCEPT ![vmm].pc = w] /\ UNCHANGED <<msr, pending>>
          \/ msr' = w /\ pending' = TRUE /\ UNCHANGED page
    BY <1>14 DEF reg
  <2>3. page' \in [Contexts -> Pages] /\ page'[vmm].msr = page[vmm].msr
    BY <1>0, <2>2 DEF TypeOK, Pages
  <2>4. msr' \in Words /\ pending' \in BOOLEAN /\ (pending' \/ UNCHANGED <<msr, pending>>)
    BY <1>0, <2>2 DEF TypeOK
  <2>5. ForcedBitsApplied' /\ ForcedBitsExact'
    BY <1>0, <2>1, <2>3, <2>4 DEF ForcedBitsApplied, ForcedBitsExact
  <2> QED BY <1>0, <1>14, <2>1, <2>3, <2>4, <2>5 DEF Inv, TypeOK
<1> QED BY <1>4, <1>6, <1>8, <1>9, <1>10, <1>11, <1>12, <1>13, <1>14 DEF Quiet

LEMMA InvLock ==
  ASSUME Inv, lock_sequence
  PROVE  Inv'
<1>1. TypeOK /\ ForcedBitsApplied /\ ForcedBitsExact /\ page[vmm] \in Pages /\ PC \in Words
  BY DEF Inv, TypeOK, Pages, PC
<1>2. PICK at \in {Five(PC), Five(Five(PC))} : page' = [page EXCEPT ![vmm].pc = at]
  BY DEF lock_sequence
<1>3. at \in Words
  BY <1>1, <1>2, FiveInWords
<1>4. page' \in [Contexts -> Pages] /\ page'[vmm].msr = page[vmm].msr
  BY <1>1, <1>2, <1>3 DEF TypeOK, Pages
<1>5. ForcedBitsApplied' /\ ForcedBitsExact'
  BY <1>1, <1>4 DEF lock_sequence, ForcedBitsApplied, ForcedBitsExact
<1>6. stored' \in Words \cup {NoStore}
  BY <1>1 DEF lock_sequence, TypeOK
<1>7. UNCHANGED <<vmm, msr, mon_msr, srr0, srr1, sprg0, held, alive, pending>>
  BY DEF lock_sequence
<1> QED BY <1>1, <1>4, <1>5, <1>6, <1>7 DEF Inv, TypeOK

LEMMA InvNext == Inv /\ [Next]_vars => Inv'
<1>1. CASE UNCHANGED vars
  BY <1>1 DEF vars, Inv, TypeOK, ForcedBitsApplied, ForcedBitsExact
<1> QED BY <1>1, InvQuiet, InvLock DEF Next

(* The registers keep their types.                                         *)
THEOREM ContextTypes == Spec => []TypeOK
<1>1. Inv => TypeOK
  BY DEF Inv
<1> QED BY <1>1, InvInit, InvNext, PTL DEF Spec

(* What the monitor forces on stays on, whatever the guest and the user of *)
(* the monitor write.                                                      *)
THEOREM ForcedBitsStay == Spec => []ForcedBitsApplied
<1>1. Inv => ForcedBitsApplied
  BY DEF Inv
<1> QED BY <1>1, InvInit, InvNext, PTL DEF Spec

(* What the monitor no longer forces on goes off at once: the guest runs   *)
(* with SE and LE exactly as it and the monitor ask for them.              *)
THEOREM ForcedBitsNoMore == Spec => []ForcedBitsExact
<1>1. Inv => ForcedBitsExact
  BY DEF Inv
<1> QED BY <1>1, InvInit, InvNext, PTL DEF Spec

-----------------------------------------------------------------------------
(* The refinement: each step is a step of GuestCpu or changes nothing that *)
(* the guest can see.                                                      *)
LEMMA InconsistentMsr ==
  ASSUME NEW m
  PROVE  Inconsistent(m) <=> ~Cpu!Consistent(m)
<1>1. \/ MSR_MMU_ON \cap m = {}         /\ "IR" \notin m /\ "DR" \notin m
      \/ MSR_MMU_ON \cap m = {"IR"}     /\ "IR" \in m    /\ "DR" \notin m
      \/ MSR_MMU_ON \cap m = {"DR"}     /\ "IR" \notin m /\ "DR" \in m
      \/ MSR_MMU_ON \cap m = MSR_MMU_ON /\ "IR" \in m    /\ "DR" \in m
  BY DEF MSR_MMU_ON
<1>2. Cardinality({}) = 0 /\ Cardinality({"IR"}) = 1 /\ Cardinality({"DR"}) = 1
  BY FS_EmptySet, FS_Singleton
<1>3. Cardinality(MSR_MMU_ON) # 1
  <2>1. ~\E x : MSR_MMU_ON = {x}
    BY DEF MSR_MMU_ON
  <2>2. IsFiniteSet(MSR_MMU_ON)
    <3>1. IsFiniteSet({"IR"} \cup {"DR"})
      BY FS_Singleton, FS_AddElement
    <3>2. MSR_MMU_ON = {"IR"} \cup {"DR"}
      BY DEF MSR_MMU_ON
    <3> QED BY <3>1, <3>2
  <2> QED BY <2>1, <2>2, FS_Singleton
<1> QED BY <1>1, <1>2, <1>3 DEF Inconsistent, Cpu!Consistent

LEMMA CpuInit == Init => Cpu!Init
<1> SUFFICES ASSUME Init PROVE Cpu!Init
  OBVIOUS
<1>1. PICK entry \in Words :
        page = [c \in Contexts |->
                  IF c = "mmu_on"
                    THEN [gpr |-> {}, pc |-> entry, msr |-> MSR_MMU_ON \cup mon_msr]
                    ELSE [gpr |-> {}, pc |-> {}, msr |-> {}]]
  BY DEF Init
<1>2. page[vmm] = [gpr |-> {}, pc |-> entry, msr |-> MSR_MMU_ON \cup mon_msr]
  BY <1>1 DEF Init, Contexts
<1>3. page[vmm].gpr \in Words /\ page[vmm].pc \in Words
  BY <1>2, WordsAssumption
<1> QED BY <1>3 DEF Init, Cpu!Init, MSR_MMU_ON, NoStore, Cpu!NoStore

LEMMA CpuQuiet ==
  ASSUME Inv, Quiet, stored' = NoStore
  PROVE  Cpu!Next
<1>0. /\ page \in [Contexts -> Pages] /\ vmm \in Contexts /\ page[vmm] \in Pages
      /\ R \in Words /\ PC \in Words /\ msr \in Words /\ srr0 \in Words /\ srr1 \in Words
      /\ sprg0 \in Words /\ held \in BOOLEAN /\ alive \in BOOLEAN
  BY DEF Inv, TypeOK, Pages, R, PC
<1>1. ASSUME alive, Cpu!Instruction \/ Cpu!Hold \/ Cpu!Debug \/ Cpu!Nothing
      PROVE  Cpu!Next
  <2>1. stored' = Cpu!NoStore
    BY DEF NoStore, Cpu!NoStore
  <2> QED BY <1>1, <2>1 DEF Cpu!Next
<1>2. ASSUME NEW r \in Words, NEW at \in Words, NEW m,
             page' = [page EXCEPT ![vmm] = [gpr |-> r, pc |-> at, msr |-> m]],
             UNCHANGED vmm
      PROVE  page'[vmm'].gpr = r /\ page'[vmm'].pc = at
  BY <1>0, <1>2
<1>3. CASE Run
  <2>1. PICK r \in Words, at \in Words :
          page' = [page EXCEPT ![vmm] =
                     [gpr |-> r, pc |-> at, msr |-> page[vmm].msr \cup {"IR", "DR", "PR"}]]
    BY <1>0, <1>3 DEF Run
  <2>2. page'[vmm'].gpr = r /\ page'[vmm'].pc = at
    BY <1>2, <1>3, <2>1 DEF Run
  <2>3. Cpu!Compute
    BY <1>3, <2>1, <2>2 DEF Run, Cpu!Compute
  <2> QED BY <1>1, <1>3, <2>3 DEF Run, Guest, Cpu!Instruction
<1>4. ASSUME NEW r \in Words, NEW at \in Words,
             page' = [page EXCEPT ![vmm].gpr = r, ![vmm].pc = at],
             UNCHANGED vmm
      PROVE  page'[vmm'].gpr = r /\ page'[vmm'].pc = at
  BY <1>0, <1>4 DEF Pages
<1>5. CASE rom_call
  <2>1. PICK r \in Words, at \in Words : page' = [page EXCEPT ![vmm].gpr = r, ![vmm].pc = at]
    BY <1>5 DEF rom_call
  <2>2. page'[vmm'].gpr = r /\ page'[vmm'].pc = at
    BY <1>4, <1>5, <2>1 DEF rom_call
  <2>3. Cpu!Compute
    BY <1>0, <1>5, <2>1, <2>2 DEF rom_call, Cpu!Compute
  <2> QED BY <1>1, <1>5, <2>3 DEF rom_call, Guest, Cpu!Instruction
<1>6. ASSUME NEW r \in Words, Put(r), UNCHANGED vmm
      PROVE  page'[vmm'].gpr = r /\ page'[vmm'].pc = Succ[page[vmm].pc]
  BY <1>0, <1>4, <1>6, WordsAssumption DEF Put, PC
<1>7. CASE mfmsr
  <2>1. page'[vmm'].gpr = msr /\ page'[vmm'].pc = Succ[page[vmm].pc]
    BY <1>0, <1>6, <1>7 DEF mfmsr
  <2>2. Cpu!Read
    BY <1>7, <2>1 DEF mfmsr, Cpu!Read
  <2> QED BY <1>1, <1>7, <2>2 DEF mfmsr, Guest, Cpu!Instruction
<1>8. CASE mfspr
  <2>1. page'[vmm'].gpr \in {srr0, srr1, sprg0} /\ page'[vmm'].pc = Succ[page[vmm].pc]
    BY <1>0, <1>6, <1>8 DEF mfspr
  <2>2. Cpu!Read
    BY <1>8, <2>1 DEF mfspr, Cpu!Read
  <2> QED BY <1>1, <1>8, <2>2 DEF mfspr, Guest, Cpu!Instruction
<1>9. CASE mtspr
  <2>1. page'[vmm'].gpr = page[vmm].gpr /\ page'[vmm'].pc = Succ[page[vmm].pc]
    BY <1>0, <1>6, <1>9 DEF mtspr, R
  <2>2. Cpu!Write
    BY <1>9, <2>1 DEF mtspr, R, Cpu!Write
  <2> QED BY <1>1, <1>9, <2>2 DEF mtspr, Guest, Cpu!Instruction
<1>10. CASE mtmsr
  <2>1. CASE Inconsistent(R)
    <3>1. Cpu!mtmsr
      BY <1>10, <2>1, InconsistentMsr DEF mtmsr, Stop, Cpu!mtmsr, Cpu!Die, R
    <3> QED BY <1>1, <1>10, <3>1 DEF mtmsr, Guest, Cpu!Instruction
  <2>2. CASE ~Inconsistent(R)
    <3>1. page' = [SetMsr(R, ContextOf(R)) EXCEPT ![ContextOf(R)].pc = Succ[PC]]
          /\ vmm' = ContextOf(R) /\ msr' = R /\ UNCHANGED <<srr0, srr1, sprg0, held, alive>>
      BY <1>10, <2>2 DEF mtmsr
    <3>2. page'[vmm'].gpr = page[vmm].gpr /\ page'[vmm'].pc = Succ[page[vmm].pc]
      <4>1. Succ[PC] \in Words /\ ContextOf(R) \in Contexts
        BY <1>0, WordsAssumption, ContextIsContext
      <4>2. page'[ContextOf(R)] = [gpr |-> R, pc |-> Succ[PC], msr |-> R \cup mon_msr]
        BY <1>0, <3>1, <4>1, MsrWritten
      <4> QED BY <3>1, <4>2 DEF R, PC
    <3>3. Cpu!mtmsr
      BY <2>2, <3>1, <3>2, InconsistentMsr DEF Cpu!mtmsr, R
    <3> QED BY <1>1, <1>10, <3>3 DEF mtmsr, Guest, Cpu!Instruction
  <2> QED BY <2>1, <2>2
<1>11. CASE rfi
  <2>1. CASE Inconsistent(srr1)
    <3>1. Cpu!rfi
      BY <1>11, <2>1, InconsistentMsr DEF rfi, Stop, Cpu!rfi, Cpu!Die
    <3> QED BY <1>1, <1>11, <3>1 DEF rfi, Guest, Cpu!Instruction
  <2>2. CASE ~Inconsistent(srr1)
    <3>1. page' = [SetMsr(srr1, ContextOf(srr1)) EXCEPT ![ContextOf(srr1)].pc = srr0]
          /\ vmm' = ContextOf(srr1) /\ msr' = srr1 /\ UNCHANGED <<srr0, srr1, sprg0, held, alive>>
      BY <1>11, <2>2 DEF rfi
    <3>2. page'[vmm'].gpr = page[vmm].gpr /\ page'[vmm'].pc = srr0
      <4>1. ContextOf(srr1) \in Contexts
        BY ContextIsContext
      <4>2. page'[ContextOf(srr1)] = [gpr |-> R, pc |-> srr0, msr |-> srr1 \cup mon_msr]
        BY <1>0, <3>1, <4>1, MsrWritten
      <4> QED BY <3>1, <4>2 DEF R
    <3>3. Cpu!rfi
      BY <2>2, <3>1, <3>2, InconsistentMsr DEF Cpu!rfi
    <3> QED BY <1>1, <1>11, <3>3 DEF rfi, Guest, Cpu!Instruction
  <2> QED BY <2>1, <2>2
<1>12. CASE Unhandled
  BY <1>1, <1>0, <1>12 DEF Unhandled, Guest, Cpu!Hold
<1>13. CASE cont
  BY <1>1, <1>0, <1>13 DEF cont, Cpu!Debug
<1>14. CASE ss
  <2>1. CASE Inconsistent(msr)
    BY <1>1, <1>14, <2>1, InconsistentMsr DEF ss, Stop, Cpu!Debug, Cpu!Die
  <2>2. CASE ~Inconsistent(msr)
    <3>1. /\ page' = [SetVmm(ContextOf(msr)) EXCEPT ![ContextOf(msr)].msr = msr \cup Toggled]
          /\ vmm' = ContextOf(msr) /\ UNCHANGED <<msr, srr0, srr1, sprg0, held, alive>>
      BY <1>14, <2>2 DEF ss
    <3>2. page'[vmm'].gpr = page[vmm].gpr /\ page'[vmm'].pc = page[vmm].pc
      BY <1>0, <3>1, ContextIsContext DEF SetVmm, Pages
    <3> QED BY <1>1, <1>14, <3>1, <3>2 DEF ss, Cpu!Nothing
  <2> QED BY <2>1, <2>2
<1>15. CASE reg
  <2>1. PICK w \in Words :
          \/ page' = [page EXCEPT ![vmm].gpr = w] /\ UNCHANGED msr
          \/ page' = [page EXCEPT ![vmm].pc = w] /\ UNCHANGED msr
          \/ msr' = w /\ UNCHANGED page
    BY <1>15 DEF reg
  <2>2. page'[vmm'].gpr \in Words /\ page'[vmm'].pc \in Words /\ msr' \in Words
    BY <1>0, <1>15, <2>1 DEF reg, Pages
  <2> QED BY <1>1, <1>0, <1>15, <2>2 DEF reg, Cpu!Debug
<1> QED BY <1>3, <1>5, <1>7, <1>8, <1>9, <1>10, <1>11, <1>12, <1>13, <1>14, <1>15
        DEF Quiet

LEMMA CpuLock ==
  ASSUME Inv, lock_sequence
  PROVE  Cpu!Next
<1>1. /\ page \in [Contexts -> Pages] /\ vmm \in Contexts /\ vmm' = vmm
      /\ PC \in Words /\ page[vmm] \in Pages
  BY DEF Inv, TypeOK, Pages, PC, lock_sequence
<1>2. Five(PC) \in Words /\ Five(Five(PC)) \in Words
  BY <1>1, FiveInWords
<1>3. PICK at \in {Five(PC), Five(Five(PC))} : page' = [page EXCEPT ![vmm].pc = at]
  BY DEF lock_sequence
<1>4. page'[vmm'].gpr = page[vmm].gpr /\ page'[vmm'].pc = at
  BY <1>1, <1>2, <1>3, SMTT(60) DEF Pages
<1>5. at \in {Cpu!Five(page[vmm].pc), Cpu!Five(Cpu!Five(page[vmm].pc))}
  BY <1>3 DEF Five, Cpu!Five, PC
<1>6. Cpu!Lock
  BY <1>4, <1>5 DEF lock_sequence, Guest, Cpu!Lock, NoStore, Cpu!NoStore
<1> QED BY <1>6 DEF lock_sequence, Guest, Cpu!Next

LEMMA CpuNext == Inv /\ [Next]_vars => [Cpu!Next]_(Cpu!cpu)
BY CpuQuiet, CpuLock DEF Next, vars, Cpu!cpu

(* Two state pages and a forced MSR are one register file to the guest.    *)
THEOREM ContextsImplementCpu == Spec => ImplementsGuestCpu
BY InvInit, InvNext, CpuInit, CpuNext, PTL DEF Spec, ImplementsGuestCpu, Cpu!Spec
=============================================================================
