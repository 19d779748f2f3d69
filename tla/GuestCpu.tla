------------------------------ MODULE GuestCpu ------------------------------
(***************************************************************************)
(* What the guest of src/guest.c is promised: one register file.  Its      *)
(* registers change when an instruction or the monitor's user changes them,*)
(* whichever context the VMM runs it in and whatever the monitor forces    *)
(* into the machine's own MSR.                                             *)
(***************************************************************************)
EXTENDS FiniteSets

CONSTANTS
  Words,   \* what a register holds, as the MSR bits it has set
  Succ     \* the address of the next instruction, pc + 4

VARIABLES
  gpr, pc, msr, srr0, srr1, sprg0, held, alive,
  stored   \* what a lock sequence has just stored, or NoStore

cpu == <<gpr, pc, msr, srr0, srr1, sprg0, held, alive, stored>>

NoStore == {"no store"}

Init ==
  /\ gpr \in Words /\ pc \in Words
  /\ msr = {"IR", "DR"}
  /\ srr0 = {} /\ srr1 = {} /\ sprg0 = {}
  /\ stored = NoStore
  /\ held = FALSE /\ alive = TRUE

(* Only one of IR and DR: this hypervisor gives up.                        *)
Consistent(m) == ("IR" \in m) = ("DR" \in m)

Die == alive' = FALSE /\ UNCHANGED <<gpr, pc, msr, srr0, srr1, sprg0, held>>

(* A run of guest instructions, or a client interface call.                *)
Compute ==
  /\ gpr' \in Words /\ pc' \in Words
  /\ held' \in BOOLEAN
  /\ UNCHANGED <<msr, srr0, srr1, sprg0, alive>>

mtmsr ==
  IF Consistent(gpr)
    THEN msr' = gpr /\ pc' = Succ[pc] /\ UNCHANGED <<gpr, srr0, srr1, sprg0, held, alive>>
    ELSE Die

rfi ==
  IF Consistent(srr1)
    THEN msr' = srr1 /\ pc' = srr0 /\ UNCHANGED <<gpr, srr0, srr1, sprg0, held, alive>>
    ELSE Die

(* mfmsr, mfspr                                                            *)
Read ==
  /\ gpr' \in {msr, srr0, srr1, sprg0}
  /\ pc' = Succ[pc]
  /\ UNCHANGED <<msr, srr0, srr1, sprg0, held, alive>>

(* mtspr                                                                   *)
Write ==
  /\ \/ srr0' = gpr /\ UNCHANGED <<srr1, sprg0>>
     \/ srr1' = gpr /\ UNCHANGED <<srr0, sprg0>>
     \/ sprg0' = gpr /\ UNCHANGED <<srr0, srr1>>
  /\ pc' = Succ[pc]
  /\ UNCHANGED <<gpr, msr, held, alive>>

Instruction == ~held /\ (Compute \/ mtmsr \/ rfi \/ Read \/ Write)

(* An instruction that cannot be emulated leaves the registers alone.      *)
Hold == ~held /\ held' = TRUE /\ UNCHANGED <<gpr, pc, msr, srr0, srr1, sprg0, alive>>

(* The monitor's user: cont, a register written, or the program dead over  *)
(* an MSR written.                                                         *)
Debug ==
  /\ held
  /\ \/ held' = FALSE /\ UNCHANGED <<gpr, pc, msr, srr0, srr1, sprg0, alive>>
     \/ /\ gpr' \in Words /\ pc' \in Words /\ msr' \in Words
        /\ UNCHANGED <<srr0, srr1, sprg0, held, alive>>
     \/ ~Consistent(msr) /\ Die

(* Taking a lock: if anything is stored, it is SPRG0.  The sequence ends   *)
(* after five instructions or ten, with no register changed.               *)
Five(at) == Succ[Succ[Succ[Succ[Succ[at]]]]]

Lock ==
  /\ ~held
  /\ stored' \in {sprg0, NoStore}
  /\ pc' \in {Five(pc), Five(Five(pc))}
  /\ UNCHANGED <<gpr, msr, srr0, srr1, sprg0, held, alive>>

(* A step that shows in no register, and stores nothing.                   *)
Nothing == UNCHANGED <<gpr, pc, msr, srr0, srr1, sprg0, held, alive>>

Next ==
  /\ alive
  /\ \/ (Instruction \/ Hold \/ Debug \/ Nothing) /\ stored' = NoStore
     \/ Lock

Spec == Init /\ [][Next]_cpu
=============================================================================
