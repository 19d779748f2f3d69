# PVP in TLA+

PVP (`src/README`) is an experimental hypervisor for PowerPC Macs. It runs a
guest through the virtual machine monitor (VMM) that Mac OS X 10.4/10.5 has in
its kernel, emulates the supervisor instructions of a PowerPC 601, plays Open
Firmware for the guest's boot loader, and has a monitor console on a TCP port.
It is one thread: every concurrency it has comes from the VMM underneath (which
drops page mappings on its own), from the guest (which may do any legal thing in
any order) and from the clients of the console.

All paths below are relative to the repository; `src/x.c:10` is line 10.

## 1. Inventory

| Component | Source | State | Operations |
|---|---|---|---|
| Range lists | `lib/ranges.c` | sorted lists of `[base, limit]` | `range_add`, `range_remove`, `range_count` |
| Claims | `rom.c:424-553, 689-825, 888-939` | `guest_mem_avail_ranges`, `claim_arena_ptr` | `claim`, `/memory claim`, getprop of `available` |
| MMU ranges | `mmu_ranges.c`, `rom.c:555-652, 1721-1740` | `rom_mmu_ranges` | `/mmu map`, `rom_fault` |
| Guest translation | `guest.c:196-236, 346-482` | `sdr1`, `msr`, `sr`, `ubat`; the VMM's mappings of two contexts | `guest_fault`, `guest_backmap`, `guest_map`, `guest_unmap(_all)` |
| Guest registers | `guest.c:68-113, 238-250, 484-714` | state page of each context, `vmm`, `msr`, `mon_msr`, `srr0/1` | `guest_emulate`, `guest_set_msr`, `guest_set_vmm`, `guest_toggle_ss` |
| Main loop | `pvp.c` | `err` | start the parts, run the guest, dispatch its exit, trace, poll, stop |
| Monitor console | `mon.c` | `activated`, `pend_prompt`, `ibuf`, `picol_err`, `on_trace` | `mon_activate`, `mon_check`, `mon_trace`, commands on registers and memory |
| Monitor socket | `socket.c` | `sockfd`, `fd` | listen, accept, read, write, disconnect |
| Client interface | `rom.c:17-48, 1635-1719` | the cells of a call, in guest memory | 21 services |
| Instance handles, disks | `rom.c:61-422, 654-687, 1322-1625`, `disk.c` | `known_ihandles`, offsets, descriptors | open, close, seek, read, write, partitions |
| Guest memory | `pmem.c`, `guest.c:252-344` | `pmem` | byte order, transfers cut at pages, NUL-terminated reads |
| Device tree | `rom.c:827-1320`, `fdt/fdt_pvp.c`, the scans of `fdt/fdt_ro.c` | the flattened tree, never written | child, peer, parent, finddevice, getprop, paths |
| Linked lists | `include/list.h` | pairs of pointers in heap blocks | add, delete, the loops over entries |
| Terminal | `term.c` | a second socket | wait for a client, read, write |
| VMM wrappers, log, errors | `vmm.c`, `lib/` | | |
| Third party | the rest of `fdt/`, `include/picol.h` | | |

How they interact. `main` (pvp.c) calls `kVmmExecuteVM` and dispatches on its
return code: a page fault to `guest_fault`, a privileged instruction to
`guest_emulate`, a system call to `rom_call`. What none of them handles, and any
error, enters `mon_activate`, which holds the guest until a client of the console
types `cont`. After every exit that *was* handled, `mon_trace` runs the script
in the variable `on_trace` and `mon_check` polls the socket for one character.
`rom_fault` is how the client interface and the page faults meet: while SDR1 has
the value `SDR1_MAGIC_ROM_MODE` translations come from `rom_mmu_ranges`. The
monitor writes guest registers directly.

What is hard, and what makes each part correct:

* **Claims.** Claims may overlap (`rom.c:431`), are widened to pages, move a
  bump pointer even when they fail, and compute in 32 bits. The list a client
  reads back must be exact, stay whole pages, and never offer memory again.
* **Translation.** Mappings live in the VMM, per context, and outlive what they
  were computed from; the VMM evicts them. A mapping that exists must be the one
  that would be computed now; a fault must be resolved; no mapping may leave
  guest memory.
* **Registers.** The registers live in the page of whichever context runs, and
  the emulator writes them before and after a switch. The guest must see one
  register file, and not see the bits the monitor forces.
* **Handles.** Handles on a disk share a descriptor, offsets are unsigned and
  wrap, a handle's value comes back after it was closed, and a transfer may fall
  short or lose data half-way. Handles must not disturb each other, transfers must
  stay in their partition, and a count must say what happened.
* **Memory.** A transfer is cut at the guest's pages, whose frames lie anywhere;
  in little-endian mode the processor flips the low bits of every address, by
  another mask for each size of access. The host must see what the guest sees.
* **Device tree.** Nothing in the flattened tree says where a node's parent or
  sibling is, and names are not unique: the services scan. They must answer as the
  tree itself would, and write no more than the client has room for. Two properties
  of the memory node are made up by the services: `reg`, and `available`, which grows
  as claims split it.
* **Client interface.** A call's cells are read and written one by one, each may
  be missing, and the client counts them. What the client is told must be what was
  done, and the call must return.
* **Console.** Clients connect, type half a line, leave; another one is accepted
  inside a write. A command must come from one client, the prompt must tell the
  truth, a held guest must stay held, and everybody must get a prompt.

`PROJECT.json` lists the hazards at their lines.

## 2. Modules

```
Words --+-- RomClaims --+-- RangeList --- MCRomClaims   FreeMemory  (abstract)
Ranges -+               |      \-- LinkedLists
                                \-- RomClaims_proofs
Words ----- GuestMmu ---------- MCGuestMmu
                \-- GuestMmu_proofs
            GuestContexts ----- MCGuestContexts         GuestCpu    (abstract)
                \-- GuestContexts_proofs
            GuestMem --- MemCommands --- MCMemCommands
                             \-- MemCommands_proofs
            DeviceTree -------- MCDeviceTree            PackageTree (abstract)
                \-- DeviceTree_proofs
            CifCalls ---------- MCCifCalls
                \-- CifCalls_proofs
            Monitor ----------- MCMonitor
                \-- Monitor_proofs
            Ihandles ---------- MCIhandles              Streams     (abstract)
                \-- Ihandles_proofs
```

**Words**, **Ranges**: `ALIGN` of `defs.h`; `range_add` and `range_remove` on a
*set* of ranges. Their `BUG_ON`s are separate operators (`AddStops`,
`RemoveStops`), so that the caller's action can end the program.

**RomClaims**: `avail` is `guest_mem_avail_ranges`, `claim_arena_ptr` the bump
pointer, `granted` (history) what has been returned to callers. `Claim` stands
for both services: they call `rom_claim_ex` with the same three numbers read from
different cells. `Init` is what `rom_init` leaves. All sums wrap at `WordMod`.
`GetAvailable` is the getprop with its two `BUG_ON`s. `wild` (history) says that
some claim was empty or wrapped around the word: from there on the code keeps no
exact account.

**FreeMemory**: what that promises, in terms of a set of free bytes. A claim that
is *wild* voids the promise, but even then no byte becomes free.

**LinkedLists**, **RangeList**: `list.h` on a heap of pointer pairs, and the
list of ranges on it: blocks from `malloc`, the walk of `range_remove` that
deletes, trims and inserts, the early end of `range_add`'s scan. It runs beside
`RomClaims`, one list operation for each claim, and must stay the same set.

**GuestMmu**: `map` is the VMM's table, per context. `Touch` is the guest running
into a page, `guest_fault` the handler (which maps into the running context, or
enters the monitor, or stops), `Evict` the VMM. `SetMsr`, `Tlbie`, `MtSdr1`,
`MtBat`, `MtSr` are the emulated instructions; `MmuMap` is `/mmu map`; `Pause`,
`Cont`, `ToggleSs`, `Poke` the monitor. `srT` and `ubat` are the parts of the
segment and BAT registers `guest_bat_fault` looks at; any SDR1 other than the
magic one has no translation in this code. `poked` (history) says that the
monitor's user has written msr or sdr1.

**GuestContexts**: `page[c]` is the state page of context `c` with one GPR for
all; `Run` is the guest executing (until after one instruction when SE is set),
and the other actions are the emulated instructions that move values between the
GPR, MSR, SRR0/1 and PC, and the monitor's commands. `held` says that the monitor
has the guest. `lock_sequence` is the store that replaces a `lwarx`/`stwcx.`
sequence (`guest.c:498-547`), `stored` what it has just stored: SPRG0, or nothing
where the page is missing. `pending` (history) says that the monitor's user has written
`guest->msr` and `guest_set_msr` has yet to follow. **GuestCpu** is one register file with the same
instructions.

**GuestMem**: `Pass` is one pass of the loop of `guest_from_ex` or `guest_to`
over `pmem_from_ex` or `pmem_to`: `page` and `off` are its `ea`, `done` its count,
`buf` the host's buffer, `xlat` what `guest_backmap` finds for each page. `was`
(history) is memory before the transfer. **MemCommands**: the loops of the
monitor's commands over such transfers, and `gra`.

**DeviceTree**: `fdt` is the structure block, a sequence of tags; `Walk` the
nodes that a loop over `fdt_next_node` sees. One action per service, with what the
client holds (`have`) and the call it made last. A phandle of 0, the answer for none, may be
passed on like any other; it leads to the root. `avail` is the length of the list that
`RomClaims` keeps: `rom_claim_ex` makes it shorter, leaves it or splits a range of it, and
`told` (history) is what `getproplen` last said of it, -1 after a claim. `tree` is what the block was made
from: no service reads it, and **PackageTree**, the promise, reads nothing else.

**CifCalls**: a handler is a *script*: the arguments it reads in order, the ways
it may go on from there, the results it writes. `ReadArg`, `Serve`, `WriteRet` and
`Finish` run it, one cell in each step. `effect` is what was done to the other
components, whose modules say what it is. The `BUG_ON`s on the counts, the cells
that are missing, the ones that two pages share (an unaligned array, a `BUG_ON`:
`pmem.c:66`, `pmem.c:115`), the handlers' early returns and the jump back of
`rom.c:1077` decide where a script goes.

**Monitor**: `pc` is the place in `main`: `start` (the parts, in order, `pvp.pcl`
and the wait for a console included), then in its loop `run` (kVmmExecuteVM),
`trace`, `check` and `input` (the two halves of `mon_check`, called by `main` or,
when `activated`, by `mon_activate`), `enter` (the label `unhandled`), `bye`,
`stopped`. `hung` is a loop that is never left: that of `socket_out` after a failed write
(`socket.c:105`), for a monitor client (`Spin`) or the console (`term_out`), and that of
a client-interface call which cannot write its result (`rom.c:1077`). The `BUG_ON`s of the
handlers are the outcome `stopped` of `Execute`.
`picol_err` is what a script has asked for and nobody has returned; `Profiles`
are the ways `pvp.pcl` may leave it. A client's `input` is what it has sent and the program has not
read; `prompt` is the last prompt it has not answered.

**Ihandles**: `known` is the list `known_ihandles` by value, `fdpos` the position
of the descriptor a disk is opened with once (`disk.c:73`), `call` the locals of
`rom_read` or `rom_write`. `rom_open`, `rom_close` and `rom_seek` are one step
each; a read or write is `Begin`, one step for each pass of its loop, which calls
the handle's method and counts, and `Return`. `Method` chooses how much the host
transfers. `malloc` may return a block that was freed before, and `current_off`
starts as what it contained (`Garbage`). `io` and `placed` are history: the last
transfer, and whether an offset was set or found in the block. A position of a file is a
natural number, that of a disk handle a word. The file names and the cells of a
call are left out, and so is its result, but for the count of a transfer.
**Streams** is the promise: one private stream per handle.

`alive = FALSE` in a module, or `pc = "stopped"`, is the end of the program
(`BUG_ON` aborts); with the loops that do not end in CifCalls and Monitor it is
the only reason for `CHECK_DEADLOCK FALSE`.

Operators with a suffix (`FirstByte_Unaligned`, `SetMsr_Sticky`, ...) are variants with
a plausible bug. No specification uses them; each breaks the property it is paired
with in `PROJECT.json`.

## 3. What the runs check

| Run | Instance | Shows |
|---|---|---|
| `claims` | 8 pages of 8 bytes, 3 claims and 7 list blocks; sizes and addresses on and off page boundaries, over reserved pages, at the end of memory and past it; empty claims, sums that wrap at 128 to 0, to the same page, to low memory | `AvailWellFormed`, `AvailExact`, `ArenaBlocksDisjoint`, `ListIsAvail`; implements `FreeMemory` |
| `mmu` | 4 pages of memory, 8 of address space, 2 segments, 3 ranges, nested among them; requests that conflict, repeat or are off the pages; 1 eviction, monitor writes, fair | `RangesAgree`, `MappedInMemory`, `MappingSound`, `TranslationsStable`, `FaultResolved` |
| `mmu_bat` | | refutes `BatHonoursT` |
| `contexts` | 4 register values: both settings of IR/DR, one of them also with SE, and one that is inconsistent | `ForcedBitsApplied`, `ForcedBitsExact`; implements `GuestCpu` |
| `memory` | 3 pages of 8 bytes in 2 frames: one missing, swapped, shared; strings of several ends; both byte orders, all sizes; 6 kinds of command; fair | `ReadExact`, `WriteExact`, `FailureTold`, `StringRead`, `ShowsMemory`, `Returns` |
| `device_tree` | all trees of up to 4 nodes, with 3 names, missing and repeated ihandles; up to 2 ranges of available memory, claims between the calls; rooms of 0, 2 and 12 bytes | `PathLeadsBack`, `WithinBuffer`, `StopsOnlyOverNone`; implements `PackageTree` |
| `cif` | every service, with the right counts, one too few, one too many, and one that reaches around 14 cells of address space; every beginning of the array in memory, any one cell of it shared by two pages; fair | `AnswerTold`, `FailureHasNoEffect`, `ArgumentsKept`, `EffectHasArguments`, `CallReturns` |
| `cif_child` | | refutes `ChildReturns` |
| `monitor_lines` | 2 clients of 3 characters, lines of 2 characters, 7 keys, 2 scripts, 2 profiles | `LineFromOneClient`, `SyncPromptTruthful` |
| `monitor_live` | 2 impatient clients of 2 characters that wait for a prompt before they leave, fair | `HeldUntilCont`, `PromptReached`, `InputRead` |
| `monitor_pause` | 1 client | refutes `PauseDoesNotStop` |
| `handles` | 2 blocks and the console, 1 file, 1 disk whose partitions end past half of the word, wrap in their end or in their length; words of 16, pages of 4 bytes, transfers of 5, fair | `WithinPartition`, `Accounted`, `CallEnds`; implements `Streams` |

GuestMem with its commands, DeviceTree and the monitor also have their type invariant
checked (CifCalls states none: its properties speak of every variable but the place in a script);
the other type invariants, `ReturnedAddressTaken`, `AvailOnlyShrinks` and
`PlacedInPart` are proved for every instance (section 4) and not run again.

Why the bounds are enough. Claims: three are the loader, trampoline and stack of
`rom_init`, three more (`MaxClaims`) are enough to split a range twice, to claim
across a claim and to overflow the arena after a refused claim; `MaxBlocks` is the
number of ranges that can come of it (`BlocksAssumption`: each claim, `rom_init`'s three
included, adds one range at most), so `malloc` always has a block. Translation: three ranges (`MaxRanges`) are the
initial one and two of the client's, which may lie one in the other or side by side.
Two would not do: a request that meets the initial range, which maps all of memory 1:1, is
either `phys == virt`, which adds nothing (`rom.c:599`), or refused by a `BUG_ON`, so two ranges that
overlap would never both be on the list. One eviction
(`MaxEvictions`) is enough for a mapping to be missing where the guest had it.
Registers: the properties compare IR, DR, SE and LE only; the value
with SE and the inconsistent one (IR alone) are never in the registers at once (`OneOdd`), which keeps the run small; the
theorems have no such limit. Memory: a transfer of 12
bytes from the middle of a page crosses into the next, and one from its end crosses two
boundaries; eight bytes are the least page on which the three masks differ. `MaxStr` lets a string outgrow
`memreadstring`'s buffer, and transfers to memory run in its first contents only (`Unwritten`), for
what one write leaves is what the next may find. Device tree: with four nodes
there is a nephew, an uncle, a sibling of the same name and a node that is three
levels down (`MaxNodes`); with two available ranges (`MaxAvail`) the list outgrows the room of 12
that `getproplen` found enough for one. Cells: the longest call takes 11; in `CellMod` = 14 one more
fits, and a count of 13 reaches around. Console: two clients are who is there
and who comes next; a line of two characters and a client of three reach a full
line, a line left half typed and its completion by the other. Handles: two on one
disk disturb each other, or one is closed and its block given to another kind; a
transfer of 5 bytes into a buffer at offset 2 of a page of 4 takes two passes; from
half of the word on, `lseek`'s result looks like a failure. The proofs of
section 4 have none of these bounds.

Where a property needs an assumption, the runs and the theorems name it:

* `~wild` for `AvailExact` and `ArenaBlocksDisjoint`. After a wild claim the code
  really does something else: an empty claim on a page boundary stops the program
  (`rom.c:469`), and `addr + size` may wrap past the check of `rom.c:456`. What is
  left then is `AvailWellFormed`, and that nothing is ever given back.
* `~poked` for `MappingSound`: `mon.c:75-78` writes the words without
  `guest_set_msr` or `guest_unmap_all`. `MappedInMemory` holds after it too; `RangesAgree`
  does not read these registers.
* `~pending` for `ForcedBitsExact`, the same write seen from the MSR the guest runs with.
* A handle that was `placed`, for `WithinPartition` and the streams: nobody has
  initialised the offset of the others. The place in a partition is counted as the
  code counts it, in words (`disk.c:211-212`, `rom.c:309`); for a partition that does not
  wrap around that is where it lies. `Accounted` excepts the console, whose write
  counts `len` down past zero (`rom.c:667`): `rom_write` reports -1 after the
  bytes are out.
* Aligned accesses in little-endian mode, for the memory properties: what the
  processor does with others is not in this code.
* Strings of a big-endian guest, in `StringRead`, that end before their page does
  and fit the buffer: `strlcpy` returns the length of its source (`pmem.c:137`,
  where the comment at `pmem.c:97` promises the bytes transferred).
* No earlier sibling of the same name, for `PathLeadsBack`: `fdt_ro.c:72`
  matches the first one.
* Room for the whole list, for `WithinBuffer`: `reg` and `available` of the memory node are
  written whole, whatever length the client gave (`rom.c:845-939` cuts only the length it returns,
  `rom.c:952-957`). So the property excepts `reg` in fewer than two cells,
  and `available` in less than `getproplen` said, or when that was asked before the last claim.
* A phandle other than 0, for `StopsOnlyOverNone`: `parent` of 0 is the `BUG_ON` of `rom.c:1151`.
* A result cell that is there, for `CallReturns` of child, peer, parent and write
  (see the disagreements), and for `FailureHasNoEffect`: a claim whose result cannot
  be written has taken the memory all the same.
* Counts that fit the address space, for `ArgumentsKept`: `CIA_RET` adds the client's
  own count.
* `Patient` (a client types only after a prompt) for `LineFromOneClient`: the
  character read together with the accept comes before the prompt that empties
  `ibuf`, so an impatient client completes its predecessor's line.
* `~LeaveEarly` (a client does not leave before it was prompted) for
  `PromptReached`: a client that connects and leaves at once leaves
  `pend_prompt` set with nobody connected; the next one is then accepted inside
  the printing of that prompt, and `mon.c:517` clears the flag it had set.

Fairness. `mmu`: the main loop handles each exit and runs the guest again,
and the guest retries the instruction that faulted (weak fairness of
`guest_fault` and of the retry); the VMM drops finitely many mappings.
`handles`, `memory` and `cif`: weak fairness of the loop, command or call, which is
the only thing that runs in the one thread until it returns; the reads and writes of
the host are taken to return.
`monitor_live`: weak fairness of the program as a whole, which never blocks once it
has started (before that it may wait for a console for ever, so `Start` is left out);
the VMM returns from `kVmmExecuteVM` again and again (host interrupts return
`kVmmReturnNull`). Nothing is assumed of clients, except that the writes that do not
end (`Spin`, `term_out`) are not actions of the fair program. Sockets accepted from a
non-blocking one do not block on Darwin, so reads do not wait.

### Disagreements between code and comments

* `mmu_bat`: `guest.c:362` compares `sr & SR_T` with 1; `SR_T` is `1 << 31`. The
  comment above says a BAT counts only when T = 0; the code consults it always,
  and a hit is a `BUG_ON`.
* `cif_child`: `rom.c` says that child always returns 0 on failure. Its `ON_ERROR`
  after the label `done` jumps back to `done`: where the result cannot be written
  the call does not return at all. peer, parent and write share this.
* `monitor_pause`: `pause` at the `(sync)` prompt makes `mon_activate` return
  `ERR_PAUSE`, "Pause VM execution" (`include/err.h:17`), and `pvp.c:138` leaves
  the loop and tears the VM down.

## 4. What is proved

For every value of the constants that satisfies the named assumptions of the
modules (sizes are multiples of the page, which divides the word).

**RomClaims_proofs.** `WideInv` holds whatever is claimed: `avail` is a set of
disjoint page ranges, its bytes only shrink, and no granted address is covered.
Page ranges are needed because the split in `range_remove` calls `range_add`,
which would stop on a one-byte part; disjointness because it would stop on a part
that another range contains. It gives `TypeCorrect`, `AvailStaysWellFormed`,
`ReturnedStaysTaken`, `OnlyShrinks`. `SaneInv` adds that, as long as no claim was
`wild`, `claim_arena_ptr` is bounded by a `top` the alignments cannot
carry past the word, a byte is available exactly if no claim shares its page,
every arena block lies below the pointer, and the program is alive; it gives
`ExactUntilWild` and `ArenaUntilWild`. `ClaimsRefineFreeMemory` takes both: a step
before the first wild claim is a claim of `FreeMemory`, a wild one voids the promise,
and after it the bytes still only shrink. None of them has a premise.

The linked list is that set, for every number of blocks (`ListStaysAvail`).
`Good(L, e)` says that the links of `L` are the sequence `e` of distinct blocks in
both directions (`Chain`), that the blocks in use are those of `e`, and that their ranges are
page ranges in ascending order. `ChainInsert` and `ChainRemove` are
`list_add_tail` and `list_del`; on them rest adding, trimming and deleting a block
(`AddGood`, `TrimGood`, `DeleteGood`), and on these a pass of `range_remove`'s loop at
any place of its cursor (`PassGood`): the block after the cursor was fetched before
the pass, and it is still on the list and still the next to look at, although the pass may have deleted
the block at the cursor or inserted one before it. That the recursive function which stands for the loop has a
value is an induction over the passes (`LoopExists`). `ListInv` adds to `WideInv`
that the list holds `avail` in at most one block more than there are claims granted, and that what was granted
stays cut away (`CutAway`): a claim granted twice adds no grant, so it must not split
a range either.

**GuestMmu_proofs.** `RangesInv` says that ranges which meet have the same
distance `ra - base`, which `mmu_range_add`'s test preserves for nested ranges
and its refusal for others; `RangesAlwaysAgree` and `TranslationsNeverChange`
follow. `MemoryInv` adds types and page alignment, for `MmuTypes` and
`OnlyMemoryMapped`, monitor writes included: `pmem_ha`'s check is what carries
it. `SoundInv` relates `map`, `magic`, `msr` and `vmm` as long as nothing was
`poked`, and gives `MappingsStaySound`; the relation of `msr` and `vmm` is part of it
because a fault is resolved in the context that runs.

**GuestContexts_proofs.** The invariant is the type of the pages, the forced bits
in the running page's MSR, and that SE and LE are set there for no other reason
(`ForcedBitsNoMore`): where the guest or the monitor takes one back, the page is written anew, and only
a write of `guest->msr` by the monitor's user lags behind. The refinement needs nothing more: the mapping
reads the running page. `ContextsImplementCpu` has one step per action; a switch
of context is a stutter of everything but MSR and PC, and a lock sequence moves PC and
nothing else of the guest's registers.

**Monitor_proofs.** `HeldGuestStays` needs that `activated` is set only inside
`mon_activate`'s loop (`ActiveInLoop`): at any other place it is clear, so only a
line read there can leave; it covers clients that leave early, whom `monitor_live`
leaves out. The other two are about the connection. `QueueInv` says that a client
which is not accepted yet waits in the backlog once and has no prompt, and if
`Patient` has typed nothing; without it an accept could bring a prompt, or
characters, from before. `SyncInv` adds to "`(sync)` means held" that no
end of line of that client is on its way, for that line may be `cont`, and that no
prompt is due; it gives `SyncPromptsTruthful`, for impatient clients too. `LineInv` says that once the
connected client was prompted or has typed, all of `ibuf` is its own; with
`Patient`, its hypothesis, it gives `LinesFromOneClient`. `MonitorTypes` includes
that the line stays inside `ibuf`.

**Ihandles_proofs.** `PlacedInPart` is what keeps `part.length - current_off`
from wrapping: a seek is checked, and a transfer of at most that much ends where a
seek could have. `TransfersWithinPartition` follows by `WrapDistance`: the
sum given to `disk_seek` may wrap, its distance from the partition's start does not
change. Neither needs an assumption on the table. `HandlesAreStreams` also uses that a
file's position is always known (`LoopInv`). `CallsAccounted` is
modular arithmetic: a pass adds the same number to the position and to
`asked - left`, both modulo the word, and a loop that goes on has met no error, so
a page is lost at most once.

**CifCalls_proofs.** `HandlersFit` and `MethodsFit` go through the table: every script
that does something reads the last argument it needs, only success has an effect, and
a script writes as many results as it has. `CallInv` says where a call is: nothing is
done before its arguments are read (`NothingYet`, `ArgsRead`), what is written stays
(`RetsWritten`), and while call-method writes its own result, that result agrees with
what the method did and where it told of it (`MethodTold`), which `AnswersTold` needs
because the two are written one after the other, the method's first. `CellMod > 8`
keeps the last argument of call-method from being the cell of the name.

**MemCommands_proofs.** For pages and memory of any size, any translation and any
transfer that the code lets begin; no step is left out, so a finished transfer may be
followed by any other. `Placed` says where a pass is: `page` and `off` are the address
of the byte `done`, and every byte before it was readable. Cutting at the pages leaves an
aligned transfer whole elements (`ChunkWhole`), so no `BUG_ON` on a size ends it, and
within a page `pmem.c`'s flip of the address bits is the swap inside an element that the
processor makes (`MungeSwap`, `CellHere`); from these, `ReadsExact` and
`FailuresTold`. For `WritesExact` two pages may be one frame: the byte that
stays is the last one written, in this pass or an earlier one (`WrittenLast`).
`StringsRead` needs that a big-endian string which runs on after its first page has no NUL
there (`Unended`). The commands' invariant says that a transfer
under a command is the load it asked for, and that the element it asks for is the one after
what was printed (`Loading`, `Following`); it gives `CommandsShowMemory`. The induction over passes
is that of the specification; for sums, products and least elements the proofs use
`LeastNatural` and its like, which say it of *sets* of naturals; each proof module that needs
them states them at its beginning.

**DeviceTree_proofs.** For every set of trees that `TreesAssumption` allows (any size, any
depth, any names, any `linux,phandle`), every table of aliases and every path
(`PathsAssumption`), every buffer (`BuffersAssumption`), and a client that only passes
phandles it was given, 0 included (`Wild = {}`, the hypothesis of all five theorems, as in the run). All
five properties of the run are proved. The first part leaves the block behind. `Layout(P)` says that `P[i]` is the place of the i-th node and
what stands there; `fdt_next_node` from one node is the next node with the depth changed by
the difference of their depths, or the end it leaves by (`NextState`). `Walk` is a recursion
without a bound: that it has a value at all is shown by giving one (`WalkExists`), and
that its value is the `Trail` of the nodes from there to the end of the subtree is an induction
from the last node back (`WalkTrail`). Then every function of `src/fdt` is a set of
nodes and its least or greatest element: `SubnodeFact`, `SiblingFact`, `ParentOffsetFact`,
`PropertyFact`, `InstanceFact`, `SubnodeOffsetFact`. `FoldLeft` is defined by a function on the *subsets*
of a sequence's domain; `IterExists` gives that function, `ChainsAgree` says that only the prefixes count.

The second part is the services. `fdt_get_path` pushes and pops names on its way through
the nodes: after the k-th, `buf` holds the longest part of the k-th node's path that
fits (`PushedCut`), so the last holds all of it or the path is refused (`GetPathFact`). Down again,
each name leads to the next node on the path or to an earlier sibling it also stands for
(`WayDown`, `PathBack`): that is `TreePathLeadsBack`. `TreeInv` says that the block is the tree's, that every phandle
given is a node's or -1, what `rom_init` may have found, and that `told` is -1 or the length of
the list as it is; it is inductive because no
service gives anything else (`StepFact`), and gives `TreeTypeOK`, `TreeWithinBuffer` and
`TreeStopsOnlyOverNone`. For the buffer, what is written is cut to the room but for the two
lists, which are as long as `getproplen` says (`AvailFact`); for the stop, every node but the root has a
parent to be found, and the root's own phandle is answered before the search, so that only 0 gets there.
`TreeImplementsPackageTree` has one lemma per service: what the offset found is the
number of (`NumberFact`) is what PackageTree answers; for `finddevice`, the two ways down a path go side by side
(`ChainsSame`), the alias first and then the rest (`FindOn`).

Only model-checked: liveness (`FaultResolved`, `PromptReached`, `InputRead`,
`CallEnds`, `Returns`, `CallReturns`), which is out of the prover's reach; and the three
violations. Every invariant, action property and refinement that a passing run checks is
a theorem.

## 5. Not modelled, and the plan

What is left to do:

* **Machine**: GuestMmu, GuestContexts and Monitor in one machine. Each has its
  own abstraction of the others now: the exits of GuestMmu and GuestContexts are
  choices of Monitor's `Execute`, and `held` and `poked` stand for what the console
  does.

Not modelled:

* Third-party code: `include/picol.h` (a Tcl interpreter, which appears as the errors a
  line or script leaves in `picol_err`, and as its limit on a string), the parts of libfdt and of
  the list header that `src/` does not call, the header checks of libfdt.
* The host: `vmachmon.h` and the thin wrappers of `vmm.c`. What the VMM may do is in
  the models as choices: evict a mapping, return with any exit code.
* Text: formatting, logging, names of errors, what prompts and banners say beyond `(sync)` and
  `(async)`. The static buffer that two of them share (`mon.c:309`) is therefore not
  seen by a property; which client gets a prompt is.
* The monitor's commands `cpu` and `rom`, which print the state of other components
  and change none; the SPRGs 1 to 3, which are plain storage like SPRG0.
* `guest_init` and the rest of `rom_init` appear as initial states: their failures end the
  program before it starts, which is a choice of `Start`.
