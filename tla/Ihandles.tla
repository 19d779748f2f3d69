------------------------------ MODULE Ihandles ------------------------------
(***************************************************************************)
(* The ihandles of src/rom.c: the services open, close, seek, read and     *)
(* write on files of the host, partitions of disk images (src/disk.c) and  *)
(* the console.                                                            *)
(*                                                                         *)
(* An ihandle is the address of the heap block that describes it.  A file  *)
(* has a descriptor of its own; all handles on a disk share the one that   *)
(* disk_open keeps.  rom_read and rom_write cut a transfer at the pages of *)
(* the guest's buffer; each pass of their loop is a step.  Numbers are     *)
(* uint32_t: WordMod stands for 2^32.                                      *)
(***************************************************************************)
EXTENDS Integers, FiniteSets

CONSTANTS
  Blocks,        \* addresses malloc returns
  Console,       \* the phandle that rom_init wraps
  Files,         \* files a client names, and disks of the device tree
  Disks,
  WordMod, PAGE_SIZE, SECTOR_SIZE,
  DiskSize,      \* st_size of a disk
  Entries,       \* what a partition table may say: start_sect, nr_sects
  Indexes,       \* partitions a client names, and NoIndex for none
  Offsets,       \* offsets, lengths and buffers a client asks for
  Lengths,
  Buffers,
  Garbage,       \* what malloc leaves in current_off
  MaxFile        \* bound of the model: where files end

NoIndex == -1

Word == 0 .. WordMod - 1
Wrap(n) == n % WordMod

ASSUME IhandlesAssumption ==
  /\ Console \notin Blocks /\ Files \cap Disks = {}
  /\ WordMod \in Nat \ {0} /\ PAGE_SIZE \in 1 .. WordMod - 2
  /\ SECTOR_SIZE \in Nat \ {0} /\ DiskSize \in Nat /\ MaxFile \in Nat
  /\ \A e \in Entries : e.start_sect \in Word /\ e.nr_sects \in Word
  /\ Offsets \subseteq Word /\ Lengths \subseteq Word /\ Buffers \subseteq Word
  /\ Garbage \subseteq Word

VARIABLES
  known,     \* known_ihandles: what each value stands for
  fdpos,     \* the position of each disk's descriptor, or Shut
  call,      \* the read or write in progress
  io,        \* history: the transfer the call made last
  alive      \* FALSE once the program has ended

vars == <<known, fdpos, call, io, alive>>

Values == Blocks \cup {Console}

Handle == [kind : {"none", "file", "disk", "console"}, dev : Files \cup Disks \cup {"none"},
           base : Word, length : Word, pos : Nat,
           placed : BOOLEAN]     \* history: pos was set, not found in the block

Unknown == [kind |-> "none", dev |-> "none", base |-> 0, length |-> 0, pos |-> 0,
            placed |-> FALSE]

Shut == -1

Idle == [service |-> "none", h |-> Console, ea |-> 0, left |-> 0, asked |-> 0,
         start |-> 0, err |-> "ERR_NONE", more |-> FALSE]

NoIO == [dev |-> "none", at |-> 0, n |-> 0]

(* An ihandle of the device tree, with methods of the program.             *)
rom_wrap_ihandle_with_methods(kind) == [Unknown EXCEPT !.kind = kind]

(* rom_init: the console is the only ihandle.                              *)
Init ==
  /\ known = [v \in Values |-> IF v = Console THEN rom_wrap_ihandle_with_methods("console")
                                              ELSE Unknown]
  /\ fdpos = [d \in Disks |-> Shut]
  /\ call = Idle /\ io = NoIO
  /\ alive = TRUE

Die == alive' = FALSE /\ UNCHANGED <<known, fdpos, call, io>>

-----------------------------------------------------------------------------
(* malloc returns any block that is not in use, one that was freed before  *)
(* too, or nothing.                                                        *)
Install(s) ==
  \/ \E v \in {b \in Blocks : known[b] = Unknown} : known' = [known EXCEPT ![v] = s]
  \/ UNCHANGED known

(* rom_ihandle_from_file; the host's open may fail.                        *)
OpenFile(f) ==
  /\ Install([kind |-> "file", dev |-> f, base |-> 0, length |-> 0, pos |-> 0, placed |-> TRUE])
  /\ UNCHANGED <<fdpos, call, io, alive>>

(* rom_ihandle_from_disk copies the partition and leaves current_off.      *)
InstallPart(d, off, length) ==
  \E g \in Garbage :
    Install([kind |-> "disk", dev |-> d, base |-> off, length |-> length,
             pos |-> g, placed |-> FALSE])

(* disk_find_part: the whole disk, or an entry of the table in sector 0,   *)
(* which is read through the shared descriptor.  The read may fall short,  *)
(* there may be no table, and no partition has a number of 4 or more.      *)
FindPart(d, index) ==
  \/ /\ index = 0
     /\ fdpos' = [fdpos EXCEPT ![d] = IF @ = Shut THEN 0 ELSE @]
     /\ InstallPart(d, 0, Wrap(DiskSize))
  \/ /\ index # 0
     /\ \E p \in 0 .. SECTOR_SIZE : fdpos' = [fdpos EXCEPT ![d] = p]
     /\ \/ UNCHANGED known
        \/ /\ fdpos'[d] = SECTOR_SIZE /\ index < 4
           /\ \E e \in Entries :
                InstallPart(d, Wrap(e.start_sect * SECTOR_SIZE), Wrap(e.nr_sects * SECTOR_SIZE))

(* A disk that cannot be opened changes nothing.  A path without a         *)
(* partition makes atoi read through a null pointer.                       *)
OpenDisk(d, index) ==
  \/ index = NoIndex /\ Die
  \/ index # NoIndex /\ FindPart(d, index) /\ UNCHANGED <<call, io, alive>>

rom_open == (\E f \in Files : OpenFile(f)) \/ \E d \in Disks, i \in Indexes : OpenDisk(d, i)

(* The block is freed.  A file's descriptor goes with it, a disk's stays.  *)
rom_file_close(v) ==
  /\ known' = [known EXCEPT ![v] = Unknown]
  /\ UNCHANGED fdpos

disk_close(d) == UNCHANGED fdpos

rom_disk_close(v) ==
  /\ disk_close(known[v].dev)
  /\ known' = [known EXCEPT ![v] = Unknown]

(* The console has no close method.                                        *)
rom_close(v) ==
  /\ \/ known[v].kind = "file" /\ rom_file_close(v)
     \/ known[v].kind = "disk" /\ rom_disk_close(v)
  /\ UNCHANGED <<call, io, alive>>

(* lseek moves the descriptor and returns the position, which the code     *)
(* takes for an int: from 2^31 on it looks like a failure.                 *)
LooksFailed(off) == off >= WordMod \div 2

rom_file_seek(v, off) ==
  known' = [known EXCEPT ![v].pos = off]

rom_disk_seek(v, off) ==
  IF off > known[v].length
    THEN UNCHANGED known
    ELSE known' = [known EXCEPT ![v].pos = off, ![v].placed = TRUE]

(* An offset of more than a word stops the program.                        *)
rom_seek(v, off_hi, off_lo) ==
  \/ off_hi # 0 /\ Die
  \/ /\ off_hi = 0
     /\ \/ known[v].kind = "file" /\ rom_file_seek(v, off_lo)
        \/ known[v].kind = "disk" /\ rom_disk_seek(v, off_lo)
     /\ UNCHANGED <<fdpos, call, io, alive>>

-----------------------------------------------------------------------------
(* Transfers of n of x bytes.  The host may fail one, or do a part of it.  *)
rom_file_transfer(v, x, n) ==
  /\ n \in 0 .. x
  /\ n > 0 => known[v].pos + n <= MaxFile
  /\ io' = [dev |-> known[v].dev, at |-> known[v].pos, n |-> n]
  /\ known' = [known EXCEPT ![v].pos = @ + n]
  /\ UNCHANGED fdpos

Smaller(x, y) == IF x < y THEN x ELSE y

(* disk_in and disk_out at the descriptor's position.                      *)
DiskIO(v, at, x, n) ==
  /\ n \in 0 .. x
  /\ io' = [dev |-> known[v].dev, at |-> at, n |-> n]
  /\ fdpos' = [fdpos EXCEPT ![known[v].dev] = at + n]
  /\ known' = [known EXCEPT ![v].pos = Wrap(@ + n)]

(* Variants: no seek before the transfer, no cut at the partition's end.   *)
rom_disk_transfer_NoSeek(v, x, n) ==
  DiskIO(v, fdpos[known[v].dev], Smaller(x, Wrap(known[v].length - known[v].pos)), n)

rom_disk_transfer_NoCut(v, x, n) == DiskIO(v, Wrap(known[v].base + known[v].pos), x, n)

rom_disk_transfer(v, x, n) ==
  LET h == known[v]
      at == Wrap(h.base + h.pos)
  IN  IF LooksFailed(at)
        THEN /\ n = 0
             /\ fdpos' = [fdpos EXCEPT ![h.dev] = at]
             /\ io' = NoIO /\ UNCHANGED known
        ELSE DiskIO(v, at, Smaller(x, Wrap(h.length - h.pos)), n)

(* rom_console_read; rom_console_write counts len down past 0.             *)
rom_console_transfer(service, x, n) ==
  /\ IF service = "read" THEN n \in 0 .. x ELSE n = WordMod - 1
  /\ UNCHANGED <<known, fdpos, io>>

Method(v, x, n) ==
  \/ known[v].kind = "file" /\ rom_file_transfer(v, x, n)
  \/ known[v].kind = "disk" /\ rom_disk_transfer(v, x, n)
  \/ known[v].kind = "console" /\ rom_console_transfer(call.service, x, n)

Begin(service, v, ea, len) ==
  /\ known[v] # Unknown
  /\ call' = [service |-> service, h |-> v, ea |-> ea, left |-> len, asked |-> len,
              start |-> known[v].pos, err |-> "ERR_NONE", more |-> len # 0]
  /\ UNCHANGED <<known, fdpos, io, alive>>

(* What is asked of the method: up to the end of the guest's page.         *)
Xfer == Smaller(call.left, PAGE_SIZE - (call.ea % PAGE_SIZE))

PFN(ea) == ea \div PAGE_SIZE

Fault == call' = [call EXCEPT !.err = "ERR_BAD_ACCESS", !.more = FALSE]

(* Variants: what was asked for counted instead of what was done, a short  *)
(* transfer that is tried again.                                           *)
Count_Asked(x, n) ==
  call' = [call EXCEPT !.left = Wrap(@ - x), !.ea = Wrap(@ + x),
                       !.more = (n = x /\ call.left # x)]

Count_Retry(x, n) ==
  call' = [call EXCEPT !.left = Wrap(@ - n), !.ea = Wrap(@ + n), !.more = (call.left # n)]

Count(x, n) ==
  IF n = x
    THEN call' = [call EXCEPT !.left = @ - n, !.ea = Wrap(@ + x), !.more = (call.left # n)]
    ELSE call' = [call EXCEPT !.left = Wrap(@ - n), !.err = "ERR_NOT_READY", !.more = FALSE]

(* One pass of the loop of rom_read.  guest_to may fail after the method   *)
(* has moved the handle, unless there is nothing to copy.                  *)
rom_read ==
  /\ call.service = "read" /\ call.more
  /\ alive' = (PFN(call.ea) = PFN(call.ea + Xfer - 1))
  /\ \E n \in 0 .. Xfer :
       /\ Method(call.h, Xfer, n)
       /\ Count(Xfer, n) \/ (n # 0 /\ Fault)

(* One pass of the loop of rom_write, where guest_from comes first.        *)
rom_write ==
  /\ call.service = "write" /\ call.more
  /\ \/ Fault /\ UNCHANGED <<known, fdpos, io, alive>>
     \/ /\ alive' = (PFN(call.ea) = PFN(call.ea + Xfer - 1))
        /\ \E n \in 0 .. Xfer \cup {WordMod - 1} : Method(call.h, Xfer, n) /\ Count(Xfer, n)

(* The count the client gets.                                              *)
Result == Wrap(call.asked - call.left)

Return ==
  /\ call # Idle /\ ~call.more
  /\ call' = Idle /\ io' = NoIO
  /\ UNCHANGED <<known, fdpos, alive>>

(* The end of main, which calls disk_bye.                                  *)
disk_bye ==
  /\ alive' = FALSE
  /\ fdpos' = [d \in Disks |-> Shut]
  /\ UNCHANGED <<known, call, io>>

Service ==
  \/ rom_open
  \/ \E v \in Values : rom_close(v)
  \/ \E v \in Values, hi \in {0, 1}, lo \in Offsets : rom_seek(v, hi, lo)
  \/ \E s \in {"read", "write"}, v \in Values, ea \in Buffers, len \in Lengths :
       Begin(s, v, ea, len)
  \/ disk_bye

Loop == rom_read \/ rom_write \/ Return

Next == alive /\ ((call = Idle /\ Service) \/ Loop)

Spec == Init /\ [][Next]_vars

(* The program is in rom_read or rom_write until the call returns.         *)
FairSpec == Spec /\ WF_vars(alive /\ Loop)

-----------------------------------------------------------------------------
Calls == [service : {"none", "read", "write"}, h : Values, ea : Word, left : Word,
          asked : Word, start : Nat, err : {"ERR_NONE", "ERR_NOT_READY", "ERR_BAD_ACCESS"},
          more : BOOLEAN]

TypeOK ==
  /\ known \in [Values -> Handle]
  /\ fdpos \in [Disks -> Nat \cup {Shut}]
  /\ call \in Calls
  /\ io \in [dev : Files \cup Disks \cup {"none"}, at : Nat, n : Nat]
  /\ alive \in BOOLEAN

(* rom_disk_seek and the transfers keep a handle that was placed inside its*)
(* partition, whatever the partition table says.                           *)
PlacedInPart ==
  \A v \in Values : known[v].kind = "disk" /\ known[v].placed => known[v].pos <= known[v].length

(* Nothing outside of the partition is read or written through a handle    *)
(* that was placed, whatever the partition table says: a transfer starts   *)
(* after the partition's start and ends by its length, as uint32_t counts, *)
(* which for a partition that does not wrap around is where it lies.       *)
WithinPartition ==
  LET h == known[call.h]
  IN  io.n > 0 /\ h.kind = "disk" /\ h.placed =>
        Wrap(io.at - h.base) + io.n <= h.length

(* The count that rom_read and rom_write return is how far they moved the  *)
(* handle.  A read whose data the guest's memory refused has moved it up   *)
(* to a page further; the console is not counted.                          *)
Accounted ==
  call.service # "none" /\ known[call.h].kind # "console" =>
    \E lost \in 0 .. PAGE_SIZE :
      /\ Wrap(known[call.h].pos - call.start) = Wrap(Result + lost)
      /\ lost > 0 => call.service = "read" /\ call.err = "ERR_BAD_ACCESS"

(* A read or write ends, at the end of a file and on errors too.           *)
CallEnds == [](call # Idle => <>(call = Idle \/ ~alive))

(* Handles on one disk do not move each other, though they share its       *)
(* descriptor and disk_find_part reads through it.                         *)
Private == INSTANCE Streams WITH stream <- known, Handles <- Handle

ImplementsStreams == Private!Spec
=============================================================================
