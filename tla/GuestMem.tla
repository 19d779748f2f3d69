------------------------------ MODULE GuestMem ------------------------------
(***************************************************************************)
(* Transfers between host buffers and guest memory: guest_from_ex and      *)
(* guest_to of src/guest.c, which cut a transfer at the pages of the guest,*)
(* over pmem_from_ex and pmem_to of src/pmem.c, which find the bytes of a  *)
(* little-endian guest where a PowerPC in that mode keeps them.            *)
(*                                                                         *)
(* A guest address is a page and an offset in it.  One step is one pass of *)
(* the loop of guest_from_ex or guest_to.                                  *)
(***************************************************************************)
EXTENDS Integers, FiniteSets, FiniteSetsExt

CONSTANTS
  PageSize,
  Pages,      \* of the guest's addresses, 0 .. Pages - 1; above is nothing
  Frames,     \* of its memory
  Byte,
  Xlats,      \* what guest_backmap may find: a frame of each page, or None
  Contents,   \* what memory may hold at first
  Transfers,  \* what may be asked for: records op, page, off, bytes, size, nul
  Data        \* what guest_to is given: the byte at each place

AccessSizes == {1, 2, 4}
Offsets == 0 .. PageSize - 1
None == -1

ASSUME PageAssumption == PageSize \in Nat \ {0} /\ PageSize % 8 = 0
ASSUME MemAssumption ==
  /\ Pages \in Nat /\ Frames \in Nat /\ Byte \subseteq Nat /\ 0 \in Byte
  /\ Xlats \subseteq [0 .. Pages - 1 -> {None} \cup (0 .. Frames - 1)]
  /\ Contents \subseteq [0 .. Frames * PageSize - 1 -> Byte]
ASSUME TransfersAssumption ==
  /\ \A t \in Transfers :
       /\ t.op = "to" => \A i \in 0 .. t.bytes - 1 : Data[i] \in Byte
       /\ t \in [op : {"from", "to"}, page : Nat, off : Offsets, bytes : Nat,
                 size : AccessSizes, nul : BOOLEAN]
       /\ t.nul => t.op = "from" /\ t.size = 1   \* the BUG_ON of guest_from_ex

VARIABLES
  little,   \* guest_is_little()
  xlat,     \* guest_backmap of each page
  pmem,
  was,      \* history: memory before the transfer
  req,      \* the transfer
  page, off, \* where its next byte is
  done,     \* bytes - left
  buf,      \* the host's buffer
  pc        \* "idle", "busy", "ok", "short", or "stopped" by a BUG_ON

vars == <<little, xlat, pmem, was, req, page, off, done, buf, pc>>

Least(a, b) == IF a < b THEN a ELSE b

PmemSize == Frames * PageSize

(* Variants of definitions, for the properties to tell apart: an address   *)
(* that is munged like a byte's whatever the size, a failure that is not   *)
(* told or does not leave the loop, a write that begins again at the start *)
(* of its buffer, a NUL that is counted.                                   *)
Where_Byte(o, s) == IF little THEN (o - (o % 8)) + 7 - (o % 8) ELSE o

(* Where byte j of an access of s bytes at offset o is.  In little-endian  *)
(* mode the low bits of the address are XORed with 8 - s, which for a      *)
(* multiple of s is a subtraction, and the bytes of one access stay in the *)
(* order of the host.                                                      *)
Where(o, s) ==
  IF little THEN (o - (o % 8)) + 8 - s - (o % 8) + 2 * (o % s) ELSE o

Aligned(t) == t.off % t.size = 0 /\ t.bytes % t.size = 0

NoBytes == [i \in {} |-> 0]
NoRequest == [op |-> "none", page |-> 0, off |-> 0, bytes |-> 0, size |-> 1, nul |-> FALSE]

-----------------------------------------------------------------------------
Init ==
  /\ little \in BOOLEAN
  /\ xlat \in Xlats /\ pmem \in Contents
  /\ was = pmem
  /\ req = NoRequest
  /\ page = 0 /\ off = 0 /\ done = 0
  /\ buf = NoBytes
  /\ pc = "idle"

(* What an unaligned access finds in little-endian mode is not modelled.   *)
Begin(t) ==
  /\ pc = "idle"
  /\ little => Aligned(t)
  /\ req' = t /\ page' = t.page /\ off' = t.off
  /\ done' = 0 /\ was' = pmem
  /\ buf' = IF t.op = "to" THEN [i \in 0 .. t.bytes - 1 |-> Data[i]] ELSE NoBytes
  /\ pc' = "busy"
  /\ UNCHANGED <<little, xlat, pmem>>

(* xfer_size: up to the end of the page.                                   *)
Chunk == Least(PageSize - off, req.bytes - done)

guest_backmap(p) == IF p < Pages THEN xlat[p] ELSE None

InMemory == guest_backmap(page) # None

(* gra                                                                     *)
At(o) == xlat[page] * PageSize + o

Fails_Silent ==
  /\ pc = "busy" /\ ~InMemory
  /\ pc' = "ok"
  /\ UNCHANGED <<little, xlat, pmem, was, req, page, off, done, buf>>

Fails_Retry ==
  /\ pc = "busy" /\ ~InMemory
  /\ pc' = IF done = req.bytes THEN "ok" ELSE "busy"
  /\ UNCHANGED <<little, xlat, pmem, was, req, page, off, done, buf>>

Fails ==
  /\ pc = "busy" /\ ~InMemory
  /\ pc' = IF done = req.bytes THEN "ok" ELSE "short"
  /\ UNCHANGED <<little, xlat, pmem, was, req, page, off, done, buf>>

(* The BUG_ONs on an access size that does not divide the transfer.        *)
Stops ==
  /\ pc = "busy" /\ InMemory /\ Chunk % req.size # 0
  /\ pc' = "stopped"
  /\ UNCHANGED <<little, xlat, pmem, was, req, page, off, done, buf>>

(* n bytes of the chunk were transferred.                                  *)
Moves(n) ==
  /\ done' = done + n
  /\ page' = IF off + Chunk = PageSize THEN page + 1 ELSE page
  /\ off' = IF off + Chunk = PageSize THEN 0 ELSE off + Chunk
  /\ pc' = IF done + n = req.bytes THEN "ok" ELSE IF n = Chunk THEN "busy" ELSE "short"
  /\ UNCHANGED <<little, xlat, was, req>>

(* The byte of the chunk that goes to a, from a buffer that begins at d.   *)
Written(a, d) ==
  LET here == {i \in 0 .. Chunk - 1 : At(Where(off + i, req.size)) = a}
  IN  IF here = {} THEN pmem[a] ELSE buf[d + Max(here)]

pmem_to_Rewind ==
  /\ pc = "busy" /\ InMemory /\ Chunk % req.size = 0
  /\ req.op = "to"
  /\ pmem' = [a \in 0 .. PmemSize - 1 |-> Written(a, 0)]
  /\ Moves(Chunk)
  /\ UNCHANGED buf

pmem_to ==
  /\ pc = "busy" /\ InMemory /\ Chunk % req.size = 0
  /\ req.op = "to"
  /\ pmem' = [a \in 0 .. PmemSize - 1 |-> Written(a, done)]
  /\ Moves(Chunk)
  /\ UNCHANGED buf

(* n bytes of memory join the buffer.                                      *)
Copies(n) ==
  buf' = [i \in 0 .. done + n - 1 |->
            IF i < done THEN buf[i] ELSE pmem[At(Where(off + i - done, req.size))]]

pmem_from ==
  /\ pc = "busy" /\ InMemory /\ Chunk % req.size = 0
  /\ req.op = "from" /\ ~req.nul
  /\ Copies(Chunk) /\ Moves(Chunk)
  /\ UNCHANGED pmem

(* A NUL-terminated read of a little-endian guest stops at the NUL, which  *)
(* is copied and not counted.                                              *)
Nuls == {i \in 0 .. Chunk - 1 : pmem[At(Where(off + i, 1))] = 0}

FromString_Counted ==
  /\ pc = "busy" /\ InMemory
  /\ req.op = "from" /\ req.nul /\ little
  /\ IF Nuls = {} THEN Copies(Chunk) /\ Moves(Chunk)
     ELSE Copies(Min(Nuls) + 1) /\ Moves(Min(Nuls) + 1)
  /\ UNCHANGED pmem

FromString ==
  /\ pc = "busy" /\ InMemory
  /\ req.op = "from" /\ req.nul /\ little
  /\ IF Nuls = {} THEN Copies(Chunk) /\ Moves(Chunk)
     ELSE Copies(Min(Nuls) + 1) /\ Moves(Min(Nuls))
  /\ UNCHANGED pmem

(* That of a big-endian guest is a strlcpy, which keeps a byte of the chunk*)
(* for its NUL and returns the length of all of the string as memory lies. *)
(* Past the end of memory is a NUL.                                        *)
Strlen(a) ==
  LET ends == {b \in a .. PmemSize - 1 : pmem[b] = 0}
  IN  (IF ends = {} THEN PmemSize ELSE Min(ends)) - a

FromStringBig ==
  /\ pc = "busy" /\ InMemory
  /\ req.op = "from" /\ req.nul /\ ~little
  /\ LET n == Strlen(At(off))
         kept == Least(n, Chunk - 1)
     IN  /\ buf' = [i \in 0 .. done + kept |->
                      IF i < done THEN IF i \in DOMAIN buf THEN buf[i] ELSE 0
                      ELSE IF i = done + kept THEN 0 ELSE pmem[At(off + i - done)]]
         /\ Moves(n)
  /\ UNCHANGED pmem

(* It returns, and what it kept track of is gone.                          *)
Done ==
  /\ pc \in {"ok", "short"}
  /\ req' = NoRequest /\ page' = 0 /\ off' = 0 /\ done' = 0
  /\ buf' = NoBytes
  /\ was' = pmem
  /\ pc' = "idle"
  /\ UNCHANGED <<little, xlat, pmem>>

Pass == Fails \/ Stops \/ pmem_to \/ pmem_from \/ FromString \/ FromStringBig

Next == Pass \/ Done \/ \E t \in Transfers : Begin(t)

Spec == Init /\ [][Next]_vars

-----------------------------------------------------------------------------
(* The values the variables have.                                          *)
TypeOK ==
  /\ little \in BOOLEAN
  /\ xlat \in [0 .. Pages - 1 -> {None} \cup (0 .. Frames - 1)]
  /\ pmem \in [0 .. PmemSize - 1 -> Byte] /\ was \in [0 .. PmemSize - 1 -> Byte]
  /\ req \in [op : {"none", "from", "to"}, page : Nat, off : Offsets, bytes : Nat,
               size : AccessSizes, nul : BOOLEAN]
  /\ page \in Nat /\ off \in Offsets /\ done \in Nat
  /\ pc \in {"idle", "busy", "ok", "short", "stopped"}
  /\ pc = "busy" => done <= req.bytes

(* The guest address i bytes after the start of the transfer.              *)
PageOf(i) == req.page + (req.off + i) \div PageSize
OffOf(i) == (req.off + i) % PageSize

Readable(i) == guest_backmap(PageOf(i)) # None

(* Where a byte of the guest is: in little-endian mode a byte access flips *)
(* all three low bits of its address.                                      *)
GuestByte(p, o) ==
  xlat[p] * PageSize + IF little THEN (o - (o % 8)) + 7 - (o % 8) ELSE o

(* The guest address of byte i of the buffer.  The host has the most       *)
(* significant byte of a value first, a little-endian guest has it last.   *)
Swapped(i) == IF little THEN (i - (i % req.size)) + req.size - 1 - (i % req.size) ELSE i

Cell(i) == GuestByte(PageOf(Swapped(i)), OffOf(Swapped(i)))

(* What guest_from reads is, at every pass, what the guest would load with *)
(* accesses of that size: the munged addresses of the three sizes agree    *)
(* with each other and with the guest's byte order, across pages that lie  *)
(* anywhere in memory.                                                     *)
ReadExact ==
  (req.op = "from" /\ ~req.nul) => \A i \in 0 .. done - 1 : buf[i] = pmem[Cell(i)]

(* guest_to leaves each byte at the guest's address for it, the last one if*)
(* two of its pages are the same memory, and changes nothing else, however *)
(* far it got before a page was missing.                                   *)
WriteExact ==
  \A a \in 0 .. PmemSize - 1 :
    LET mine == {i \in 0 .. done - 1 : Cell(i) = a}
    IN  pmem[a] = IF req.op = "to" /\ mine # {} THEN buf[Max(mine)] ELSE was[a]

(* A transfer without NUL is told to have failed exactly when a page of it *)
(* is missing, and everything before that page was transferred; and the    *)
(* BUG_ONs on sizes end it for unaligned accesses alone, since cutting a   *)
(* transfer at the pages leaves aligned ones whole.                        *)
FailureTold ==
  /\ (pc \in {"ok", "short"} /\ ~req.nul) =>
       LET missing == {i \in 0 .. req.bytes - 1 : ~Readable(i)}
       IN  /\ pc = "ok" <=> missing = {}
           /\ done = IF missing = {} THEN req.bytes ELSE Min(missing)
  /\ pc = "stopped" => ~Aligned(req)

(* A string that a little-endian guest passes is read up to its NUL, the   *)
(* end of the buffer or of memory, and the NUL is not counted; that of a   *)
(* big-endian guest, if it ends before its page does and fits the buffer.  *)
StringRead ==
  (pc \in {"ok", "short"} /\ req.nul) =>
    LET end == Min({req.bytes} \cup {i \in 0 .. req.bytes - 1 : ~Readable(i) \/ pmem[Cell(i)] = 0})
        whole == end < req.bytes /\ Readable(end)
    IN  (little \/ (whole /\ PageOf(end) = PageOf(0))) =>
          /\ done = end
          /\ \A i \in 0 .. end - 1 : buf[i] = pmem[Cell(i)]
          /\ whole => buf[end] = 0
=============================================================================
