----------------------------- MODULE MemCommands -----------------------------
(***************************************************************************)
(* The monitor's commands that look at memory, of src/mon.c: d8, d16, d32  *)
(* and dc (dump), mr8 .. mr32 at guest addresses and pr8 .. pr32 at        *)
(* physical ones (memread), and mrs (memreadstring), each a loop of        *)
(* transfers of GuestMem, and gra, which shows where a guest address lies. *)
(* The guest does not run meanwhile.                                       *)
(***************************************************************************)
EXTENDS GuestMem, Sequences

CONSTANTS
  Commands,   \* what the user types: records name, virt, page, off, size, count
  MaxStr      \* PICOL_MAX_STR

ASSUME CommandsAssumption ==
  \A c \in Commands :
    /\ c \in [name : {"dump", "memread", "memreadstring", "gra"}, virt : BOOLEAN,
              page : Nat, off : Offsets, size : AccessSizes, count : Nat]
    /\ c.name = "gra" => c.size = 1 /\ c.count = 1   \* it is given one address

VARIABLES
  cmd,           \* the command that runs, or the last one
  running,
  left,          \* count
  eaPage, eaOff, \* ea
  out,           \* what was printed, or joined to the result, as bytes; or
                 \* the address that gra found
  result         \* of the command: "ok", "error", "stopped" by a BUG_ON,
                 \* or "none" when it is old

cmdVars == <<cmd, running, left, eaPage, eaOff, out, result>>
allVars == <<vars, cmdVars>>

NoCommand ==
  [name |-> "none", virt |-> TRUE, page |-> 0, off |-> 0, size |-> 1, count |-> 0]

CmdInit ==
  /\ Init
  /\ cmd = NoCommand
  /\ running = FALSE /\ left = 0 /\ eaPage = 0 /\ eaOff = 0
  /\ out = <<>> /\ result = "none"

(* As in Begin, unaligned accesses are those of a big-endian guest.        *)
Type(c) ==
  /\ pc = "idle" /\ ~running /\ result # "stopped"
  /\ little => c.off % c.size = 0
  /\ cmd' = c /\ running' = TRUE /\ left' = c.count
  /\ eaPage' = c.page /\ eaOff' = c.off
  /\ out' = <<>> /\ result' = "none"
  /\ UNCHANGED vars

(* A variant of each: a count that is tested after the element was read, an*)
(* address that moves by one whatever was read.                            *)
More_After == IF cmd.name = "memreadstring" THEN TRUE ELSE left > 0 \/ out = <<>>
More == IF cmd.name = "memreadstring" THEN TRUE ELSE left > 0

Advance_Byte ==
  /\ eaPage' = eaPage + (eaOff + 1) \div PageSize
  /\ eaOff' = (eaOff + 1) % PageSize

Advance ==
  /\ eaPage' = eaPage + (eaOff + cmd.size) \div PageSize
  /\ eaOff' = (eaOff + cmd.size) % PageSize

Virtual == cmd.name # "memread" \/ cmd.virt

(* guest_from_x                                                            *)
Load ==
  /\ running /\ More /\ Virtual /\ cmd.name # "gra"
  /\ Begin([op |-> "from", page |-> eaPage, off |-> eaOff,
            bytes |-> cmd.size, size |-> cmd.size, nul |-> FALSE])
  /\ UNCHANGED cmdVars

Ends(r) ==
  /\ running' = FALSE /\ result' = r
  /\ UNCHANGED <<cmd, left, eaPage, eaOff, out>>

(* The list that memread makes is of words 0x and two digits for each byte.*)
TooLong ==
  cmd.name = "memread" /\ (Len(out) + 1) * (2 * cmd.size + 3) > MaxStr

Value(v) ==
  IF TooLong THEN Ends("error")
  ELSE IF cmd.name = "memreadstring" /\ v = <<0>> THEN Ends("ok")
  ELSE /\ out' = Append(out, v)
       /\ left' = IF cmd.name = "memreadstring" THEN left ELSE left - 1
       /\ Advance
       /\ UNCHANGED <<cmd, running, result>>

(* memreadstring's strncat does not look for the end of its buffer: past it*)
(* nothing is known, and the model stops.                                  *)
Overrun ==
  /\ running /\ cmd.name = "memreadstring" /\ Len(out) = MaxStr - 1
  /\ pc = "ok" /\ buf[0] # 0

Loaded ==
  /\ running /\ Virtual /\ ~Overrun
  /\ Done
  /\ IF pc = "ok" THEN Value([i \in 1 .. cmd.size |-> buf[i - 1]]) ELSE Ends("error")

(* pmem_from_x: the page is a frame, the next frame follows it, and what is*)
(* cut is cut at the end of memory.                                        *)
Cut == {i \in 0 .. cmd.size - 1 : eaPage * PageSize + eaOff + i < PmemSize}

LoadPhysical ==
  /\ running /\ More /\ ~Virtual /\ pc = "idle"
  /\ IF Cut = {} THEN Ends("error") /\ UNCHANGED vars
     ELSE IF Cardinality(Cut) % cmd.size # 0 THEN Ends("stopped") /\ UNCHANGED vars
     ELSE IF Cardinality(Cut) < cmd.size THEN Ends("error") /\ UNCHANGED vars
     ELSE /\ Value([i \in 1 .. cmd.size |->
                      pmem[eaPage * PageSize + Where(eaOff + i - 1, cmd.size)]])
          /\ UNCHANGED vars

gra ==
  /\ running /\ More /\ cmd.name = "gra"
  /\ IF guest_backmap(eaPage) = None THEN Ends("error")
     ELSE /\ out' = <<[i \in 1 .. 1 |-> guest_backmap(eaPage) * PageSize + eaOff]>>
          /\ left' = 0
          /\ UNCHANGED <<cmd, running, eaPage, eaOff, result>>
  /\ UNCHANGED vars

Finish ==
  /\ running /\ ~More /\ pc = "idle"
  /\ Ends("ok")
  /\ UNCHANGED vars

(* Bound: one transfer writes to memory.                                   *)
Unwritten == pmem \in Contents

(* Between commands, the services of the client interface.                 *)
Serve ==
  /\ ~running /\ result # "stopped"
  /\ Done \/ \E t \in Transfers : (t.op = "to" => Unwritten) /\ Begin(t)
  /\ cmd' = NoCommand /\ left' = 0 /\ eaPage' = 0 /\ eaOff' = 0
  /\ out' = <<>> /\ result' = "none"
  /\ UNCHANGED running

Step == (Pass /\ UNCHANGED cmdVars) \/ Load \/ Loaded \/ LoadPhysical \/ gra \/ Finish

CmdNext == Step \/ Serve \/ \E c \in Commands : Type(c)

CmdSpec == CmdInit /\ [][CmdNext]_allVars

(* A command and a transfer run in one thread, which does nothing else     *)
(* until they return.                                                      *)
CmdFairSpec == CmdSpec /\ WF_allVars(Step)

-----------------------------------------------------------------------------
(* The values the commands' variables have.                                *)
CmdTypeOK ==
  /\ TypeOK
  /\ running \in BOOLEAN /\ left \in Nat /\ eaPage \in Nat /\ eaOff \in Offsets
  /\ \A k \in 1 .. Len(out) :
       out[k] \in [1 .. cmd.size -> IF cmd.name = "gra" THEN 0 .. PmemSize - 1 ELSE Byte]
  /\ result \in {"none", "ok", "error", "stopped"}

(* Element k of what a command looks at: where its byte j is.              *)
ElementPage(k) == cmd.page + (cmd.off + k * cmd.size) \div PageSize
ElementOff(k) == (cmd.off + k * cmd.size) % PageSize

ElementCell(k, j) ==
  LET at == IF little THEN cmd.size - 1 - j ELSE j
      p == ElementPage(k) + (ElementOff(k) + at) \div PageSize
      o == (ElementOff(k) + at) % PageSize
  IN  IF Virtual THEN GuestByte(p, o)
      ELSE p * PageSize + IF little THEN (o - (o % 8)) + 7 - (o % 8) ELSE o

Element(k) == [j \in 1 .. cmd.size |-> pmem[ElementCell(k, j - 1)]]

ElementThere(k) ==
  LET p == ElementPage(k)
  IN  IF Virtual THEN guest_backmap(p) # None ELSE p < Frames

(* What element k of the output stands for: gra's is an address, of a byte.*)
Munged(a) == IF little THEN (a - (a % 8)) + 7 - (a % 8) ELSE a

Shown(k) == IF cmd.name = "gra" THEN [j \in 1 .. 1 |-> pmem[Munged(out[k + 1][1])]] ELSE out[k + 1]

(* What dump, memread and memreadstring show is the guest's memory, one    *)
(* element after the other and none skipped: all that were asked for, or   *)
(* all up to the NUL, when the command succeeds, and all up to the first   *)
(* that cannot be read when it fails.  The address gra gives is where the  *)
(* guest's byte is.  Only an unaligned access stops the program.           *)
ShowsMemory ==
  (running \/ result # "none") =>
    /\ \A k \in 0 .. Len(out) - 1 : ElementThere(k) /\ Shown(k) = Element(k)
    /\ result = "ok" =>
         IF cmd.name = "memreadstring"
           THEN /\ \A k \in 1 .. Len(out) : out[k] # <<0>>
                /\ ElementThere(Len(out)) /\ Element(Len(out)) = <<0>>
           ELSE Len(out) = cmd.count
    /\ result = "error" => ~ElementThere(Len(out)) \/ TooLong
    /\ result = "stopped" => cmd.off % cmd.size # 0

(* Every command and every transfer returns, unless it runs into a BUG_ON  *)
(* or past the end of memreadstring's buffer: no loop waits for memory that*)
(* is not there.                                                           *)
Returns ==
  (running \/ pc = "busy") ~> (~running /\ pc # "busy") \/ pc = "stopped" \/ Overrun
=============================================================================
