-------------------------- MODULE Ihandles_proofs ---------------------------
(***************************************************************************)
(* Safety of Ihandles, and that it implements Streams, for words, pages,   *)
(* sectors and partition tables of any size and any number of handles.     *)
(***************************************************************************)
EXTENDS Ihandles, TLAPS

-----------------------------------------------------------------------------
(* Arithmetic modulo the word.                                             *)
LEMMA WrapType ==
  ASSUME NEW n \in Int
  PROVE  /\ Wrap(n) \in Word /\ n \div WordMod \in Int
         /\ n = WordMod * (n \div WordMod) + Wrap(n)
  BY IhandlesAssumption DEF Wrap, Word

LEMMA WrapNat ==
  ASSUME NEW n \in Int
  PROVE  Wrap(n) \in Word /\ Wrap(n) \in Nat /\ Wrap(n) < WordMod
<1>1. Wrap(n) \in Word
  BY WrapType
<1> QED BY <1>1, IhandlesAssumption DEF Word

LEMMA WrapUnique ==
  ASSUME NEW q \in Int, NEW r \in Word
  PROVE  Wrap(WordMod * q + r) = r
<1> DEFINE n == WordMod * q + r
           p == n \div WordMod
<1>0. WordMod \in Nat /\ WordMod > 0 /\ r \in Int /\ n \in Int
  BY IhandlesAssumption DEF Word
<1>1. n = WordMod * p + Wrap(n) /\ p \in Int /\ Wrap(n) \in Word
  BY <1>0, WrapType
<1> HIDE DEF p
<1>2. WordMod * (q - p) = Wrap(n) - r /\ q - p \in Int
  BY <1>0, <1>1 DEF Word
<1>3. q - p < 1 /\ q - p > -1
  BY <1>0, <1>1, <1>2 DEF Word
<1>4. q - p = 0
  BY <1>2, <1>3
<1> HIDE DEF n
<1>5. Wrap(n) - r = 0
  BY <1>0, <1>2, <1>4
<1> QED BY <1>0, <1>1, <1>5 DEF Word, n

LEMMA WrapSmall ==
  ASSUME NEW r \in Word
  PROVE  Wrap(r) = r
<1>1. WordMod * 0 + r = r
  BY IhandlesAssumption DEF Word
<1> QED BY <1>1, WrapUnique

LEMMA WrapShift ==
  ASSUME NEW n \in Int, NEW q \in Int
  PROVE  Wrap(n + WordMod * q) = Wrap(n)
<1> DEFINE p == n \div WordMod
<1>1. n = WordMod * p + Wrap(n) /\ p \in Int /\ Wrap(n) \in Word /\ WordMod \in Nat
  BY WrapType, IhandlesAssumption
<1> HIDE DEF p
<1>2. n + WordMod * q = WordMod * (p + q) + Wrap(n) /\ p + q \in Int
  BY <1>1 DEF Word
<1> QED BY <1>1, <1>2, WrapUnique, SMTT(60)

LEMMA WrapBack ==
  ASSUME NEW n \in Int
  PROVE  \E q \in Int : Wrap(n) = n + WordMod * q
<1> DEFINE p == n \div WordMod
<1>1. n = WordMod * p + Wrap(n) /\ p \in Int /\ Wrap(n) \in Word /\ WordMod \in Nat
  BY WrapType, IhandlesAssumption
<1> HIDE DEF p
<1>2. Wrap(n) \in Int
  BY <1>1 DEF Word
<1>3. WordMod * (0 - p) = 0 - WordMod * p /\ 0 - p \in Int
  BY <1>1
<1>4. Wrap(n) = n + WordMod * (0 - p)
  BY <1>1, <1>2, <1>3
<1> QED BY <1>3, <1>4

LEMMA WrapCongruent ==
  ASSUME NEW a \in Int, NEW b \in Int, NEW n \in Int, NEW q \in Int, Wrap(a) = Wrap(b)
  PROVE  /\ Wrap(a + n) = Wrap(b + n)
         /\ Wrap(a + WordMod * q + n) = Wrap(b + n)
<1>1. PICK x \in Int : Wrap(a) = a + WordMod * x
  BY WrapBack
<1>2. PICK y \in Int : Wrap(b) = b + WordMod * y
  BY WrapBack
<1>3. WordMod \in Nat
  BY IhandlesAssumption
<1>4. a + WordMod * x = b + WordMod * y
  BY <1>1, <1>2
<1>5. WordMod * (y - x) = WordMod * y - WordMod * x /\ y - x \in Int
  BY <1>3
<1>6. a = b + WordMod * (y - x)
  BY <1>3, <1>4, <1>5
<1>7. a + n = (b + n) + WordMod * (y - x)
  BY <1>3, <1>5, <1>6
<1>8. WordMod * (y - x + q) = WordMod * (y - x) + WordMod * q /\ y - x + q \in Int
  BY <1>3, <1>5
<1>9. a + WordMod * q + n = (b + n) + WordMod * (y - x + q)
  BY <1>3, <1>5, <1>6, <1>8
<1>10. Wrap(a + n) = Wrap(b + n)
  BY <1>5, <1>7, WrapShift
<1>11. Wrap(a + WordMod * q + n) = Wrap(b + n)
  BY <1>8, <1>9, WrapShift
<1> QED BY <1>10, <1>11

-----------------------------------------------------------------------------
(* What the services do to the table of handles.                           *)
NewHandle(s) ==
  \/ s.kind = "file" /\ s.placed /\ s.pos = 0
  \/ s.kind = "disk" /\ ~s.placed

OpenStep ==
  \E v \in Blocks, s \in Handle :
    known[v] = Unknown /\ NewHandle(s) /\ known' = [known EXCEPT ![v] = s]

PosType == fdpos' \in [Disks -> Nat \cup {Shut}]

LEMMA FileOpens ==
  ASSUME NEW f \in Files, OpenFile(f)
  PROVE  (OpenStep \/ UNCHANGED known) /\ UNCHANGED <<fdpos, call, io, alive>>
<1> DEFINE s == [kind |-> "file", dev |-> f, base |-> 0, length |-> 0, pos |-> 0,
                 placed |-> TRUE]
<1>1. s \in Handle /\ NewHandle(s)
  BY IhandlesAssumption DEF Handle, NewHandle, Word
<1>2. Install(s) /\ UNCHANGED <<fdpos, call, io, alive>>
  BY DEF OpenFile
<1> HIDE DEF s
<1> QED BY <1>1, <1>2 DEF Install, OpenStep

LEMMA PartOpens ==
  ASSUME NEW d \in Disks, NEW off \in Word, NEW length \in Word, InstallPart(d, off, length)
  PROVE  OpenStep \/ UNCHANGED known
<1>1. PICK g \in Garbage :
        Install([kind |-> "disk", dev |-> d, base |-> off, length |-> length,
                 pos |-> g, placed |-> FALSE])
  BY DEF InstallPart
<1> DEFINE s == [kind |-> "disk", dev |-> d, base |-> off, length |-> length,
                 pos |-> g, placed |-> FALSE]
<1>2. s \in Handle /\ NewHandle(s)
  BY IhandlesAssumption DEF Handle, NewHandle, Word
<1> HIDE DEF s
<1> QED BY <1>1, <1>2 DEF Install, OpenStep, s

LEMMA EntryFits ==
  ASSUME NEW e \in Entries
  PROVE  /\ Wrap(e.start_sect * SECTOR_SIZE) \in Word
         /\ Wrap(e.nr_sects * SECTOR_SIZE) \in Word
<1>1. e.start_sect \in Nat /\ e.nr_sects \in Nat /\ SECTOR_SIZE \in Nat
  BY IhandlesAssumption DEF Word
<1> QED BY <1>1, WrapType

LEMMA DiskOpens ==
  ASSUME TypeOK, NEW d \in Disks, NEW i \in Indexes, OpenDisk(d, i)
  PROVE  /\ OpenStep \/ UNCHANGED known
         /\ UNCHANGED <<call, io>> /\ PosType /\ alive' \in BOOLEAN
<1>1. CASE i = NoIndex
  BY <1>1 DEF OpenDisk, Die, TypeOK, PosType
<1>2. CASE i # NoIndex
  <2>1. FindPart(d, i) /\ UNCHANGED <<call, io, alive>>
    BY <1>2 DEF OpenDisk
  <2>2. PosType
    BY <2>1, IhandlesAssumption DEF FindPart, TypeOK, PosType
  <2>3. OpenStep \/ UNCHANGED known
    <3>1. CASE InstallPart(d, 0, Wrap(DiskSize))
      <4>1. 0 \in Word /\ Wrap(DiskSize) \in Word
        BY WrapType, IhandlesAssumption DEF Word
      <4> QED BY <3>1, <4>1, PartOpens
    <3>2. ASSUME NEW e \in Entries,
                 InstallPart(d, Wrap(e.start_sect * SECTOR_SIZE), Wrap(e.nr_sects * SECTOR_SIZE))
          PROVE  OpenStep \/ UNCHANGED known
      BY <3>2, EntryFits, PartOpens
    <3> QED BY <2>1, <3>1, <3>2 DEF FindPart
  <2> QED BY <2>1, <2>2, <2>3 DEF TypeOK
<1> QED BY <1>1, <1>2

-----------------------------------------------------------------------------
(* What a pass of the loops does.                                          *)
LEMMA XferBounds ==
  ASSUME TypeOK
  PROVE  /\ Xfer \in 0 .. PAGE_SIZE /\ Xfer <= call.left
         /\ call.left \in Word
<1>1. call.left \in Nat /\ call.ea \in Nat /\ PAGE_SIZE \in Nat \ {0} /\ call.left \in Word
  BY IhandlesAssumption DEF TypeOK, Calls, Word
<1>2. call.ea % PAGE_SIZE \in 0 .. PAGE_SIZE - 1
  BY <1>1
<1> QED BY <1>1, <1>2 DEF Xfer, Smaller

(* The handle's position moves by what was transferred.                    *)
Moves(v, n) ==
  /\ known[v].kind \in {"file", "disk"}
  /\ \/ UNCHANGED known /\ n = 0
     \/ \E p \in {known[v].pos + n, Wrap(known[v].pos + n)} :
          known' = [known EXCEPT ![v].pos = p]

IOType == io' \in [dev : Files \cup Disks \cup {"none"}, at : Nat, n : Nat]

LEMMA MethodEffect ==
  ASSUME TypeOK, NEW v \in Values, NEW x \in Nat, NEW n \in Nat, Method(v, x, n)
  PROVE  /\ PosType /\ IOType
         /\ \/ known[v].kind = "console" /\ UNCHANGED <<known, io>>
            \/ Moves(v, n) /\ n \in 0 .. x
<1> DEFINE h == known[v]
<1>0. /\ h.base \in Nat /\ h.length \in Nat /\ h.pos \in Nat
      /\ h.dev \in Files \cup Disks \cup {"none"}
  BY DEF TypeOK, Handle, Word
<1>1. CASE h.kind = "console" /\ rom_console_transfer(call.service, x, n)
  BY <1>1 DEF rom_console_transfer, TypeOK, PosType, IOType
<1>2. CASE h.kind = "file" /\ rom_file_transfer(v, x, n)
  BY <1>0, <1>2 DEF rom_file_transfer, TypeOK, PosType, IOType, Moves
<1>3. CASE h.kind = "disk" /\ rom_disk_transfer(v, x, n)
  <2> DEFINE at == Wrap(h.base + h.pos)
             y == Smaller(x, Wrap(h.length - h.pos))
  <2>1. at \in Nat /\ y \in Nat /\ y <= x
    <3>1. Wrap(h.base + h.pos) \in Word /\ Wrap(h.length - h.pos) \in Word
      BY <1>0, WrapType
    <3> QED BY <3>1 DEF Smaller, Word
  <2>2. \/ n = 0 /\ fdpos' = [fdpos EXCEPT ![h.dev] = at] /\ io' = NoIO /\ UNCHANGED known
        \/ DiskIO(v, at, y, n)
    BY <1>3 DEF rom_disk_transfer
  <2> HIDE DEF at, y
  <2>3. CASE n = 0 /\ fdpos' = [fdpos EXCEPT ![h.dev] = at] /\ io' = NoIO /\ UNCHANGED known
    <3>1. PosType
      BY <2>1, <2>3 DEF TypeOK, PosType
    <3>2. IOType
      BY <2>3 DEF NoIO, IOType
    <3> QED BY <1>3, <2>3, <3>1, <3>2 DEF Moves
  <2>4. CASE DiskIO(v, at, y, n)
    <3>1. at + n \in Nat
      BY <2>1
    <3>2. PosType
      BY <2>4, <3>1 DEF DiskIO, TypeOK, PosType
    <3>3. IOType
      BY <1>0, <2>1, <2>4 DEF DiskIO, IOType
    <3>4. n \in 0 .. x
      BY <2>1, <2>4 DEF DiskIO
    <3>5. Moves(v, n)
      BY <1>3, <2>4 DEF DiskIO, Moves
    <3> QED BY <3>2, <3>3, <3>4, <3>5
  <2> QED BY <2>2, <2>3, <2>4
<1> QED BY <1>1, <1>2, <1>3 DEF Method

LEMMA CountEffect ==
  ASSUME TypeOK, NEW n \in Nat, Count(Xfer, n)
  PROVE  /\ call' = [call EXCEPT !.left = call'.left, !.ea = call'.ea, !.err = call'.err,
                                 !.more = call'.more]
         /\ call' \in Calls
         /\ call'.left \in {call.left - n, Wrap(call.left - n)}
         /\ call'.more => call'.err = call.err
<1>1. Xfer <= call.left /\ Xfer \in Nat /\ call.left \in Nat /\ call.left \in Word
  BY XferBounds, IhandlesAssumption DEF Word
<1>2. /\ n = Xfer => call.left - n \in Word
      /\ Wrap(call.left - n) \in Word /\ Wrap(call.ea + Xfer) \in Word
  <2>1. call.ea \in Nat
    BY IhandlesAssumption DEF TypeOK, Calls, Word
  <2>2. call.left - n \in Int /\ call.ea + Xfer \in Int
    BY <1>1, <2>1
  <2>3. n = Xfer => call.left - n \in Word
    BY <1>1, IhandlesAssumption DEF Word
  <2> QED BY <2>2, <2>3, WrapType
<1>3. call \in Calls
  BY DEF TypeOK
<1>4. CASE n = Xfer
  BY <1>2, <1>3, <1>4, ZenonT(60) DEF Count, Calls
<1>5. CASE n # Xfer
  BY <1>2, <1>3, <1>5, ZenonT(60) DEF Count, Calls
<1> QED BY <1>4, <1>5

KnownType == known' \in [Values -> Handle]

LEMMA OpenType == TypeOK /\ OpenStep => KnownType
  BY DEF TypeOK, OpenStep, Values, KnownType

LEMMA CloseType ==
  ASSUME TypeOK, NEW v \in Values, rom_close(v)
  PROVE  KnownType
<1>1. Unknown \in Handle
  BY IhandlesAssumption DEF Unknown, Handle, Word
<1> QED BY <1>1 DEF TypeOK, rom_close, rom_file_close, rom_disk_close, disk_close, KnownType

LEMMA MovesType ==
  ASSUME TypeOK, NEW v \in Values, NEW n \in Nat, Moves(v, n)
  PROVE  KnownType
<1>1. known[v].pos + n \in Nat /\ Wrap(known[v].pos + n) \in Nat
  <2>1. known[v].pos + n \in Nat
    BY DEF TypeOK, Handle
  <2> QED BY <2>1, WrapNat
<1> QED BY <1>1 DEF Moves, TypeOK, Handle, KnownType

LEMMA SeekType ==
  ASSUME TypeOK, NEW v \in Values, NEW hi, NEW lo \in Offsets, rom_seek(v, hi, lo)
  PROVE  KnownType /\ UNCHANGED <<fdpos, call, io>> /\ alive' \in BOOLEAN
<1>1. lo \in Nat
  BY IhandlesAssumption DEF Word
<1>2. KnownType
  BY <1>1 DEF rom_seek, rom_file_seek, rom_disk_seek, Die, TypeOK, Handle, KnownType
<1> QED BY <1>2 DEF rom_seek, Die, TypeOK

LEMMA BeginType ==
  ASSUME TypeOK, NEW s \in {"read", "write"}, NEW v \in Values, NEW ea \in Buffers,
         NEW len \in Lengths, Begin(s, v, ea, len)
  PROVE  call' \in Calls /\ UNCHANGED <<known, fdpos, io, alive>>
<1>1. ea \in Word /\ len \in Word /\ known[v].pos \in Nat
  BY IhandlesAssumption DEF TypeOK, Handle
<1> QED BY <1>1 DEF Begin, Calls

(* Every pass of a loop: the method, and what is counted of it.            *)
Pass ==
  \/ \E n \in Nat :
       /\ Method(call.h, Xfer, n)
       /\ call.service = "read" => n \in 0 .. Xfer
       /\ Count(Xfer, n) \/ (call.service = "read" /\ Fault)
  \/ call.service = "write" /\ Fault /\ UNCHANGED <<known, fdpos, io>>

LEMMA LoopPass ==
  ASSUME TypeOK, rom_read \/ rom_write
  PROVE  Pass /\ call.more /\ call.service # "none" /\ alive' \in BOOLEAN
<1>1. Xfer \in Nat /\ WordMod - 1 \in Nat
  BY XferBounds, IhandlesAssumption
<1>2. CASE rom_read
  BY <1>1, <1>2 DEF rom_read, Pass
<1>3. CASE rom_write
  <2>1. alive' \in BOOLEAN /\ call.more /\ call.service = "write"
    BY <1>3 DEF rom_write, TypeOK
  <2>2. CASE Fault /\ UNCHANGED <<known, fdpos, io, alive>>
    BY <2>1, <2>2 DEF Pass
  <2>3. ASSUME NEW n \in 0 .. Xfer \cup {WordMod - 1}, Method(call.h, Xfer, n), Count(Xfer, n)
        PROVE  Pass
    <3>1. n \in Nat
      BY <1>1
    <3> QED BY <2>1, <2>3, <3>1 DEF Pass
  <2> QED BY <1>3, <2>1, <2>2, <2>3 DEF rom_write
<1> QED BY <1>2, <1>3

LEMMA PassType ==
  ASSUME TypeOK, Pass
  PROVE  KnownType /\ PosType /\ IOType /\ call' \in Calls
<1>1. call.h \in Values /\ call \in Calls /\ Xfer \in Nat
  BY XferBounds, IhandlesAssumption DEF TypeOK, Calls
<1>2. Fault => call' \in Calls
  BY <1>1 DEF Fault, Calls
<1>3. ASSUME NEW n \in Nat, Method(call.h, Xfer, n), Count(Xfer, n) \/ Fault
      PROVE  KnownType /\ PosType /\ IOType /\ call' \in Calls
  <2>1. KnownType
    BY <1>1, <1>3, MethodEffect, MovesType DEF TypeOK, KnownType
  <2> QED BY <1>1, <1>2, <1>3, <2>1, MethodEffect, CountEffect
<1>4. CASE Fault /\ UNCHANGED <<known, fdpos, io>>
  BY <1>2, <1>4 DEF TypeOK, KnownType, PosType, IOType
<1> QED BY <1>3, <1>4 DEF Pass

LEMMA IdleType == Idle \in Calls /\ NoIO \in [dev : Files \cup Disks \cup {"none"}, at : Nat, n : Nat]
  BY IhandlesAssumption DEF Idle, NoIO, Calls, Word, Values

LEMMA TypeNext == TypeOK /\ [Next]_vars => TypeOK'
<1> SUFFICES ASSUME TypeOK, [Next]_vars PROVE TypeOK'
  OBVIOUS
<1>1. CASE UNCHANGED vars
  BY <1>1 DEF vars, TypeOK
<1>2. CASE rom_open
  <2>1. (OpenStep \/ UNCHANGED known) /\ UNCHANGED <<call, io>> /\ PosType /\ alive' \in BOOLEAN
    BY <1>2, FileOpens, DiskOpens DEF rom_open, TypeOK, PosType
  <2> QED BY <2>1, OpenType DEF TypeOK, KnownType, PosType
<1>3. ASSUME NEW v \in Values, rom_close(v) PROVE TypeOK'
  BY <1>3, CloseType DEF rom_close, rom_file_close, rom_disk_close, disk_close, TypeOK, KnownType
<1>4. ASSUME NEW v \in Values, NEW hi \in {0, 1}, NEW lo \in Offsets, rom_seek(v, hi, lo)
      PROVE  TypeOK'
  BY <1>4, SeekType DEF TypeOK, KnownType
<1>5. ASSUME NEW s \in {"read", "write"}, NEW v \in Values, NEW ea \in Buffers,
             NEW len \in Lengths, Begin(s, v, ea, len)
      PROVE  TypeOK'
  BY <1>5, BeginType DEF TypeOK
<1>6. CASE disk_bye
  BY <1>6 DEF disk_bye, TypeOK
<1>7. CASE rom_read \/ rom_write
  BY <1>7, LoopPass, PassType DEF TypeOK, KnownType, PosType, IOType
<1>8. CASE Return
  BY <1>8, IdleType DEF Return, TypeOK
<1> QED BY <1>1, <1>2, <1>3, <1>4, <1>5, <1>6, <1>7, <1>8 DEF Next, Service, Loop

LEMMA TypeInit == Init => TypeOK
<1> SUFFICES ASSUME Init PROVE TypeOK
  OBVIOUS
<1>0. Unknown \in Handle
  BY IhandlesAssumption DEF Unknown, Handle, Word
<1>1. [Unknown EXCEPT !.kind = "console"] \in Handle
  BY <1>0 DEF Handle
<1>2. known \in [Values -> Handle]
  BY <1>0, <1>1 DEF Init, rom_wrap_ihandle_with_methods
<1> QED BY <1>2, IdleType DEF Init, rom_wrap_ihandle_with_methods, TypeOK

(* Every number stays a word where the code has one.                       *)
THEOREM IhandleTypes == Spec => []TypeOK
  BY TypeInit, TypeNext, PTL DEF Spec

-----------------------------------------------------------------------------
(* The steps as the invariants see them.                                   *)
SeekStep(v) ==
  \E p \in Nat :
    \/ known[v].kind = "file" /\ known' = [known EXCEPT ![v].pos = p]
    \/ /\ known[v].kind = "disk" /\ p <= known[v].length
       /\ known' = [known EXCEPT ![v].pos = p, ![v].placed = TRUE]

BeginStep ==
  \E s \in {"read", "write"}, v \in Values, ea \in Buffers, len \in Lengths : Begin(s, v, ea, len)

HandleStep ==
  \/ UNCHANGED known \/ OpenStep
  \/ \E v \in Values : rom_close(v) \/ SeekStep(v)

LEMMA NextCases ==
  ASSUME TypeOK, [Next]_vars
  PROVE  \/ UNCHANGED vars
         \/ call = Idle /\ UNCHANGED <<call, io>> /\ HandleStep
         \/ call = Idle /\ UNCHANGED <<known, io>> /\ BeginStep
         \/ Pass /\ call.more /\ call.service # "none"
         \/ Return
<1>1. CASE call = Idle /\ rom_open
  BY <1>1, FileOpens, DiskOpens DEF rom_open, HandleStep
<1>2. ASSUME NEW v \in Values, call = Idle, rom_close(v)
      PROVE  UNCHANGED <<call, io>> /\ HandleStep
  BY <1>2 DEF rom_close, rom_file_close, rom_disk_close, disk_close, HandleStep
<1>3. ASSUME NEW v \in Values, NEW hi \in {0, 1}, NEW lo \in Offsets, rom_seek(v, hi, lo)
      PROVE  UNCHANGED <<call, io>> /\ HandleStep
  <2>1. lo \in Nat /\ UNCHANGED <<call, io>>
    BY <1>3, SeekType, IhandlesAssumption DEF Word
  <2>2. UNCHANGED known \/ SeekStep(v)
    <3>1. known[v].length \in Nat
      BY IhandlesAssumption DEF TypeOK, Handle, Word
    <3> QED BY <1>3, <2>1, <3>1 DEF rom_seek, rom_file_seek, rom_disk_seek, Die, SeekStep
  <2> QED BY <2>1, <2>2 DEF HandleStep
<1>4. BeginStep => UNCHANGED <<known, io>>
  BY DEF BeginStep, Begin
<1>5. disk_bye => UNCHANGED <<call, io>> /\ HandleStep
  BY DEF disk_bye, HandleStep
<1>6. CASE rom_read \/ rom_write
  BY <1>6, LoopPass
<1> QED BY <1>1, <1>2, <1>3, <1>4, <1>5, <1>6 DEF Next, Service, Loop, BeginStep

(* A pass changes what the call refers to only in its position.            *)
LEMMA PassFrame ==
  ASSUME TypeOK, Pass
  PROVE  /\ call'.h = call.h /\ call'.service = call.service
         /\ call'.asked = call.asked /\ call'.start = call.start
         /\ call'.more => call'.err = call.err
         /\ \A v \in Values : v # call.h => known'[v] = known[v]
         /\ known' = [known EXCEPT ![call.h].pos = known'[call.h].pos]
<1>1. call.h \in Values /\ call \in Calls /\ Xfer \in Nat /\ known \in [Values -> Handle]
  BY XferBounds, IhandlesAssumption DEF TypeOK, Calls
<1> DEFINE Same == /\ call'.h = call.h /\ call'.service = call.service
                   /\ call'.asked = call.asked /\ call'.start = call.start
                   /\ call'.more => call'.err = call.err
<1>2. Fault => Same
  BY <1>1 DEF Fault, Calls
<1>3. \A n \in Nat : Count(Xfer, n) => Same
  BY <1>1, CountEffect DEF Calls
<1>4. \A n \in Nat : Method(call.h, Xfer, n) => UNCHANGED known \/ Moves(call.h, n)
  BY <1>1, MethodEffect
<1>5. Same /\ (UNCHANGED known \/ \E n \in Nat : Moves(call.h, n))
  BY <1>2, <1>3, <1>4 DEF Pass
<1>6. UNCHANGED known \/ \E p : known' = [known EXCEPT ![call.h].pos = p]
  BY <1>5 DEF Moves
<1>7. /\ \A v \in Values : v # call.h => known'[v] = known[v]
      /\ known' = [known EXCEPT ![call.h].pos = known'[call.h].pos]
  BY <1>1, <1>6 DEF Handle
<1> QED BY <1>5, <1>7

-----------------------------------------------------------------------------
(* A transfer of a handle that was placed is cut at the end of its part.   *)
LEMMA DiskPass ==
  ASSUME TypeOK, PlacedInPart, Pass,
         known[call.h].kind = "disk", known[call.h].placed
  PROVE  LET h == known[call.h]
         IN  \/ UNCHANGED <<known, io>>
             \/ UNCHANGED known /\ io' = NoIO
             \/ \E n \in Nat :
                  /\ h.pos + n <= h.length /\ known'[call.h].pos = h.pos + n
                  /\ io' = [dev |-> h.dev, at |-> Wrap(h.base + h.pos), n |-> n]
<1> DEFINE h == known[call.h]
<1>1. /\ call.h \in Values /\ known \in [Values -> Handle] /\ h \in Handle
      /\ h.base \in Nat /\ h.pos \in Nat /\ h.length \in Word /\ h.length \in Nat
      /\ h.pos <= h.length
  BY IhandlesAssumption DEF TypeOK, Calls, Handle, Word, PlacedInPart
<1>2. CASE UNCHANGED <<known, io>>
  BY <1>2
<1>3. ASSUME NEW n \in Nat, Method(call.h, Xfer, n)
      PROVE  \/ UNCHANGED known /\ io' = NoIO
             \/ /\ h.pos + n <= h.length /\ known'[call.h].pos = h.pos + n
                /\ io' = [dev |-> h.dev, at |-> Wrap(h.base + h.pos), n |-> n]
  <2>1. rom_disk_transfer(call.h, Xfer, n)
    BY <1>3 DEF Method
  <2>2. CASE ~LooksFailed(Wrap(h.base + h.pos))
    <3>1. DiskIO(call.h, Wrap(h.base + h.pos), Smaller(Xfer, Wrap(h.length - h.pos)), n)
      BY <2>1, <2>2 DEF rom_disk_transfer
    <3>2. h.length - h.pos \in Word
      BY <1>1, IhandlesAssumption DEF Word
    <3>3. Wrap(h.length - h.pos) = h.length - h.pos
      BY <3>2, WrapSmall
    <3>4. h.pos + n <= h.length
      <4>1. n <= Smaller(Xfer, h.length - h.pos) /\ Xfer \in Nat
        BY <3>1, <3>3, XferBounds, IhandlesAssumption DEF DiskIO
      <4> HIDE DEF h
      <4> QED BY <1>1, <4>1 DEF Smaller
    <3>5. Wrap(h.pos + n) = h.pos + n
      <4>1. h.pos + n \in Word
        BY <1>1, <3>4, IhandlesAssumption DEF Word
      <4> QED BY <4>1, WrapSmall
    <3>6. known'[call.h].pos = Wrap(h.pos + n)
      BY <1>1, <3>1 DEF DiskIO, Handle
    <3> QED BY <3>1, <3>4, <3>5, <3>6 DEF DiskIO
  <2>3. CASE LooksFailed(Wrap(h.base + h.pos))
    BY <2>1, <2>3 DEF rom_disk_transfer
  <2> QED BY <2>2, <2>3
<1> QED BY <1>2, <1>3 DEF Pass

(* A new value of the table comes from one of these steps.                 *)
LEMMA HandleCases ==
  ASSUME TypeOK, HandleStep, NEW v \in Values
  PROVE  \/ known'[v] = known[v] \/ known'[v] = Unknown
         \/ NewHandle(known'[v])
         \/ /\ SeekStep(v) /\ known'[v].kind = known[v].kind
            /\ known'[v].base = known[v].base /\ known'[v].length = known[v].length
            /\ known[v].placed => known'[v].placed
            /\ known[v].kind = "disk" => known'[v].pos <= known'[v].length
<1>1. known \in [Values -> Handle] /\ known[v] \in Handle
  BY DEF TypeOK
<1>2. CASE OpenStep
  BY <1>1, <1>2 DEF OpenStep
<1>3. ASSUME NEW w \in Values, rom_close(w) PROVE known'[v] \in {known[v], Unknown}
  BY <1>1, <1>3 DEF rom_close, rom_file_close, rom_disk_close, disk_close
<1>4. ASSUME NEW w \in Values, SeekStep(w), v # w PROVE known'[v] = known[v]
  BY <1>1, <1>4 DEF SeekStep
<1>5. CASE SeekStep(v)
  <2>1. PICK p \in Nat :
          \/ known[v].kind = "file" /\ known'[v] = [known[v] EXCEPT !.pos = p]
          \/ /\ known[v].kind = "disk" /\ p <= known[v].length
             /\ known'[v] = [known[v] EXCEPT !.pos = p, !.placed = TRUE]
    BY <1>1, <1>5 DEF SeekStep
  <2> QED BY <1>1, <1>5, <2>1 DEF Handle
<1> QED BY <1>2, <1>3, <1>4, <1>5 DEF HandleStep

LEMMA PartsNext ==
  ASSUME TypeOK, PlacedInPart, [Next]_vars
  PROVE  PlacedInPart'
<1>1. CASE UNCHANGED known
  BY <1>1 DEF PlacedInPart
<1>2. CASE HandleStep
  <2> SUFFICES ASSUME NEW v \in Values, known'[v].kind = "disk", known'[v].placed
               PROVE  known'[v].pos <= known'[v].length
    BY DEF PlacedInPart
  <2> QED BY <1>2, HandleCases DEF PlacedInPart, NewHandle, Unknown
<1>3. CASE Pass
  <2> SUFFICES ASSUME NEW v \in Values, known'[v].kind = "disk", known'[v].placed
               PROVE  known'[v].pos <= known'[v].length
    BY DEF PlacedInPart
  <2>1. CASE v # call.h
    BY <1>3, <2>1, PassFrame DEF PlacedInPart
  <2>2. CASE v = call.h
    <3>1. known'[v] = [known[v] EXCEPT !.pos = known'[v].pos] /\ known[v] \in Handle
      BY <1>3, <2>2, PassFrame DEF TypeOK
    <3>2. /\ known'[v].kind = known[v].kind /\ known'[v].placed = known[v].placed
          /\ known'[v].length = known[v].length
      BY <3>1 DEF Handle
    <3>3. known[v].placed => known'[v].pos <= known[v].length
      BY <1>3, <2>2, <3>2, DiskPass DEF PlacedInPart
    <3> QED BY <3>2, <3>3
  <2> QED BY <2>1, <2>2
<1>4. UNCHANGED vars \/ Return => UNCHANGED known
  BY DEF vars, Return
<1> QED BY <1>1, <1>2, <1>3, <1>4, NextCases

(* A handle that was placed stays inside its partition, whatever sizes the *)
(* partition table gives.                                                  *)
THEOREM PlacedHandlesInPart == Spec => []PlacedInPart
<1>1. Init => PlacedInPart
  BY DEF Init, rom_wrap_ihandle_with_methods, PlacedInPart, Unknown
<1>2. TypeOK /\ PlacedInPart /\ [Next]_vars => PlacedInPart'
  BY PartsNext
<1> QED BY <1>1, <1>2, IhandleTypes, PTL DEF Spec

-----------------------------------------------------------------------------
(* The console stays where it is, positions of files are always known, no  *)
(* transfer is remembered between calls, and a loop goes on without error. *)
LoopInv ==
  /\ known[Console].kind = "console"
  /\ \A v \in Values : known[v].kind = "file" => known[v].placed
  /\ call = Idle => io = NoIO
  /\ call.more => call.err = "ERR_NONE" /\ call.service # "none"

LEMMA LoopNext ==
  ASSUME TypeOK, LoopInv, [Next]_vars
  PROVE  LoopInv'
<1>0. Console \in Values /\ call.h \in Values /\ known \in [Values -> Handle]
  BY DEF Values, TypeOK, Calls
<1>1. CASE UNCHANGED vars
  BY <1>1 DEF vars, LoopInv
<1>2. CASE call = Idle /\ UNCHANGED <<call, io>> /\ HandleStep
  <2>1. known'[Console].kind = "console"
    <3>1. CASE OpenStep
      BY <1>0, <3>1, IhandlesAssumption DEF OpenStep, LoopInv
    <3>2. ASSUME NEW v \in Values, rom_close(v) \/ SeekStep(v)
          PROVE  v # Console
      BY <3>2 DEF rom_close, rom_file_close, rom_disk_close, disk_close, SeekStep, LoopInv
    <3>3. ASSUME NEW v \in Values, rom_close(v) \/ SeekStep(v)
          PROVE  known'[Console] = known[Console]
      BY <1>0, <3>2, <3>3 DEF rom_close, rom_file_close, rom_disk_close, disk_close, SeekStep
    <3> QED BY <1>2, <3>1, <3>3 DEF HandleStep, LoopInv
  <2>2. ASSUME NEW v \in Values, known'[v].kind = "file"
        PROVE  known'[v].placed
    BY <1>2, <2>2, HandleCases DEF LoopInv, NewHandle, Unknown
  <2> QED BY <1>2, <2>1, <2>2 DEF LoopInv
<1>3. CASE call = Idle /\ UNCHANGED <<known, io>> /\ BeginStep
  BY <1>3 DEF BeginStep, Begin, LoopInv
<1>4. CASE Pass /\ call.more /\ call.service # "none"
  <2>1. call' # Idle /\ (call'.more => call'.err = "ERR_NONE" /\ call'.service # "none")
    BY <1>4, PassFrame DEF LoopInv, Idle
  <2>2. \A v \in Values : /\ known'[v].kind = known[v].kind
                          /\ known'[v].placed = known[v].placed
    <3>1. known' = [known EXCEPT ![call.h].pos = known'[call.h].pos]
      BY <1>4, PassFrame
    <3> QED BY <1>0, <3>1 DEF Handle
  <2> QED BY <1>0, <2>1, <2>2 DEF LoopInv
<1>5. CASE Return
  BY <1>5 DEF Return, Idle, LoopInv
<1> QED BY <1>1, <1>2, <1>3, <1>4, <1>5, NextCases

LEMMA LoopInit == Init => LoopInv
<1> SUFFICES ASSUME Init PROVE LoopInv
  OBVIOUS
<1>1. \A v \in Values : known[v] = IF v = Console THEN [Unknown EXCEPT !.kind = "console"]
                                                 ELSE Unknown
  BY DEF Init, rom_wrap_ihandle_with_methods
<1>2. Console \in Values
  BY DEF Values
<1> QED BY <1>1, <1>2 DEF Init, rom_wrap_ihandle_with_methods, LoopInv, Unknown, Idle, NoIO

(* The code adds the partition's start; the distance to it is what it was. *)
LEMMA WrapDistance ==
  ASSUME NEW b \in Word, NEW p \in Word
  PROVE  Wrap(Wrap(b + p) - b) = p
<1> DEFINE q == (b + p) \div WordMod
<1>1. b \in Int /\ p \in Int /\ WordMod \in Nat
  BY IhandlesAssumption DEF Word
<1>2. b + p = WordMod * q + Wrap(b + p) /\ q \in Int /\ Wrap(b + p) \in Word
  BY <1>1, WrapType
<1> HIDE DEF q
<1>3. Wrap(b + p) - b = p + WordMod * (-q) /\ -q \in Int
  BY <1>1, <1>2 DEF Word
<1>4. Wrap(p + WordMod * (-q)) = Wrap(p)
  BY <1>1, <1>3, WrapShift
<1> QED BY <1>3, <1>4, WrapSmall

LEMMA WithinNext ==
  ASSUME TypeOK, PlacedInPart, LoopInv, WithinPartition, [Next]_vars
  PROVE  WithinPartition'
<1> DEFINE h == known[call.h]
<1>1. CASE UNCHANGED vars
  BY <1>1 DEF vars, WithinPartition
<1>2. CASE call = Idle /\ UNCHANGED io
  BY <1>2 DEF LoopInv, NoIO, WithinPartition
<1>3. CASE Pass
  <2>1. /\ call.h \in Values /\ known[call.h] \in Handle
        /\ h.base \in Word /\ h.pos \in Nat /\ h.length \in Word
    BY DEF TypeOK, Calls, Handle
  <2>2. /\ call'.h = call.h
        /\ known'[call.h].kind = h.kind /\ known'[call.h].placed = h.placed
        /\ known'[call.h].base = h.base /\ known'[call.h].length = h.length
    <3>1. call'.h = call.h /\ known' = [known EXCEPT ![call.h].pos = known'[call.h].pos]
      BY <1>3, PassFrame
    <3> QED BY <2>1, <3>1 DEF TypeOK, Handle
  <2> SUFFICES ASSUME io'.n > 0, h.kind = "disk", h.placed
               PROVE  Wrap(io'.at - h.base) + io'.n <= h.length
    BY <2>2 DEF WithinPartition
  <2>3. CASE UNCHANGED <<known, io>>
    BY <2>3 DEF WithinPartition
  <2>4. CASE io' = NoIO
    BY <2>4 DEF NoIO
  <2>5. ASSUME NEW n \in Nat, h.pos + n <= h.length,
               io' = [dev |-> h.dev, at |-> Wrap(h.base + h.pos), n |-> n]
        PROVE  Wrap(io'.at - h.base) + io'.n <= h.length
    <3>1. h.pos \in Word
      BY <2>1, <2>5, IhandlesAssumption DEF Word
    <3>2. Wrap(io'.at - h.base) = h.pos
      BY <2>1, <2>5, <3>1, WrapDistance
    <3> QED BY <2>5, <3>2
  <2> QED BY <1>3, <2>3, <2>4, <2>5, DiskPass
<1>4. CASE Return
  BY <1>4 DEF Return, NoIO, WithinPartition
<1> QED BY <1>1, <1>2, <1>3, <1>4, NextCases

(* No transfer of a placed handle leaves its partition.                    *)
THEOREM TransfersWithinPartition == Spec => []WithinPartition
<1> DEFINE Inv == TypeOK /\ PlacedInPart /\ LoopInv /\ WithinPartition
<1>1. Init => Inv
  BY TypeInit, LoopInit DEF Init, rom_wrap_ihandle_with_methods, PlacedInPart, Unknown, WithinPartition, NoIO
<1>2. Inv /\ [Next]_vars => Inv'
  BY TypeNext, PartsNext, LoopNext, WithinNext
<1> QED BY <1>1, <1>2, PTL DEF Spec
-----------------------------------------------------------------------------
(* The count a call returns and the position of its handle move together.  *)
LEMMA SumOrWord ==
  ASSUME NEW m \in Int, NEW p \in {m, Wrap(m)}
  PROVE  \E q \in Int : p = m + WordMod * q
<1>1. CASE p = m
  <2>1. WordMod * 0 = 0
    BY IhandlesAssumption
  <2> QED BY <1>1, <2>1
<1>2. CASE p = Wrap(m)
  BY <1>2, WrapBack
<1> QED BY <1>1, <1>2

LEMMA LeftMoves ==
  ASSUME NEW asked \in Int, NEW left \in Int, NEW n \in Int,
         NEW l \in {left - n, Wrap(left - n)}
  PROVE  Wrap(asked - l) = Wrap(asked - left + n)
<1>1. PICK q \in Int : l = left - n + WordMod * q
  BY SumOrWord
<1>2. WordMod * (0 - q) = 0 - WordMod * q /\ WordMod * q \in Int /\ 0 - q \in Int
  BY IhandlesAssumption
<1>3. asked - l = (asked - left + n) + WordMod * (0 - q)
  BY <1>1, <1>2
<1> QED BY <1>2, <1>3, WrapShift

Counted(lost) == Wrap(known[call.h].pos - call.start) = Wrap(Result + lost)

LEMMA PassAccounted ==
  ASSUME TypeOK, LoopInv, Accounted, Pass, call.more,
         known[call.h].kind # "console"
  PROVE  \E lost \in 0 .. PAGE_SIZE :
           Counted(lost)' /\ (lost > 0 => call.service = "read" /\ call'.err = "ERR_BAD_ACCESS")
<1> DEFINE pos == known[call.h].pos
           d == call.asked - call.left
<1>1. /\ call.h \in Values /\ pos \in Int /\ call.start \in Int
      /\ call.asked \in Int /\ call.left \in Int /\ d \in Int
      /\ call'.h = call.h /\ call'.start = call.start /\ call'.asked = call.asked
      /\ PAGE_SIZE \in Nat
  BY PassFrame, IhandlesAssumption DEF TypeOK, Calls, Handle, Word
<1>2. Wrap(d) \in Word /\ Wrap(Wrap(d)) = Wrap(d) /\ Wrap(d) \in Int
  BY <1>1, WrapNat, WrapSmall
<1>3. Wrap(pos - call.start) = Wrap(d)
  <2>1. PICK lost \in 0 .. PAGE_SIZE : /\ Counted(lost)
                                       /\ lost > 0 => call.err = "ERR_BAD_ACCESS"
    BY DEF Accounted, LoopInv, Counted
  <2>2. lost = 0
    BY <1>1, <2>1 DEF LoopInv
  <2>3. Wrap(d) + 0 = Wrap(d)
    BY <1>2
  <2> QED BY <1>2, <2>1, <2>2, <2>3 DEF Counted, Result
<1>4. ASSUME NEW n \in Nat, Moves(call.h, n)
      PROVE  Wrap(known'[call.h].pos - call.start) = Wrap(d + n)
  <2>1. PICK p \in {pos + n, Wrap(pos + n)} : known'[call.h].pos = p
    <3>1. CASE UNCHANGED known /\ n = 0
      BY <1>1, <3>1
    <3>2. CASE \E p \in {pos + n, Wrap(pos + n)} : known' = [known EXCEPT ![call.h].pos = p]
      BY <1>1, <3>2 DEF TypeOK, Handle
    <3> QED BY <1>4, <3>1, <3>2 DEF Moves
  <2> DEFINE moved == pos - call.start
  <2>2. moved \in Int /\ n \in Int /\ d \in Int /\ pos + n \in Int
    BY <1>1
  <2>3. PICK q \in Int : p = pos + n + WordMod * q
    BY <2>2, SumOrWord
  <2>4. WordMod * q \in Int
    BY IhandlesAssumption
  <2>5. p - call.start = moved + WordMod * q + n
    BY <1>1, <2>3, <2>4
  <2>6. Wrap(moved) = Wrap(d)
    BY <1>3
  <2> HIDE DEF moved, d
  <2>7. Wrap(moved + WordMod * q + n) = Wrap(d + n)
    BY <2>2, <2>6, WrapCongruent
  <2> QED BY <2>1, <2>5, <2>7
<1>5. ASSUME NEW n \in Nat, Moves(call.h, n), Count(Xfer, n)
      PROVE  Counted(0)'
  <2>1. call'.left \in {call.left - n, Wrap(call.left - n)}
    BY <1>5, CountEffect
  <2>2. Wrap(call.asked - call'.left) = Wrap(d + n)
    BY <1>1, <2>1, LeftMoves
  <2>3. Wrap(d + n) \in Word /\ Wrap(Wrap(d + n)) = Wrap(d + n) /\ Wrap(d + n) + 0 = Wrap(d + n)
    <3>1. d + n \in Int
      BY <1>1
    <3>2. Wrap(d + n) \in Word /\ Wrap(d + n) \in Nat
      BY <3>1, WrapNat
    <3> HIDE DEF d
    <3> QED BY <3>2, WrapSmall
  <2> QED BY <1>1, <1>4, <1>5, <2>2, <2>3 DEF Counted, Result
<1>6. ASSUME NEW n \in Nat, Moves(call.h, n), Fault
      PROVE  Counted(n)'
  <2>1. call'.left = call.left
    BY <1>6 DEF Fault, TypeOK, Calls
  <2>2. Wrap(d + n) = Wrap(Wrap(d) + n)
    <3>1. d \in Int /\ n \in Int
      BY <1>1
    <3> HIDE DEF d
    <3> QED BY <1>2, <3>1, WrapCongruent
  <2> QED BY <1>1, <1>4, <1>6, <2>1, <2>2 DEF Counted, Result
<1>7. CASE Fault /\ UNCHANGED known
  <2>1. call'.left = call.left
    BY <1>7 DEF Fault, TypeOK, Calls
  <2>2. Wrap(d) + 0 = Wrap(d)
    BY <1>2
  <2>3. Counted(0)'
    BY <1>1, <1>2, <1>3, <1>7, <2>1, <2>2 DEF Counted, Result
  <2> QED BY <1>1, <2>3
<1>8. ASSUME NEW n \in Nat, Method(call.h, Xfer, n),
             call.service = "read" => n \in 0 .. Xfer,
             Count(Xfer, n) \/ (call.service = "read" /\ Fault)
      PROVE  \E lost \in 0 .. PAGE_SIZE :
               Counted(lost)' /\ (lost > 0 => call.service = "read" /\ call'.err = "ERR_BAD_ACCESS")
  <2>1. Moves(call.h, n)
    <3>1. Xfer \in Nat
      BY XferBounds, IhandlesAssumption
    <3> QED BY <1>1, <1>8, <3>1, MethodEffect
  <2>2. CASE Count(Xfer, n)
    BY <1>1, <1>5, <2>1, <2>2
  <2>3. CASE call.service = "read" /\ Fault
    <3>1. n \in 0 .. PAGE_SIZE
      BY <1>1, <1>8, <2>3, XferBounds
    <3>2. call'.err = "ERR_BAD_ACCESS"
      BY <2>3 DEF Fault, TypeOK, Calls
    <3> QED BY <1>6, <2>1, <2>3, <3>1, <3>2
  <2> QED BY <1>8, <2>2, <2>3
<1> QED BY <1>7, <1>8 DEF Pass

LEMMA AccountedNext ==
  ASSUME TypeOK, LoopInv, Accounted, [Next]_vars
  PROVE  Accounted'
<1>1. CASE UNCHANGED vars
  BY <1>1 DEF vars, Accounted, Result
<1>2. CASE call = Idle /\ UNCHANGED call
  BY <1>2 DEF Idle, Accounted
<1>3. CASE UNCHANGED known /\ BeginStep
  <2>1. /\ call'.left = call'.asked /\ call'.asked \in Int
        /\ call'.start = known'[call'.h].pos /\ call'.start \in Int
    <3>1. PICK s \in {"read", "write"}, v \in Values, ea \in Buffers, len \in Lengths :
            Begin(s, v, ea, len)
      BY <1>3 DEF BeginStep
    <3> QED BY <1>3, <3>1, IhandlesAssumption DEF Begin, TypeOK, Handle, Word
  <2>2. 0 \in Word /\ 0 \in 0 .. PAGE_SIZE /\ Wrap(0) = 0
    <3>1. 0 \in Word /\ 0 \in 0 .. PAGE_SIZE
      BY IhandlesAssumption DEF Word
    <3> QED BY <3>1, WrapSmall
  <2>3. Wrap(known'[call'.h].pos - call'.start) = Wrap(Wrap(call'.asked - call'.left) + 0)
    BY <2>1, <2>2
  <2> QED BY <2>2, <2>3 DEF Accounted, Result
<1>4. CASE Pass /\ call.more /\ call.service # "none"
  <2>1. /\ call'.h = call.h /\ call'.service = call.service
        /\ known'[call.h].kind = known[call.h].kind
    <3>1. /\ call'.h = call.h /\ call'.service = call.service
          /\ known' = [known EXCEPT ![call.h].pos = known'[call.h].pos]
      BY <1>4, PassFrame
    <3> QED BY <3>1 DEF TypeOK, Calls, Handle
  <2> SUFFICES ASSUME known[call.h].kind # "console" PROVE Accounted'
    BY <2>1 DEF Accounted
  <2> QED BY <1>4, <2>1, PassAccounted DEF Accounted, Counted
<1>5. CASE Return
  BY <1>5 DEF Return, Idle, Accounted
<1> QED BY <1>1, <1>2, <1>3, <1>4, <1>5, NextCases

(* What a read or write reports done is what it moved the handle by, up to *)
(* the page a refused read has lost.                                       *)
THEOREM CallsAccounted == Spec => []Accounted
<1>1. Init => Accounted
  BY DEF Init, rom_wrap_ihandle_with_methods, Idle, Accounted
<1>2. TypeOK /\ LoopInv /\ Accounted /\ [Next]_vars => LoopInv' /\ Accounted'
  BY LoopNext, AccountedNext
<1> QED BY <1>1, <1>2, LoopInit, IhandleTypes, PTL DEF Spec
-----------------------------------------------------------------------------
(* Every step is a step of one stream, or changes no stream.               *)
Stutter == UNCHANGED <<known, io>>

LEMMA OpenImplements ==
  ASSUME TypeOK, OpenStep, UNCHANGED io
  PROVE  Private!Next
<1>1. PICK v \in Blocks, s \in Handle :
        known[v] = Unknown /\ NewHandle(s) /\ known' = [known EXCEPT ![v] = s]
  BY DEF OpenStep
<1>2. v \in Values /\ known'[v] = s /\ known[v].kind = "none"
      /\ \A w \in Values \ {v} : known'[w] = known[w]
  BY <1>1 DEF Values, TypeOK, Unknown
<1>3. Private!Open(v)
  BY <1>1, <1>2 DEF Private!Open, Private!Only, NewHandle
<1> QED BY <1>2, <1>3 DEF Private!Next

LEMMA CloseImplements ==
  ASSUME TypeOK, NEW v \in Values, rom_close(v)
  PROVE  Private!Close(v)
BY DEF TypeOK, rom_close, rom_file_close, rom_disk_close, disk_close, Unknown, Private!Close, Private!Only

LEMMA SeekImplements ==
  ASSUME TypeOK, LoopInv, NEW v \in Values, SeekStep(v), UNCHANGED io
  PROVE  Private!Place(v)
<1>1. PICK p \in Nat :
        \/ known[v].kind = "file" /\ known' = [known EXCEPT ![v].pos = p]
        \/ /\ known[v].kind = "disk" /\ p <= known[v].length
           /\ known' = [known EXCEPT ![v].pos = p, ![v].placed = TRUE]
  BY DEF SeekStep
<1>2. CASE known[v].kind = "disk" /\ p <= known[v].length
           /\ known' = [known EXCEPT ![v].pos = p, ![v].placed = TRUE]
  <2>1. known'[v].pos = p
    BY <1>2 DEF TypeOK, Handle
  <2> QED BY <1>2, <2>1 DEF Private!Place
<1>3. CASE known[v].kind = "file" /\ known' = [known EXCEPT ![v].pos = p]
  <2>1. known'[v].pos = p /\ known[v].placed = TRUE
    BY <1>3 DEF LoopInv, TypeOK, Handle
  <2>2. known' = [known EXCEPT ![v].pos = p, ![v].placed = TRUE]
    BY <1>3, <2>1 DEF TypeOK, Handle
  <2> QED BY <1>3, <2>1, <2>2 DEF Private!Place
<1> QED BY <1>1, <1>2, <1>3

LEMMA FileImplements ==
  ASSUME TypeOK, LoopInv, NEW v \in Values, NEW x, NEW n \in Nat,
         known[v].kind = "file", rom_file_transfer(v, x, n)
  PROVE  Private!Transfer(v)
<1>1. known'[v].pos = known[v].pos + n /\ known[v].pos \in Nat
  BY DEF rom_file_transfer, TypeOK, Handle
<1>2. known' = [known EXCEPT ![v].pos = known'[v].pos]
  BY <1>1 DEF rom_file_transfer
<1> QED BY <1>1, <1>2 DEF rom_file_transfer, Private!Transfer, Private!Move

LEMMA DiskImplements ==
  ASSUME TypeOK, PlacedInPart, Pass, NEW x, NEW n \in Nat,
         known[call.h].kind = "disk", rom_disk_transfer(call.h, x, n)
  PROVE  Private!Transfer(call.h) \/ Private!Rest \/ Stutter
<1> DEFINE h == known[call.h]
<1>1. /\ call.h \in Values /\ h.base \in Nat /\ h.pos \in Nat /\ h.length \in Nat
  BY IhandlesAssumption DEF TypeOK, Calls, Handle, Word
<1>2. Private!Move(call.h)
  BY PassFrame DEF Private!Move
<1>3. CASE io' = NoIO /\ UNCHANGED known
  BY <1>3 DEF NoIO, Private!Rest
<1>4. CASE io'.dev = h.dev /\ ~h.placed
  BY <1>2, <1>4 DEF Private!Transfer
<1>5. CASE io'.dev = h.dev /\ h.placed
  <2>1. ASSUME NEW m \in Nat, h.pos + m <= h.length, known'[call.h].pos = h.pos + m,
               io' = [dev |-> h.dev, at |-> Wrap(h.base + h.pos), n |-> m]
        PROVE  Private!Transfer(call.h)
    BY <1>2, <2>1 DEF Private!Transfer, Wrap
  <2> QED BY <1>3, <1>5, <2>1, DiskPass DEF Stutter
<1>6. (io' = NoIO /\ UNCHANGED known) \/ io'.dev = h.dev
  BY DEF rom_disk_transfer, DiskIO
<1> QED BY <1>3, <1>4, <1>5, <1>6 DEF TypeOK, Handle

LEMMA PassImplements ==
  ASSUME TypeOK, PlacedInPart, LoopInv, Pass
  PROVE  Private!Next \/ Stutter
<1>1. call.h \in Values
  BY DEF TypeOK, Calls
<1>2. ASSUME NEW n \in Nat, Method(call.h, Xfer, n)
      PROVE  Private!Transfer(call.h) \/ Private!Rest \/ Stutter
  BY <1>1, <1>2, FileImplements, DiskImplements
     DEF Method, rom_console_transfer, Stutter
<1> QED BY <1>1, <1>2 DEF Pass, Private!Next, Stutter

LEMMA NextImplements ==
  ASSUME TypeOK, PlacedInPart, LoopInv, [Next]_vars
  PROVE  Private!Next \/ Stutter
<1>1. CASE HandleStep /\ UNCHANGED io
  BY <1>1, OpenImplements, CloseImplements, SeekImplements
     DEF HandleStep, Private!Next, Stutter
<1>2. CASE Return
  BY <1>2 DEF Return, NoIO, Private!Rest, Private!Next
<1> QED BY <1>1, <1>2, NextCases, PassImplements DEF vars, Stutter

(* Handles on one disk are streams of their own: every read, write, seek,  *)
(* open and close is a step of the one stream it names, in spite of the    *)
(* descriptor they share.                                                  *)
THEOREM HandlesAreStreams == Spec => ImplementsStreams
<1> DEFINE Inv == PlacedInPart /\ LoopInv
<1>1. Init => Inv
  BY LoopInit DEF Init, rom_wrap_ihandle_with_methods, PlacedInPart, Unknown
<1>2. TypeOK /\ Inv /\ [Next]_vars => Inv'
  BY PartsNext, LoopNext
<1>3. Init => Private!Init
  BY DEF Init, Private!Init, rom_wrap_ihandle_with_methods, Unknown, NoIO
<1>4. TypeOK /\ Inv /\ [Next]_vars => [Private!Next]_<<known, io>>
  BY NextImplements DEF Stutter
<1> QED BY <1>1, <1>2, <1>3, <1>4, IhandleTypes, PTL DEF Spec, ImplementsStreams, Private!Spec
=============================================================================
