------------------------- MODULE MemCommands_proofs -------------------------
(***************************************************************************)
(* Proofs about GuestMem and the commands over it: for pages and memory of *)
(* any size, any translation, any contents and any transfer that the code  *)
(* lets begin.                                                             *)
(***************************************************************************)
EXTENDS MemCommands, FiniteSetTheorems, WellFoundedInduction, TLAPS

-----------------------------------------------------------------------------
(* Quotients, and the least and greatest of sets of naturals.              *)
LEMMA DivUnique ==
  ASSUME NEW a \in Nat, a > 0, NEW q \in Int, NEW r \in 0 .. a - 1
  PROVE  (a * q + r) \div a = q /\ (a * q + r) % a = r
<1> DEFINE x == a * q + r
           p == x \div a
           m == x % a
<1>1. p \in Int /\ m \in 0 .. a - 1 /\ x = a * p + m
  BY SMT
<1> HIDE DEF p, m
<1>2. a * (q - p) = m - r /\ q - p \in Int
  BY <1>1, SMT
<1>3. q - p < 1 /\ q - p > -1
  BY <1>1, <1>2, SMT
<1>4. q - p = 0
  BY <1>2, <1>3, SMT
<1>5. m = r /\ p = q
  BY <1>1, <1>2, <1>4, SMT
<1> QED BY <1>5 DEF p, m

LEMMA LeastNatural ==
  ASSUME NEW S, S \subseteq Nat, S # {}
  PROVE  \E m \in S : \A n \in S : m <= n
<1> DEFINE R == OpToRel(<, Nat)
<1>1. IsWellFoundedOn(R, Nat)
  BY NatLessThanWellFounded
<1>2. \A x, y \in Nat : x < y => <<x, y>> \in R
  BY DEF OpToRel
<1> HIDE DEF R
<1>3. PICK m \in S : \A n \in S : ~ (<<n, m>> \in R)
  BY <1>1, WFMin
<1>4. ASSUME NEW n \in S PROVE m <= n
  <2>1. ~(n < m) /\ n \in Nat /\ m \in Nat
    BY <1>2, <1>3
  <2> QED BY <2>1
<1> QED BY <1>4

LEMMA GreatestNatural ==
  ASSUME NEW S, NEW n \in Nat, S \subseteq 0 .. n, S # {}
  PROVE  \E m \in S : \A k \in S : k <= m
<1> DEFINE T == {b \in Nat : \A k \in S : k <= b}
<1>1. n \in T
  OBVIOUS
<1>2. PICK b \in T : \A c \in T : b <= c
  BY <1>1, LeastNatural
<1>3. b \in S
  <2>1. SUFFICES ASSUME b \notin S PROVE FALSE
    OBVIOUS
  <2>2. \A k \in S : k <= b - 1 /\ k \in Nat
    BY <1>2, <2>1
  <2>3. b - 1 \in Nat
    <3>1. PICK k \in S : TRUE
      OBVIOUS
    <3> QED BY <2>2, <3>1
  <2>4. b - 1 \in T
    BY <2>2, <2>3
  <2> QED BY <1>2, <2>4
<1> QED BY <1>2, <1>3

-----------------------------------------------------------------------------
(* Min and Max of sets of naturals.                                        *)
LEMMA MinMember ==
  ASSUME NEW S, S \subseteq Nat, S # {}
  PROVE  Min(S) \in S /\ \A n \in S : Min(S) <= n
<1>1. \E m \in S : \A n \in S : m <= n
  BY LeastNatural
<1> QED BY <1>1 DEF Min

LEMMA MinIs ==
  ASSUME NEW S, S \subseteq Nat, NEW m \in S, \A n \in S : m <= n
  PROVE  Min(S) = m
<1>1. Min(S) \in S /\ Min(S) <= m /\ m <= Min(S)
  BY MinMember
<1>2. Min(S) \in Nat /\ m \in Nat
  BY <1>1
<1> QED BY <1>1, <1>2

LEMMA MaxMember ==
  ASSUME NEW S, NEW n \in Nat, S \subseteq 0 .. n, S # {}
  PROVE  Max(S) \in S /\ \A k \in S : k <= Max(S)
<1>1. \E m \in S : \A k \in S : m >= k
  BY GreatestNatural
<1>2. Max(S) \in S /\ \A k \in S : Max(S) >= k
  BY <1>1 DEF Max
<1> QED BY <1>2

LEMMA MaxIs ==
  ASSUME NEW S, S \subseteq Nat, NEW m \in S, \A k \in S : k <= m
  PROVE  Max(S) = m
<1>1. S \subseteq 0 .. m /\ m \in Nat
  OBVIOUS
<1>2. Max(S) \in S /\ Max(S) <= m /\ m <= Max(S)
  BY <1>1, MaxMember
<1>3. Max(S) \in Nat /\ m \in Nat
  BY <1>2
<1> QED BY <1>2, <1>3

-----------------------------------------------------------------------------
(* Pages and offsets.                                                      *)
LEMMA PageFact == PageSize \in Nat /\ PageSize > 0 /\ PageSize % 8 = 0
  BY PageAssumption

LEMMA OffsetType ==
  ASSUME NEW n \in Nat
  PROVE  /\ n \div PageSize \in Nat /\ n % PageSize \in Offsets
         /\ n = PageSize * (n \div PageSize) + (n % PageSize)
<1>1. n \div PageSize \in Nat
  BY PageFact, SMT
<1> QED BY <1>1, PageFact, SMT DEF Offsets

(* The address d bytes on from the offset o of page q.                     *)
LEMMA PagePlus ==
  ASSUME NEW n \in Nat, NEW d \in Nat
  PROVE  LET q == n \div PageSize
             o == n % PageSize
         IN  /\ (n + d) \div PageSize = q + (o + d) \div PageSize
             /\ (n + d) % PageSize = (o + d) % PageSize
<1> DEFINE q == n \div PageSize
           o == n % PageSize
           p == (o + d) \div PageSize
           r == (o + d) % PageSize
<1>1. q \in Nat /\ o \in Offsets /\ n = PageSize * q + o
  BY OffsetType
<1>2. o + d \in Nat
  BY <1>1, PageFact DEF Offsets
<1>3. p \in Nat /\ r \in Offsets /\ o + d = PageSize * p + r
  BY <1>2, OffsetType
<1> HIDE DEF q, o, p, r
<1>4. n + d = PageSize * (q + p) + r
  BY <1>1, <1>3, PageFact, SMT DEF Offsets
<1>5. (n + d) \div PageSize = q + p /\ (n + d) % PageSize = r
  BY <1>1, <1>3, <1>4, PageFact, DivUnique DEF Offsets
<1> QED BY <1>5 DEF q, o, p, r

LEMMA SmallOffset ==
  ASSUME NEW o \in Offsets
  PROVE  o \div PageSize = 0 /\ o % PageSize = o
<1>1. o = PageSize * 0 + o /\ o \in 0 .. PageSize - 1
  BY PageFact DEF Offsets
<1> QED BY <1>1, PageFact, DivUnique

(* Within one page.                                                        *)
LEMMA InPage ==
  ASSUME NEW n \in Nat, NEW d \in Nat, (n % PageSize) + d < PageSize
  PROVE  /\ (n + d) \div PageSize = n \div PageSize
         /\ (n + d) % PageSize = (n % PageSize) + d
<1>1. (n % PageSize) + d \in Offsets /\ n \div PageSize \in Nat
  BY OffsetType, PageFact DEF Offsets
<1>2. ((n % PageSize) + d) \div PageSize = 0 /\ ((n % PageSize) + d) % PageSize = (n % PageSize) + d
  BY <1>1, SmallOffset
<1> QED BY <1>1, <1>2, PagePlus

(* At the end of a page.                                                   *)
LEMMA PageEnd ==
  ASSUME NEW n \in Nat, NEW d \in Nat, (n % PageSize) + d = PageSize
  PROVE  /\ (n + d) \div PageSize = n \div PageSize + 1
         /\ (n + d) % PageSize = 0
<1>1. PageSize = PageSize * 1 + 0 /\ n \div PageSize \in Nat
  BY OffsetType, PageFact
<1>2. PageSize \div PageSize = 1 /\ PageSize % PageSize = 0
  BY <1>1, PageFact, DivUnique
<1> QED BY <1>1, <1>2, PagePlus

(* Accesses are no larger than 8, which divides the page.                  *)
LEMMA PageMultiple ==
  ASSUME NEW q \in Nat, NEW r \in Nat, NEW s \in {1, 2, 4, 8}
  PROVE  (PageSize * q + r) % s = r % s
<1>1. PICK k \in Nat : PageSize = 8 * k
  <2>1. PageSize \div 8 \in Nat /\ PageSize = 8 * (PageSize \div 8)
    BY PageFact
  <2> QED BY <2>1
<1>2. PageSize * q = 8 * (k * q) /\ k * q \in Nat
  BY <1>1, SMT
<1> DEFINE n == k * q
<1> HIDE DEF n
<1>3. PageSize * q = 8 * n /\ n \in Nat
  BY <1>2 DEF n
<1>4. (8 * n + r) % s = r % s
  BY <1>3
<1> QED BY <1>3, <1>4

-----------------------------------------------------------------------------
(* The munged address of an access and the swapped bytes of the host.      *)
SwapIn(i, s) == (i - (i % s)) + s - 1 - (i % s)

Flip(o) == (o - (o % 8)) + 7 - (o % 8)

LEMMA SwapType ==
  ASSUME NEW i \in Nat, NEW s \in AccessSizes
  PROVE  SwapIn(i, s) \in Nat /\ SwapIn(i, s) - i = s - 1 - (2 * (i % s))
<1>1. CASE s = 1
  BY <1>1 DEF SwapIn
<1>2. CASE s = 2
  BY <1>2 DEF SwapIn
<1>3. CASE s = 4
  BY <1>3 DEF SwapIn
<1> QED BY <1>1, <1>2, <1>3 DEF AccessSizes

(* A swap stays between multiples of the size.                             *)
LEMMA SwapBetween ==
  ASSUME NEW i \in Nat, NEW s \in AccessSizes, NEW a \in Nat, NEW b \in Nat,
         a % s = 0, b % s = 0, a <= i, i < b
  PROVE  a <= SwapIn(i, s) /\ SwapIn(i, s) < b
<1>1. CASE s = 1
  BY <1>1 DEF SwapIn
<1>2. CASE s = 2
  BY <1>2 DEF SwapIn
<1>3. CASE s = 4
  BY <1>3 DEF SwapIn
<1> QED BY <1>1, <1>2, <1>3 DEF AccessSizes

(* The bytes of one aligned access that are swapped, and whose addresses   *)
(* are munged as those of bytes, are where the munged access has them.     *)
LEMMA MungeSwap ==
  ASSUME NEW o \in Nat, NEW i \in Nat, NEW s \in AccessSizes, o % s = i % s
  PROVE  /\ o + (SwapIn(i, s) - i) \in Nat
         /\ Flip(o + (SwapIn(i, s) - i)) = (o - (o % 8)) + 8 - s - (o % 8) + 2 * (o % s)
<1>0. SwapIn(i, s) - i = s - 1 - (2 * (o % s))
  BY SwapType
<1>1. CASE s = 1
  <2>1. o % s = 0 /\ SwapIn(i, s) - i = 0
    BY <1>0, <1>1
  <2>2. o + (SwapIn(i, s) - i) = o
    BY <2>1
  <2>3. Flip(o) = (o - (o % 8)) + 8 - s - (o % 8) + 2 * (o % s)
    BY <1>1, <2>1 DEF Flip
  <2> QED BY <2>2, <2>3
<1>2. CASE s = 2
  BY <1>0, <1>2 DEF Flip
<1>3. CASE s = 4
  <2>1. SwapIn(i, s) - i = 3 - (2 * (o % 4))
    BY <1>0, <1>3
  <2> DEFINE k == o \div 8
             r == o % 8
             d == 3 - (2 * (o % 4))
             t == r % 4
  <2>2. k \in Nat /\ r \in 0 .. 7 /\ o = 8 * k + r /\ o % 4 = t
    OBVIOUS
  <2>3. t \in 0 .. 3 /\ (r = t \/ r = t + 4)
    BY <2>2
  <2>4. d = 3 - 2 * t
    BY <2>2
  <2> HIDE DEF k, d, t
  <2>5. r + d \in 0 .. 7 /\ o + d = 8 * k + (r + d)
    BY <2>2, <2>3, <2>4 DEF r
  <2>6. (o + d) % 8 = r + d /\ o + d \in Nat
    BY <2>2, <2>5
  <2>7. Flip(o + d) = 8 * k + 7 - (r + d)
    BY <2>2, <2>5, <2>6 DEF Flip, r
  <2>8. (o - (o % 8)) + 8 - s - (o % 8) + 2 * (o % s) = 8 * k + 4 - r + 2 * t
    BY <1>3, <2>2 DEF r
  <2>9. 8 * k + 7 - (r + d) = 8 * k + 4 - r + 2 * t
    BY <2>2, <2>3, <2>4 DEF r
  <2> QED BY <2>1, <2>6, <2>7, <2>8, <2>9 DEF d
<1> QED BY <1>1, <1>2, <1>3 DEF AccessSizes

LEMMA FlipType ==
  ASSUME NEW o \in Offsets
  PROVE  Flip(o) \in Offsets
<1>1. PICK k \in Nat : PageSize = 8 * k
  <2>1. PageSize \div 8 \in Nat /\ PageSize = 8 * (PageSize \div 8)
    BY PageFact
  <2> QED BY <2>1
<1> QED BY <1>1 DEF Flip, Offsets

(* A byte of a frame is a byte of memory.                                  *)
LEMMA FrameByte ==
  ASSUME NEW f \in 0 .. Frames - 1, NEW o \in Offsets
  PROVE  f * PageSize + o \in 0 .. PmemSize - 1
<1>1. f \in Nat /\ Frames \in Nat /\ f <= Frames - 1 /\ PageSize \in Nat
  BY MemAssumption, PageFact
<1>2. f * PageSize <= (Frames - 1) * PageSize /\ f * PageSize \in Nat
  BY <1>1, SMT
<1>3. (Frames - 1) * PageSize = Frames * PageSize - PageSize
  BY <1>1, SMT
<1> QED BY <1>1, <1>2, <1>3 DEF PmemSize, Offsets

-----------------------------------------------------------------------------
(* The transfers that the code lets begin, of the client interface or of a *)
(* command.                                                                *)
Requests ==
  {t \in [op : {"from", "to"}, page : Nat, off : Offsets, bytes : Nat,
          size : AccessSizes, nul : BOOLEAN] :
     /\ t.nul => t.op = "from" /\ t.size = 1
     /\ t.op = "to" => \A i \in 0 .. t.bytes - 1 : Data[i] \in Byte}

Transferring == Pass \/ Done \/ \E t \in Requests : Begin(t)

(* What the passes of a transfer keep, besides what is checked of it: it is*)
(* at the byte that follows what was done, which is whole accesses on pages*)
(* that are there.                                                         *)
Fits ==
  /\ little => Aligned(req)
  /\ req.nul => req.op = "from" /\ req.size = 1
  /\ req.op = "to" => \A i \in 0 .. req.bytes - 1 : buf[i] \in Byte
  /\ req.op # "to" => pmem = was
  /\ done % req.size = 0

Placed ==
  pc = "busy" =>
    /\ page = PageOf(done) /\ off = OffOf(done)
    /\ \A i \in 0 .. done - 1 : Readable(i)

(* A string that goes on after its first page has no NUL in it.            *)
Unended ==
  \A i \in 0 .. req.bytes - 1 :
    PageOf(i) = PageOf(0) => Readable(i) /\ pmem[Cell(i)] # 0

StringSoFar ==
  (pc = "busy" /\ req.nul) =>
    IF little THEN \A i \in 0 .. done - 1 : buf[i] = pmem[Cell(i)] /\ pmem[Cell(i)] # 0
    ELSE done = 0 \/ Unended

MemInv ==
  /\ TypeOK /\ Fits /\ Placed /\ StringSoFar
  /\ ReadExact /\ WriteExact /\ FailureTold /\ StringRead

(* What the commands keep: the element that follows the output is next, and*)
(* a transfer under a command is its load.                                 *)
Asked == running \/ result # "none"

CommandRecords ==
  {c \in [name : {"dump", "memread", "memreadstring", "gra"}, virt : BOOLEAN,
          page : Nat, off : Offsets, size : AccessSizes, count : Nat] :
     c.name = "gra" => c.size = 1 /\ c.count = 1}

LoadRequest ==
  [op |-> "from", page |-> eaPage, off |-> eaOff,
   bytes |-> cmd.size, size |-> cmd.size, nul |-> FALSE]

Elements == [1 .. cmd.size -> IF cmd.name = "gra" THEN 0 .. PmemSize - 1 ELSE Byte]

Loading ==
  /\ (running /\ pc # "idle") => Virtual /\ cmd.name # "gra" /\ More /\ req = LoadRequest
  /\ (~running /\ result # "none") => pc = "idle"
  /\ running => result = "none"

Following ==
  /\ Asked => /\ cmd \in CommandRecords
              /\ little => cmd.off % cmd.size = 0
              /\ cmd.name = "gra" => eaPage = cmd.page /\ eaOff = cmd.off /\ Len(out) = 1 - left
              /\ cmd.name # "gra" => /\ eaPage = ElementPage(Len(out))
                                    /\ eaOff = ElementOff(Len(out))
              /\ cmd.name \in {"dump", "memread"} => Len(out) + left = cmd.count
              /\ cmd.name = "memreadstring" => \A k \in 1 .. Len(out) : out[k] # <<0>>
  /\ ~Asked => out = <<>>

CmdInv ==
  /\ CmdTypeOK /\ out \in Seq(Elements)
  /\ Loading /\ Following /\ ShowsMemory

-----------------------------------------------------------------------------
(* Where the bytes of a pass are.                                          *)
LEMMA Position ==
  ASSUME TypeOK, NEW i \in Nat
  PROVE  /\ PageOf(i) \in Nat /\ OffOf(i) \in Offsets
         /\ req.page \in Nat /\ req.off \in Nat /\ req.bytes \in Nat /\ req.size \in AccessSizes
         /\ req.off + i \in Nat
<1>1. req.page \in Nat /\ req.off \in Offsets /\ req.bytes \in Nat /\ req.size \in AccessSizes
  BY DEF TypeOK
<1>2. req.off \in Nat /\ req.off + i \in Nat
  BY <1>1, PageFact DEF Offsets
<1> QED BY <1>1, <1>2, OffsetType DEF PageOf, OffOf

LEMMA Onward ==
  ASSUME TypeOK, NEW i \in Nat, NEW d \in Nat
  PROVE  /\ OffOf(i) + d < PageSize => PageOf(i + d) = PageOf(i) /\ OffOf(i + d) = OffOf(i) + d
         /\ OffOf(i) + d = PageSize => PageOf(i + d) = PageOf(i) + 1 /\ OffOf(i + d) = 0
<1> DEFINE n == req.off + i
<1>1. n \in Nat /\ req.page \in Nat /\ n \div PageSize \in Nat /\ req.off + (i + d) = n + d
  BY Position, OffsetType
<1>2. /\ PageOf(i) = req.page + n \div PageSize /\ OffOf(i) = n % PageSize
      /\ PageOf(i + d) = req.page + (n + d) \div PageSize /\ OffOf(i + d) = (n + d) % PageSize
  BY <1>1 DEF PageOf, OffOf
<1> HIDE DEF n
<1>3. ASSUME OffOf(i) + d < PageSize
      PROVE  PageOf(i + d) = PageOf(i) /\ OffOf(i + d) = OffOf(i) + d
  BY <1>1, <1>2, <1>3, InPage
<1>4. ASSUME OffOf(i) + d = PageSize
      PROVE  PageOf(i + d) = PageOf(i) + 1 /\ OffOf(i + d) = 0
  <2>1. (n + d) \div PageSize = n \div PageSize + 1 /\ (n + d) % PageSize = 0
    BY <1>1, <1>2, <1>4, PageEnd
  <2> QED BY <1>1, <1>2, <2>1
<1> QED BY <1>3, <1>4

LEMMA OffsetMultiple ==
  ASSUME TypeOK, NEW i \in Nat, NEW s \in {1, 2, 4, 8}
  PROVE  OffOf(i) % s = (req.off + i) % s
<1> DEFINE n == req.off + i
<1>0. n \in Nat /\ OffOf(i) = n % PageSize
  BY Position DEF OffOf
<1> HIDE DEF n
<1>1. /\ n \div PageSize \in Nat /\ n % PageSize \in Offsets
      /\ n = PageSize * (n \div PageSize) + (n % PageSize)
  BY <1>0, OffsetType
<1>4. n % PageSize \in Nat
  BY <1>1, PageFact DEF Offsets
<1>2. (PageSize * (n \div PageSize) + (n % PageSize)) % s = (n % PageSize) % s
  BY <1>1, <1>4, PageMultiple
<1>3. n % s = OffOf(i) % s
  BY <1>0, <1>1, <1>2
<1> QED BY <1>3 DEF n

LEMMA ChunkFact ==
  ASSUME TypeOK, pc = "busy"
  PROVE  /\ Chunk \in Nat /\ done \in Nat /\ off \in Nat /\ off < PageSize
         /\ off + Chunk <= PageSize /\ done + Chunk <= req.bytes
         /\ off + Chunk = PageSize \/ done + Chunk = req.bytes
         /\ Chunk = 0 => done = req.bytes
<1>1. off \in 0 .. PageSize - 1 /\ done \in Nat /\ done <= req.bytes /\ req.bytes \in Nat
  BY DEF TypeOK, Offsets
<1> QED BY <1>1, PageFact DEF Chunk, Least

LEMMA Multiples ==
  ASSUME NEW s \in AccessSizes, NEW x \in Nat, NEW y \in Nat, x % s = 0
  PROVE  /\ (x + y) % s = y % s /\ (y + x) % s = y % s
         /\ y % s = 0 /\ x <= y => (y - x) % s = 0
<1>1. CASE s = 1
  BY <1>1
<1>2. CASE s = 2
  BY <1>2
<1>3. CASE s = 4
  BY <1>3
<1> QED BY <1>1, <1>2, <1>3 DEF AccessSizes

LEMMA PageWhole ==
  ASSUME NEW s \in AccessSizes
  PROVE  PageSize % s = 0
<1>1. CASE s = 1
  BY <1>1, PageFact
<1>2. CASE s = 2
  BY <1>2, PageFact
<1>3. CASE s = 4
  BY <1>3, PageFact
<1> QED BY <1>1, <1>2, <1>3 DEF AccessSizes

(* The cut at the end of a page leaves aligned transfers whole.            *)
LEMMA ChunkWhole ==
  ASSUME TypeOK, Fits, Placed, pc = "busy", Aligned(req)
  PROVE  Chunk % req.size = 0 /\ off % req.size = 0
<1> DEFINE s == req.size
<1>1. s \in AccessSizes /\ req.off \in Nat /\ req.bytes \in Nat /\ req.off % s = 0 /\ req.bytes % s = 0
      /\ done \in Nat /\ done % s = 0 /\ off \in Nat /\ off = OffOf(done)
  BY Position, ChunkFact DEF Aligned, Fits, Placed
<1>2. off % s = (req.off + done) % s
  BY <1>1, OffsetMultiple DEF AccessSizes
<1> HIDE DEF s
<1>3. off % s = 0
  BY <1>1, <1>2, Multiples
<1>4. (PageSize - off) % s = 0
  BY <1>1, <1>3, PageWhole, PageFact, ChunkFact, Multiples
<1>5. (req.bytes - done) % s = 0
  <2>1. done <= req.bytes
    BY DEF TypeOK
  <2> QED BY <1>1, <2>1, Multiples
<1>6. Chunk = PageSize - off \/ Chunk = req.bytes - done
  BY DEF Chunk, Least
<1> QED BY <1>3, <1>4, <1>5, <1>6 DEF s

(* The bytes of a pass are on its page, where their accesses are munged    *)
(* to: the guest's bytes, in the order of the host.                        *)
LEMMA CellHere ==
  ASSUME TypeOK, Fits, Placed, pc = "busy", Chunk % req.size = 0,
         NEW j \in 0 .. Chunk - 1
  PROVE  /\ PageOf(done + j) = page /\ OffOf(done + j) = off + j
         /\ Cell(done + j) = At(Where(off + j, req.size))
<1> DEFINE s == req.size
           i == done + j
           i2 == Swapped(i)
<1>1. /\ s \in AccessSizes /\ done \in Nat /\ j \in Nat /\ i \in Nat /\ done % s = 0
      /\ off \in Nat /\ Chunk \in Nat /\ j < Chunk /\ off + Chunk <= PageSize /\ PageSize \in Nat
      /\ page = PageOf(done) /\ off = OffOf(done)
  BY Position, ChunkFact, PageFact DEF Fits, Placed
<1>2. ASSUME NEW d \in Nat, d < Chunk
      PROVE  PageOf(done + d) = page /\ OffOf(done + d) = off + d
  <2>1. OffOf(done) + d < PageSize
    BY <1>1, <1>2
  <2> QED BY <1>1, <2>1, Onward
<1>3. CASE ~little
  <2>1. Swapped(i) = i
    BY <1>3 DEF Swapped
  <2>2. Cell(i) = xlat[page] * PageSize + (off + j)
    BY <1>1, <1>2, <1>3, <2>1 DEF Cell, GuestByte
  <2> QED BY <1>1, <1>2, <1>3, <2>2 DEF At, Where
<1>4. CASE little
  <2>1. i2 = SwapIn(i, s)
    BY <1>4 DEF Swapped, SwapIn
  <2>2. off % s = 0
    BY <1>4, ChunkWhole DEF Fits
  <2>3. (off + j) % s = j % s /\ i % s = j % s /\ (done + Chunk) % s = 0
    BY <1>1, <2>2, Multiples
  <2> HIDE DEF i, i2, s
  <2>4. i2 \in Nat /\ done <= i2 /\ i2 < done + Chunk
    <3>1. done + Chunk \in Nat /\ done <= i /\ i < done + Chunk
      BY <1>1 DEF i
    <3>2. done <= SwapIn(i, s) /\ SwapIn(i, s) < done + Chunk
      BY <1>1, <2>3, <3>1, SwapBetween DEF s
    <3>3. SwapIn(i, s) \in Nat
      BY <1>1, SwapType
    <3> QED BY <2>1, <3>2, <3>3
  <2>5. PageOf(i2) = page /\ OffOf(i2) = off + j + (i2 - i)
    <3>1. i2 - done \in Nat /\ i2 - done < Chunk /\ done + (i2 - done) = i2
      BY <1>1, <2>4
    <3>2. PageOf(i2) = page /\ OffOf(i2) = off + (i2 - done)
      BY <1>2, <3>1
    <3> QED BY <1>1, <2>4, <3>2 DEF i
  <2>6. Flip(off + j + (i2 - i)) = ((off + j) - ((off + j) % 8)) + 8 - s - ((off + j) % 8) + 2 * ((off + j) % s)
    <3>1. off + j \in Nat /\ (off + j) % s = i % s
      BY <1>1, <2>3
    <3> QED BY <1>1, <2>1, <3>1, MungeSwap
  <2>7. Cell(i) = xlat[page] * PageSize + Flip(off + j + (i2 - i))
    BY <1>4, <2>5 DEF Cell, GuestByte, Flip, i2
  <2>8. Where(off + j, s) = Flip(off + j + (i2 - i))
    BY <1>4, <2>6 DEF Where
  <2> QED BY <1>1, <1>2, <2>7, <2>8 DEF At, i, s
<1> QED BY <1>3, <1>4

(* What a pass of guest_to writes: the last of the bytes for each place.   *)
LEMMA WrittenLast ==
  ASSUME TypeOK, Fits, Placed, pc = "busy", Chunk % req.size = 0, req.op = "to",
         WriteExact, NEW a \in 0 .. PmemSize - 1
  PROVE  LET mine == {i \in 0 .. done + Chunk - 1 : Cell(i) = a}
         IN  Written(a, done) = IF mine # {} THEN buf[Max(mine)] ELSE was[a]
<1> DEFINE mine == {i \in 0 .. done + Chunk - 1 : Cell(i) = a}
           old == {i \in 0 .. done - 1 : Cell(i) = a}
           here == {i \in 0 .. Chunk - 1 : At(Where(off + i, req.size)) = a}
<1>1. done \in Nat /\ Chunk \in Nat
  BY ChunkFact
<1>2. here = {j \in 0 .. Chunk - 1 : Cell(done + j) = a}
  BY CellHere
<1>3. Written(a, done) = IF here = {} THEN pmem[a] ELSE buf[done + Max(here)]
  BY DEF Written
<1>4. pmem[a] = IF old # {} THEN buf[Max(old)] ELSE was[a]
  BY DEF WriteExact
<1>5. CASE here = {}
  <2>1. ASSUME NEW i \in mine PROVE i < done
    <3>1. i \in Nat /\ i < done + Chunk /\ Cell(i) = a
      BY <1>1
    <3>2. SUFFICES ASSUME i >= done PROVE FALSE
      BY <1>1, <3>1
    <3>3. i - done \in 0 .. Chunk - 1 /\ done + (i - done) = i
      BY <1>1, <3>1, <3>2
    <3>4. i - done \in here
      BY <1>2, <3>1, <3>3
    <3> QED BY <1>5, <3>4
  <2>2. mine = old
    <3>1. ASSUME NEW i PROVE i \in mine <=> i \in old
      <4>1. i \in mine => i \in old
        BY <1>1, <2>1
      <4>2. i \in old => i \in mine
        BY <1>1
      <4> QED BY <4>1, <4>2
    <3> HIDE DEF mine, old
    <3> QED BY <3>1
  <2> HIDE DEF mine, old, here
  <2>3. Written(a, done) = IF mine # {} THEN buf[Max(mine)] ELSE was[a]
    BY <1>3, <1>4, <1>5, <2>2
  <2> QED BY <2>3 DEF mine
<1>6. CASE here # {}
  <2>1. Max(here) \in here /\ \A k \in here : k <= Max(here)
    <3>1. here \subseteq 0 .. Chunk
      BY <1>1
    <3> HIDE DEF here
    <3> QED BY <1>1, <1>6, <3>1, MaxMember
  <2> DEFINE m == Max(here)
  <2>2. m \in 0 .. Chunk - 1 /\ Cell(done + m) = a
    BY <1>2, <2>1
  <2>3. \A k \in 0 .. Chunk - 1 : Cell(done + k) = a => k <= m
    BY <1>2, <2>1
  <2> HIDE DEF m, here
  <2>4. done + m \in mine /\ mine \subseteq Nat
    BY <1>1, <2>2
  <2>5. ASSUME NEW i \in mine PROVE i <= done + m
    <3>1. i \in Nat /\ i < done + Chunk /\ Cell(i) = a
      BY <1>1
    <3>2. CASE i < done
      BY <1>1, <2>2, <3>1, <3>2
    <3>3. CASE i >= done
      <4>1. i - done \in 0 .. Chunk - 1 /\ done + (i - done) = i
        BY <1>1, <3>1, <3>3
      <4>2. i - done <= m
        BY <2>3, <3>1, <4>1
      <4> QED BY <1>1, <2>2, <3>1, <4>2
    <3> QED BY <1>1, <3>1, <3>2, <3>3
  <2> HIDE DEF mine
  <2>6. Max(mine) = done + m
    BY <2>4, <2>5, MaxIs
  <2>7. Written(a, done) = IF mine # {} THEN buf[Max(mine)] ELSE was[a]
    BY <1>3, <1>6, <2>4, <2>6 DEF m
  <2> QED BY <2>7 DEF mine
<1> QED BY <1>5, <1>6

LEMMA WrittenType ==
  ASSUME TypeOK, Fits, pc = "busy", req.op = "to", NEW a \in 0 .. PmemSize - 1
  PROVE  Written(a, done) \in Byte
<1> DEFINE here == {i \in 0 .. Chunk - 1 : At(Where(off + i, req.size)) = a}
<1>1. done \in Nat /\ Chunk \in Nat /\ done + Chunk <= req.bytes /\ req.bytes \in Nat
  BY ChunkFact DEF TypeOK
<1>2. Written(a, done) = IF here = {} THEN pmem[a] ELSE buf[done + Max(here)]
  BY DEF Written
<1>3. ASSUME here # {} PROVE done + Max(here) \in 0 .. req.bytes - 1
  <2>1. here \subseteq 0 .. Chunk
    BY <1>1
  <2>2. here \subseteq 0 .. Chunk - 1
    OBVIOUS
  <2> HIDE DEF here
  <2>3. Max(here) \in 0 .. Chunk - 1
    BY <1>1, <1>3, <2>1, <2>2, MaxMember
  <2> QED BY <1>1, <2>3
<1>4. pmem[a] \in Byte
  BY DEF TypeOK
<1> HIDE DEF here
<1> QED BY <1>2, <1>3, <1>4 DEF Fits

(* After a pass: the next byte, and what was passed.                       *)
LEMMA NextPlace ==
  ASSUME TypeOK, Placed, pc = "busy"
  PROVE  /\ off + Chunk = PageSize => PageOf(done + Chunk) = page + 1 /\ OffOf(done + Chunk) = 0
         /\ off + Chunk # PageSize => PageOf(done + Chunk) = page /\ OffOf(done + Chunk) = off + Chunk
<1>1. /\ done \in Nat /\ Chunk \in Nat /\ off \in Nat /\ off + Chunk <= PageSize /\ PageSize \in Nat
      /\ page = PageOf(done) /\ off = OffOf(done)
  BY ChunkFact, PageFact DEF Placed
<1>2. off + Chunk = PageSize \/ off + Chunk < PageSize
  BY <1>1
<1> QED BY <1>1, <1>2, Onward

LEMMA Passed ==
  ASSUME TypeOK, Fits, Placed, pc = "busy", Chunk % req.size = 0, InMemory,
         NEW i \in 0 .. done + Chunk - 1
  PROVE  Readable(i)
<1>1. done \in Nat /\ Chunk \in Nat /\ i \in Nat /\ i < done + Chunk
  BY ChunkFact
<1>2. CASE i < done
  BY <1>1, <1>2 DEF Placed
<1>3. CASE i >= done
  <2>1. i - done \in 0 .. Chunk - 1 /\ done + (i - done) = i
    BY <1>1, <1>3
  <2>2. PageOf(done + (i - done)) = page
    BY <2>1, CellHere
  <2> QED BY <2>1, <2>2 DEF Readable, InMemory
<1> QED BY <1>1, <1>2, <1>3

LEMMA MovesOn ==
  ASSUME TypeOK, Fits, Placed, pc = "busy", Chunk % req.size = 0, InMemory, Moves(Chunk)
  PROVE  /\ page' \in Nat /\ off' \in Offsets /\ done' = done + Chunk /\ done' \in Nat
         /\ done' <= req.bytes /\ done' % req.size = 0
         /\ pc' = IF done' = req.bytes THEN "ok" ELSE "busy"
         /\ Placed' /\ FailureTold'
<1>1. /\ done \in Nat /\ Chunk \in Nat /\ off \in Nat /\ off + Chunk <= PageSize
      /\ done + Chunk <= req.bytes /\ page \in Nat /\ req.bytes \in Nat
      /\ req.size \in AccessSizes /\ done % req.size = 0 /\ PageSize \in Nat
  BY ChunkFact, PageFact DEF TypeOK, Fits
<1>2. done' = done + Chunk /\ pc' = IF done' = req.bytes THEN "ok" ELSE "busy"
  BY <1>1 DEF Moves
<1>3. (done + Chunk) % req.size = 0
  BY <1>1, Multiples
<1>4. page' = PageOf(done + Chunk) /\ off' = OffOf(done + Chunk)
  BY <1>1, NextPlace DEF Moves
<1>5. page' \in Nat /\ off' \in Offsets
  BY <1>1, <1>4, Position
<1>6. UNCHANGED <<req, xlat>>
  BY DEF Moves
<1>7. \A i \in 0 .. done' - 1 : Readable(i)
  <2>1. \A i \in 0 .. done + Chunk - 1 : Readable(i)
    BY Passed
  <2>2. done' - 1 = (done + Chunk) - 1 /\ (done + Chunk) - 1 = done + Chunk - 1
    BY <1>1, <1>2
  <2> QED BY <2>1, <2>2
<1>8. Placed'
  BY <1>2, <1>4, <1>6, <1>7 DEF Placed, PageOf, OffOf, Readable, guest_backmap
<1>9. FailureTold'
  <2>1. CASE pc' = "busy"
    BY <2>1 DEF FailureTold
  <2>2. CASE pc' = "ok"
    <3>1. done' = req.bytes
      BY <1>2, <2>2
    <3>2. \A i \in 0 .. req.bytes - 1 : Readable(i)
      BY <1>7, <3>1
    <3>3. \A i \in 0 .. req'.bytes - 1 : Readable(i)'
      BY <1>6, <3>2 DEF Readable, PageOf, guest_backmap
    <3>4. {i \in 0 .. req'.bytes - 1 : ~Readable(i)'} = {}
      BY <3>3
    <3> QED BY <1>6, <2>2, <3>1, <3>4 DEF FailureTold
  <2> QED BY <1>2, <2>1, <2>2
<1> QED BY <1>1, <1>2, <1>3, <1>5, <1>8, <1>9

-----------------------------------------------------------------------------
(* One lemma for each step.                                                *)
LEMMA BeginKeeps ==
  ASSUME MemInv, NEW t \in Requests, Begin(t)
  PROVE  MemInv'
<1>1. /\ req' = t /\ page' = t.page /\ off' = t.off /\ done' = 0 /\ was' = pmem /\ pc' = "busy"
      /\ UNCHANGED <<little, xlat, pmem>>
      /\ little => Aligned(t)
      /\ t.op = "to" => buf' = [i \in 0 .. t.bytes - 1 |-> Data[i]]
  BY DEF Begin
<1>2. /\ t \in [op : {"from", "to"}, page : Nat, off : Offsets, bytes : Nat,
                size : AccessSizes, nul : BOOLEAN]
      /\ t.nul => t.op = "from" /\ t.size = 1
      /\ t.op = "to" => \A i \in 0 .. t.bytes - 1 : Data[i] \in Byte
  BY DEF Requests
<1>3. TypeOK'
  BY <1>1, <1>2 DEF MemInv, TypeOK, PmemSize, Offsets
<1>4. Fits'
  <2>1. 0 % t.size = 0
    BY <1>2 DEF AccessSizes
  <2>2. (t.op = "to") => \A i \in 0 .. t.bytes - 1 : buf'[i] \in Byte
    BY <1>1, <1>2
  <2> QED BY <1>1, <1>2, <2>1, <2>2 DEF Fits, Aligned
<1>5. Placed'
  <2>1. t.off + 0 = t.off /\ t.page \in Nat /\ t.off \in Offsets
    BY <1>2, PageFact DEF Offsets
  <2>2. (t.off + 0) \div PageSize = 0 /\ (t.off + 0) % PageSize = t.off
    BY <2>1, SmallOffset
  <2>3. page' = t.page + (t.off + 0) \div PageSize /\ off' = (t.off + 0) % PageSize
    BY <1>1, <2>1, <2>2
  <2> QED BY <1>1, <2>3 DEF Placed, PageOf, OffOf
<1>6. StringSoFar'
  BY <1>1 DEF StringSoFar
<1>7. ReadExact'
  BY <1>1 DEF ReadExact
<1>8. WriteExact'
  BY <1>1 DEF WriteExact
<1>9. FailureTold' /\ StringRead'
  BY <1>1 DEF FailureTold, StringRead
<1> QED BY <1>3, <1>4, <1>5, <1>6, <1>7, <1>8, <1>9 DEF MemInv

LEMMA DoneKeeps ==
  ASSUME MemInv, Done
  PROVE  MemInv'
<1>1. /\ req' = NoRequest /\ page' = 0 /\ off' = 0 /\ done' = 0 /\ was' = pmem /\ pc' = "idle"
      /\ UNCHANGED <<little, xlat, pmem>>
  BY DEF Done
<1>2. TypeOK'
  BY <1>1, PageFact DEF MemInv, TypeOK, PmemSize, Offsets, NoRequest, AccessSizes
<1>3. Fits'
  <2>1. 0 % 1 = 0
    OBVIOUS
  <2> QED BY <1>1, <2>1 DEF Fits, NoRequest, Aligned
<1>4. Placed' /\ StringSoFar' /\ FailureTold' /\ StringRead'
  BY <1>1 DEF Placed, StringSoFar, FailureTold, StringRead
<1>5. ReadExact' /\ WriteExact'
  BY <1>1 DEF ReadExact, WriteExact, NoRequest
<1> QED BY <1>2, <1>3, <1>4, <1>5 DEF MemInv

(* A step that leaves the memory and the transfer alone keeps what is      *)
(* transferred exact.                                                      *)
LEMMA BytesStand ==
  ASSUME ReadExact, WriteExact, UNCHANGED <<little, xlat, pmem, was, req, done, buf>>
  PROVE  ReadExact' /\ WriteExact'
<1>1. \A i : Cell(i)' = Cell(i)
  <2>1. \A i : Swapped(i)' = Swapped(i) /\ PageOf(i)' = PageOf(i) /\ OffOf(i)' = OffOf(i)
    BY DEF Swapped, PageOf, OffOf
  <2>2. \A p, o : GuestByte(p, o)' = GuestByte(p, o)
    BY DEF GuestByte
  <2> QED BY <2>1, <2>2 DEF Cell, Swapped, PageOf, OffOf, GuestByte
<1>2. ReadExact'
  BY <1>1 DEF ReadExact
<1>3. WriteExact'
  <2> DEFINE Mine(a) == {i \in 0 .. done - 1 : Cell(i) = a}
  <2>1. \A a : Mine(a)' = Mine(a)
    BY <1>1
  <2>2. \A a \in 0 .. PmemSize - 1 :
          pmem[a] = IF req.op = "to" /\ Mine(a) # {} THEN buf[Max(Mine(a))] ELSE was[a]
    BY DEF WriteExact
  <2> HIDE DEF Mine
  <2>3. \A a \in 0 .. PmemSize - 1 :
          pmem'[a] = IF req'.op = "to" /\ Mine(a)' # {} THEN buf'[Max(Mine(a)')] ELSE was'[a]
    BY <2>1, <2>2
  <2> QED BY <2>3 DEF WriteExact, Mine, PmemSize
<1> QED BY <1>2, <1>3

LEMMA StopsKeeps ==
  ASSUME MemInv, Stops
  PROVE  MemInv'
<1>1. pc' = "stopped" /\ UNCHANGED <<little, xlat, pmem, was, req, page, off, done, buf>>
      /\ pc = "busy" /\ Chunk % req.size # 0
  BY DEF Stops
<1>2. TypeOK'
  BY <1>1 DEF MemInv, TypeOK, PmemSize
<1>3. Fits'
  BY <1>1 DEF MemInv, Fits, Aligned
<1>4. Placed' /\ StringSoFar' /\ StringRead'
  BY <1>1 DEF Placed, StringSoFar, StringRead
<1>5. ReadExact' /\ WriteExact'
  BY <1>1, BytesStand DEF MemInv
<1>7. FailureTold'
  <2>1. ~Aligned(req)
    BY <1>1, ChunkWhole DEF MemInv
  <2> QED BY <1>1, <2>1 DEF FailureTold, Aligned
<1> QED BY <1>2, <1>3, <1>4, <1>5, <1>7 DEF MemInv

(* Where a string may end: the first of these is where it does.            *)
StringEnds ==
  {req.bytes} \cup {i \in 0 .. req.bytes - 1 : ~Readable(i) \/ pmem[Cell(i)] = 0}

WholeAt(end) == end < req.bytes /\ Readable(end)

InFirstPage(end) == WholeAt(end) /\ PageOf(end) = PageOf(0)

LEMMA StringEnd ==
  ASSUME TypeOK
  PROVE  /\ StringEnds \subseteq 0 .. req.bytes /\ Min(StringEnds) \in StringEnds
         /\ Min(StringEnds) \in Nat /\ \A n \in StringEnds : Min(StringEnds) <= n
<1>1. req.bytes \in Nat
  BY DEF TypeOK
<1>2. StringEnds \subseteq 0 .. req.bytes /\ StringEnds \subseteq Nat /\ StringEnds # {}
  BY <1>1 DEF StringEnds
<1> QED BY <1>2, MinMember

LEMMA StringReadNext ==
  ASSUME UNCHANGED <<little, xlat, pmem, req>>,
         NEW end, end = Min(StringEnds),
         (pc' \in {"ok", "short"} /\ req.nul /\ (little \/ InFirstPage(end))) =>
           /\ done' = end
           /\ \A i \in 0 .. end - 1 : buf'[i] = pmem[Cell(i)]
           /\ WholeAt(end) => buf'[end] = 0
  PROVE  StringRead'
<1>1. \A i : Readable(i)' = Readable(i) /\ Cell(i)' = Cell(i) /\ PageOf(i)' = PageOf(i)
  BY DEF Readable, PageOf, OffOf, Cell, GuestByte, Swapped, guest_backmap
<1>2. {req'.bytes} \cup {i \in 0 .. req'.bytes - 1 : ~Readable(i)' \/ pmem'[Cell(i)'] = 0} = StringEnds
  BY <1>1 DEF StringEnds
<1> QED BY <1>1, <1>2 DEF StringRead, WholeAt, InFirstPage

LEMMA FailsKeeps ==
  ASSUME MemInv, Fails
  PROVE  MemInv'
<1>1. /\ pc' = IF done = req.bytes THEN "ok" ELSE "short"
      /\ UNCHANGED <<little, xlat, pmem, was, req, page, off, done, buf>>
      /\ pc = "busy" /\ ~InMemory
  BY DEF Fails
<1>2. TypeOK'
  BY <1>1 DEF MemInv, TypeOK, PmemSize
<1>3. Fits'
  BY <1>1 DEF MemInv, Fits, Aligned
<1>4. Placed' /\ StringSoFar'
  BY <1>1 DEF Placed, StringSoFar
<1>5. ReadExact' /\ WriteExact'
  BY <1>1, BytesStand DEF MemInv
<1>7. /\ done \in Nat /\ req.bytes \in Nat /\ done <= req.bytes
      /\ ~Readable(done) /\ \A i \in 0 .. done - 1 : Readable(i)
  BY <1>1 DEF MemInv, TypeOK, Placed, Readable, InMemory
<1>8. FailureTold'
  <2> DEFINE missing == {i \in 0 .. req.bytes - 1 : ~Readable(i)}
  <2>1. done = req.bytes => missing = {}
    BY <1>7
  <2>2. done # req.bytes => done \in missing /\ Min(missing) = done
    <3>1. SUFFICES ASSUME done # req.bytes PROVE done \in missing /\ Min(missing) = done
      OBVIOUS
    <3>2. done \in missing /\ missing \subseteq Nat
      BY <1>7, <3>1
    <3>3. \A i \in missing : done <= i
      BY <1>7
    <3> HIDE DEF missing
    <3> QED BY <3>2, <3>3, MinIs
  <2>3. /\ pc' = "ok" <=> missing = {}
        /\ done = IF missing = {} THEN req.bytes ELSE Min(missing)
    <3> HIDE DEF missing
    <3> QED BY <1>1, <2>1, <2>2
  <2>4. pc' # "stopped"
    BY <1>1
  <2> QED BY <1>1, <2>3, <2>4 DEF FailureTold, Readable, PageOf, guest_backmap
<1>9. StringRead'
  <2> DEFINE end == Min(StringEnds)
  <2>1. ASSUME req.nul, little \/ InFirstPage(end)
        PROVE  /\ done = end
               /\ \A i \in 0 .. end - 1 : buf[i] = pmem[Cell(i)]
               /\ WholeAt(end) => buf[end] = 0
    <3>1. end \in StringEnds /\ end \in Nat /\ \A n \in StringEnds : end <= n
      BY StringEnd DEF MemInv
    <3> HIDE DEF end
    <3>2. done \in StringEnds
      BY <1>7 DEF StringEnds
    <3>3. end <= done
      BY <3>1, <3>2
    <3>4. CASE little
      <4>1. \A i \in 0 .. done - 1 : buf[i] = pmem[Cell(i)] /\ pmem[Cell(i)] # 0
        BY <1>1, <2>1, <3>4 DEF MemInv, StringSoFar
      <4>2. \A n \in StringEnds : done <= n
        BY <1>7, <4>1 DEF StringEnds
      <4>3. end = done
        BY <1>7, <3>1, <3>3, <4>2
      <4> QED BY <1>7, <4>1, <4>3 DEF WholeAt
    <3>5. CASE ~little
      <4>1. InFirstPage(end)
        BY <2>1, <3>5
      <4>2. pmem[Cell(end)] = 0 /\ end \in 0 .. req.bytes - 1
        BY <1>7, <3>1, <4>1 DEF StringEnds, InFirstPage, WholeAt
      <4>3. done = 0 \/ Unended
        BY <1>1, <2>1, <3>5 DEF MemInv, StringSoFar
      <4>4. ~Unended
        BY <4>1, <4>2 DEF Unended, InFirstPage
      <4>5. done = 0 /\ end = 0
        BY <1>7, <3>1, <3>3, <4>3, <4>4
      <4> QED BY <1>7, <4>1, <4>5 DEF InFirstPage, WholeAt
    <3> QED BY <3>4, <3>5
  <2> HIDE DEF end
  <2>2. end = Min(StringEnds)
    BY DEF end
  <2> QED BY <1>1, <2>1, <2>2, StringReadNext
<1> QED BY <1>2, <1>3, <1>4, <1>5, <1>8, <1>9 DEF MemInv

LEMMA WriteKeeps ==
  ASSUME MemInv, pmem_to
  PROVE  MemInv'
<1>1. /\ pc = "busy" /\ InMemory /\ Chunk % req.size = 0 /\ req.op = "to" /\ Moves(Chunk)
      /\ pmem' = [a \in 0 .. PmemSize - 1 |-> Written(a, done)]
      /\ UNCHANGED <<little, xlat, was, req, buf>>
  BY DEF pmem_to, Moves
<1>2. TypeOK /\ Fits /\ Placed /\ WriteExact
  BY DEF MemInv
<1>3. /\ page' \in Nat /\ off' \in Offsets /\ done' = done + Chunk /\ done' \in Nat
      /\ done' <= req.bytes /\ done' % req.size = 0
      /\ pc' = IF done' = req.bytes THEN "ok" ELSE "busy"
      /\ Placed' /\ FailureTold'
  BY <1>1, <1>2, MovesOn
<1>4. TypeOK'
  <2>1. pmem' \in [0 .. PmemSize - 1 -> Byte]
    BY <1>1, <1>2, WrittenType
  <2> QED BY <1>1, <1>2, <1>3, <2>1 DEF TypeOK, PmemSize
<1>5. Fits'
  BY <1>1, <1>2, <1>3 DEF Fits, Aligned
<1>6. ~req.nul
  BY <1>1, <1>2 DEF Fits
<1>7. StringSoFar' /\ StringRead' /\ ReadExact'
  BY <1>1, <1>6 DEF StringSoFar, StringRead, ReadExact
<1>8. WriteExact'
  <2>1. SUFFICES ASSUME NEW a \in 0 .. PmemSize - 1
                 PROVE  LET mine == {i \in 0 .. done' - 1 : Cell(i)' = a}
                        IN  pmem'[a] = IF req'.op = "to" /\ mine # {} THEN buf'[Max(mine)] ELSE was'[a]
    BY DEF WriteExact, PmemSize
  <2> DEFINE new == {i \in 0 .. done' - 1 : Cell(i)' = a}
             mine == {i \in 0 .. done + Chunk - 1 : Cell(i) = a}
  <2>2. \A i : Cell(i)' = Cell(i)
    BY <1>1 DEF Cell, GuestByte, PageOf, OffOf, Swapped
  <2>3. done' - 1 = done + Chunk - 1
    BY <1>2, <1>1, <1>3, ChunkFact
  <2>4. new = mine
    BY <2>2, <2>3
  <2>5. pmem'[a] = IF mine # {} THEN buf[Max(mine)] ELSE was[a]
    BY <1>1, <1>2, WrittenLast
  <2> HIDE DEF mine, new
  <2>6. pmem'[a] = IF req'.op = "to" /\ new # {} THEN buf'[Max(new)] ELSE was'[a]
    BY <1>1, <2>4, <2>5
  <2> QED BY <2>6 DEF new
<1> QED BY <1>3, <1>4, <1>5, <1>7, <1>8 DEF MemInv

(* What joins the buffer is the bytes that follow.                         *)
LEMMA CopiesExact ==
  ASSUME TypeOK, Fits, Placed, pc = "busy", Chunk % req.size = 0,
         \A i \in 0 .. done - 1 : buf[i] = pmem[Cell(i)],
         NEW n \in Nat, n <= Chunk, Copies(n)
  PROVE  \A i \in 0 .. done + n - 1 : buf'[i] = pmem[Cell(i)]
<1>1. done \in Nat /\ Chunk \in Nat /\ off \in Nat
  BY ChunkFact
<1>2. SUFFICES ASSUME NEW i \in 0 .. done + n - 1 PROVE buf'[i] = pmem[Cell(i)]
  OBVIOUS
<1>3. CASE i < done
  <2>1. buf'[i] = buf[i]
    BY <1>3 DEF Copies
  <2>2. i \in 0 .. done - 1
    BY <1>1, <1>3
  <2> QED BY <2>1, <2>2
<1>4. CASE ~(i < done)
  <2>1. i - done \in 0 .. Chunk - 1 /\ done + (i - done) = i /\ off + i - done = off + (i - done)
    BY <1>1, <1>4
  <2>2. Cell(i) = At(Where(off + (i - done), req.size))
    BY <2>1, CellHere
  <2> QED BY <1>4, <2>1, <2>2 DEF Copies
<1> QED BY <1>3, <1>4

LEMMA ReadKeeps ==
  ASSUME MemInv, pmem_from
  PROVE  MemInv'
<1>1. /\ pc = "busy" /\ InMemory /\ Chunk % req.size = 0 /\ req.op = "from" /\ ~req.nul
      /\ Copies(Chunk) /\ Moves(Chunk)
      /\ UNCHANGED <<little, xlat, pmem, was, req>>
  BY DEF pmem_from, Moves
<1>2. TypeOK /\ Fits /\ Placed /\ ReadExact /\ WriteExact
  BY DEF MemInv
<1>3. /\ page' \in Nat /\ off' \in Offsets /\ done' = done + Chunk /\ done' \in Nat
      /\ done' <= req.bytes /\ done' % req.size = 0
      /\ pc' = IF done' = req.bytes THEN "ok" ELSE "busy"
      /\ Placed' /\ FailureTold'
  BY <1>1, <1>2, MovesOn
<1>4. TypeOK'
  BY <1>1, <1>2, <1>3 DEF TypeOK, PmemSize
<1>5. Fits'
  BY <1>1, <1>2, <1>3 DEF Fits, Aligned
<1>6. StringSoFar' /\ StringRead'
  BY <1>1 DEF StringSoFar, StringRead
<1>7. WriteExact'
  BY <1>1, <1>5 DEF WriteExact, Fits
<1>8. ReadExact'
  <2>1. \A i : Cell(i)' = Cell(i)
    BY <1>1 DEF Cell, GuestByte, PageOf, OffOf, Swapped
  <2>2. done \in Nat /\ Chunk \in Nat
    BY <1>1, <1>2, ChunkFact
  <2>3. \A i \in 0 .. done + Chunk - 1 : buf'[i] = pmem[Cell(i)]
    BY <1>1, <1>2, <2>2, CopiesExact DEF ReadExact
  <2>4. done' - 1 = done + Chunk - 1
    BY <1>3, <2>2
  <2>5. \A i \in 0 .. done' - 1 : buf'[i] = pmem'[Cell(i)']
    BY <1>1, <2>1, <2>3, <2>4
  <2> QED BY <2>5 DEF ReadExact
<1> QED BY <1>3, <1>4, <1>5, <1>6, <1>7, <1>8 DEF MemInv

LEMMA StringKeeps ==
  ASSUME MemInv, FromString
  PROVE  MemInv'
<1>1. /\ pc = "busy" /\ InMemory /\ req.op = "from" /\ req.nul /\ little
      /\ IF Nuls = {} THEN Copies(Chunk) /\ Moves(Chunk)
         ELSE Copies(Min(Nuls) + 1) /\ Moves(Min(Nuls))
      /\ UNCHANGED <<little, xlat, pmem, was, req>>
  BY DEF FromString, Moves
<1>2. TypeOK /\ Fits /\ Placed /\ req.size = 1 /\ Chunk % 1 = 0 /\ Chunk % req.size = 0
  <2>1. TypeOK /\ Fits /\ Placed /\ req.size = 1
    BY <1>1 DEF MemInv, Fits
  <2>2. Chunk % 1 = 0
    BY <1>1, <2>1, ChunkFact
  <2> QED BY <2>1, <2>2
<1>3. /\ done \in Nat /\ Chunk \in Nat /\ off \in Nat /\ done + Chunk <= req.bytes
      /\ req.bytes \in Nat /\ page \in Nat
  BY <1>1, <1>2, ChunkFact DEF TypeOK
<1>4. \A i \in 0 .. done - 1 : buf[i] = pmem[Cell(i)] /\ pmem[Cell(i)] # 0
  BY <1>1 DEF MemInv, StringSoFar
<1>5. \A j \in 0 .. Chunk - 1 : Cell(done + j) = At(Where(off + j, 1))
  BY <1>1, <1>2, CellHere
<1>6. Nuls = {j \in 0 .. Chunk - 1 : pmem[Cell(done + j)] = 0}
  BY <1>5 DEF Nuls
<1>7. \A i \in 0 .. done + Chunk - 1 : Readable(i)
  BY <1>1, <1>2, Passed
<1>8. \A i : Cell(i)' = Cell(i)
  BY <1>1 DEF Cell, GuestByte, PageOf, OffOf, Swapped
<1>9. ReadExact'
  BY <1>1 DEF ReadExact
<1>10. WriteExact'
  <2>1. pmem' = was' /\ req'.op # "to"
    BY <1>1, <1>2 DEF Fits
  <2> QED BY <2>1 DEF WriteExact
<1>11. CASE Nuls = {}
  <2>1. Copies(Chunk) /\ Moves(Chunk)
    BY <1>1, <1>11
  <2>2. /\ page' \in Nat /\ off' \in Offsets /\ done' = done + Chunk /\ done' \in Nat
        /\ done' <= req.bytes /\ done' % req.size = 0
        /\ pc' = IF done' = req.bytes THEN "ok" ELSE "busy"
        /\ Placed' /\ FailureTold'
    BY <1>1, <1>2, <2>1, MovesOn
  <2>3. TypeOK'
    BY <1>1, <1>2, <2>2 DEF TypeOK, PmemSize
  <2>4. Fits'
    BY <1>1, <1>2, <2>2 DEF Fits, Aligned
  <2>5. \A i \in 0 .. done + Chunk - 1 : buf'[i] = pmem[Cell(i)] /\ pmem[Cell(i)] # 0
    <3>1. \A i \in 0 .. done + Chunk - 1 : buf'[i] = pmem[Cell(i)]
      BY <1>1, <1>2, <1>3, <1>4, <2>1, CopiesExact
    <3>2. ASSUME NEW i \in 0 .. done + Chunk - 1 PROVE pmem[Cell(i)] # 0
      <4>1. CASE i < done
        BY <1>3, <1>4, <4>1
      <4>2. CASE i >= done
        <5>1. i - done \in 0 .. Chunk - 1 /\ done + (i - done) = i
          BY <1>3, <4>2
        <5> QED BY <1>6, <1>11, <5>1
      <4> QED BY <1>3, <4>1, <4>2
    <3> QED BY <3>1, <3>2
  <2>6. done' - 1 = done + Chunk - 1
    BY <1>3, <2>2
  <2>7. StringSoFar'
    <3>1. \A i \in 0 .. done' - 1 : buf'[i] = pmem'[Cell(i)'] /\ pmem'[Cell(i)'] # 0
      BY <1>1, <1>8, <2>5, <2>6
    <3> QED BY <1>1, <3>1 DEF StringSoFar
  <2>8. StringRead'
    <3> DEFINE end == Min(StringEnds)
    <3>1. ASSUME pc' \in {"ok", "short"}
          PROVE  /\ done' = end
                 /\ \A i \in 0 .. end - 1 : buf'[i] = pmem[Cell(i)]
                 /\ WholeAt(end) => buf'[end] = 0
      <4>1. done + Chunk = req.bytes
        BY <2>2, <3>1
      <4>2. StringEnds = {req.bytes}
        BY <1>3, <1>7, <2>5, <4>1 DEF StringEnds
      <4>3. end = req.bytes
        BY <1>3, <4>2, MinIs
      <4> HIDE DEF end
      <4> QED BY <1>3, <2>2, <2>5, <4>1, <4>3 DEF WholeAt
    <3> HIDE DEF end
    <3>2. end = Min(StringEnds)
      BY DEF end
    <3> QED BY <1>1, <3>1, <3>2, StringReadNext
  <2> QED BY <1>9, <1>10, <2>2, <2>3, <2>4, <2>7, <2>8 DEF MemInv
<1>12. CASE Nuls # {}
  <2> DEFINE m == Min(Nuls)
  <2>1. m \in Nuls /\ \A j \in Nuls : m <= j
    <3>1. Nuls \subseteq Nat
      BY <1>3 DEF Nuls
    <3> QED BY <1>12, <3>1, MinMember
  <2>2. m \in 0 .. Chunk - 1 /\ pmem[Cell(done + m)] = 0
    BY <1>6, <2>1
  <2>3. Copies(m + 1) /\ Moves(m)
    BY <1>1, <1>12
  <2>4. \A j \in 0 .. Chunk - 1 : j < m => pmem[Cell(done + j)] # 0
    BY <1>6, <2>1
  <2> HIDE DEF m
  <2>5. done' = done + m /\ pc' = "short" /\ page' \in Nat /\ off' \in Offsets
    <3>1. /\ done' = done + m
          /\ pc' = IF done + m = req.bytes THEN "ok" ELSE IF m = Chunk THEN "busy" ELSE "short"
      BY <2>3 DEF Moves
    <3>2. done + m # req.bytes /\ m # Chunk
      BY <1>3, <2>2
    <3>3. page' = PageOf(done + Chunk) /\ off' = OffOf(done + Chunk)
      BY <1>1, <1>2, <2>3, NextPlace DEF Moves
    <3> QED BY <1>2, <1>3, <3>1, <3>2, <3>3, Position
  <2>6. TypeOK'
    BY <1>1, <1>2, <1>3, <2>2, <2>5 DEF TypeOK, PmemSize
  <2>7. Fits'
    <3>1. done' % 1 = 0
      BY <1>3, <2>2, <2>5
    <3> QED BY <1>1, <1>2, <3>1 DEF Fits, Aligned
  <2>8. Placed' /\ StringSoFar' /\ FailureTold'
    BY <1>1, <2>5 DEF Placed, StringSoFar, FailureTold
  <2>9. \A i \in 0 .. done + m : buf'[i] = pmem[Cell(i)]
    <3>1. \A i \in 0 .. done + (m + 1) - 1 : buf'[i] = pmem[Cell(i)]
      <4>1. m + 1 \in Nat /\ m + 1 <= Chunk
        BY <1>3, <2>2
      <4> QED BY <1>1, <1>2, <1>4, <2>3, <4>1, CopiesExact
    <3>2. done + (m + 1) - 1 = done + m
      BY <1>3, <2>2
    <3> QED BY <3>1, <3>2
  <2>10. Min(StringEnds) = done + m
    <3>1. done + m \in StringEnds
      BY <1>3, <2>2 DEF StringEnds
    <3>2. ASSUME NEW n \in StringEnds PROVE done + m <= n
      <4>1. n \in 0 .. req.bytes
        BY <1>2, StringEnd
      <4>2. SUFFICES ASSUME n < done + m PROVE FALSE
        BY <1>3, <2>2, <4>1
      <4>3. n # req.bytes /\ Readable(n) /\ pmem[Cell(n)] = 0
        <5>1. n # req.bytes /\ n \in 0 .. done + Chunk - 1
          BY <1>3, <2>2, <4>1, <4>2
        <5> QED BY <1>7, <5>1 DEF StringEnds
      <4>4. CASE n < done
        BY <1>4, <4>1, <4>3, <4>4, <1>3
      <4>5. CASE n >= done
        <5>1. n - done \in 0 .. Chunk - 1 /\ done + (n - done) = n /\ n - done < m
          BY <1>3, <2>2, <4>1, <4>2, <4>5
        <5> QED BY <2>4, <4>3, <5>1
      <4> QED BY <1>3, <4>1, <4>4, <4>5
    <3>3. StringEnds \subseteq Nat
      BY <1>2, <1>3, StringEnd
    <3> QED BY <3>1, <3>2, <3>3, MinIs
  <2>11. StringRead'
    <3> DEFINE end == Min(StringEnds)
    <3>1. end = done + m
      BY <2>10
    <3> HIDE DEF end
    <3>2. /\ done' = end
          /\ \A i \in 0 .. end - 1 : buf'[i] = pmem[Cell(i)]
          /\ buf'[end] = 0
      BY <1>3, <2>2, <2>5, <2>9, <3>1
    <3>3. end = Min(StringEnds)
      BY DEF end
    <3> QED BY <1>1, <3>2, <3>3, StringReadNext
  <2> QED BY <1>9, <1>10, <2>6, <2>7, <2>8, <2>11 DEF MemInv
<1> QED BY <1>11, <1>12

LEMMA FrameThere ==
  ASSUME TypeOK, NEW p \in Nat, guest_backmap(p) # None
  PROVE  p \in 0 .. Pages - 1 /\ xlat[p] \in 0 .. Frames - 1
<1>1. p < Pages /\ xlat[p] # None
  BY DEF guest_backmap
<1>2. p \in 0 .. Pages - 1
  BY <1>1, MemAssumption
<1>3. xlat[p] \in {None} \cup (0 .. Frames - 1)
  BY <1>2 DEF TypeOK
<1> QED BY <1>1, <1>2, <1>3

LEMMA StrlenFact ==
  ASSUME TypeOK, NEW a \in 0 .. PmemSize - 1
  PROVE  /\ Strlen(a) \in Nat /\ a + Strlen(a) <= PmemSize
         /\ \A b \in a .. PmemSize - 1 : b < a + Strlen(a) => pmem[b] # 0
         /\ a + Strlen(a) < PmemSize => pmem[a + Strlen(a)] = 0
<1> DEFINE ends == {b \in a .. PmemSize - 1 : pmem[b] = 0}
           z == IF ends = {} THEN PmemSize ELSE Min(ends)
<1>1. PmemSize \in Int /\ a \in Nat /\ a < PmemSize
  BY MemAssumption, PageFact, SMT DEF PmemSize
<1>2. Strlen(a) = z - a
  BY DEF Strlen
<1>3. /\ z \in Nat /\ a <= z /\ z <= PmemSize
      /\ \A b \in ends : z <= b
      /\ z < PmemSize => z \in ends
  <2>1. CASE ends = {}
    BY <1>1, <2>1
  <2>2. CASE ends # {}
    <3>1. ends \subseteq Nat /\ \A b \in ends : a <= b /\ b <= PmemSize
      BY <1>1
    <3>2. z = Min(ends)
      BY <2>2
    <3> HIDE DEF ends, z
    <3>3. z \in ends /\ \A b \in ends : z <= b
      BY <2>2, <3>1, <3>2, MinMember
    <3> QED BY <1>1, <3>1, <3>3
  <2> QED BY <2>1, <2>2
<1> HIDE DEF z
<1>4. a + Strlen(a) = z /\ Strlen(a) \in Nat
  BY <1>1, <1>2, <1>3
<1>5. ASSUME NEW b \in a .. PmemSize - 1, b < z PROVE pmem[b] # 0
  <2>1. b \notin ends
    BY <1>1, <1>3, <1>5
  <2> QED BY <2>1
<1> QED BY <1>3, <1>4, <1>5

LEMMA PageMonotone ==
  ASSUME TypeOK, NEW i \in Nat, NEW k \in Nat, i <= k
  PROVE  PageOf(i) <= PageOf(k)
<1> DEFINE n == req.off + i
           d == k - i
<1>1. n \in Nat /\ d \in Nat /\ req.off + k = n + d /\ req.page \in Nat
  BY Position
<1>2. PageOf(i) = req.page + n \div PageSize /\ PageOf(k) = req.page + (n + d) \div PageSize
  BY <1>1 DEF PageOf
<1> HIDE DEF n, d
<1>3. (n + d) \div PageSize = n \div PageSize + ((n % PageSize) + d) \div PageSize
  BY <1>1, PagePlus
<1>4. n \div PageSize \in Nat /\ n % PageSize \in Nat
  BY <1>1, OffsetType, PageFact DEF Offsets
<1>5. (n % PageSize) + d \in Nat
  BY <1>1, <1>4
<1>6. ((n % PageSize) + d) \div PageSize \in Nat
  BY <1>5, OffsetType
<1> QED BY <1>1, <1>2, <1>3, <1>4, <1>6

(* The first pass of a transfer is over the whole of its first page.       *)
LEMMA FirstPage ==
  ASSUME TypeOK, Placed, pc = "busy", done = 0,
         NEW i \in 0 .. req.bytes - 1, PageOf(i) = PageOf(0)
  PROVE  i < Chunk
<1>1. /\ Chunk \in Nat /\ i \in Nat /\ req.bytes \in Nat
      /\ off + Chunk = PageSize \/ Chunk = req.bytes
      /\ page = PageOf(0) /\ page \in Nat /\ done + Chunk = Chunk
  <2>1. /\ Chunk \in Nat
        /\ off + Chunk = PageSize \/ done + Chunk = req.bytes
        /\ req.bytes \in Nat /\ page \in Nat /\ page = PageOf(0)
    BY ChunkFact DEF TypeOK, Placed
  <2> QED BY <2>1
<1>2. SUFFICES ASSUME i >= Chunk PROVE FALSE
  BY <1>1
<1>3. off + Chunk = PageSize
  BY <1>1, <1>2
<1>4. PageOf(Chunk) = page + 1
  BY <1>1, <1>3, NextPlace
<1>5. PageOf(Chunk) <= PageOf(i)
  BY <1>1, <1>2, PageMonotone
<1> QED BY <1>1, <1>4, <1>5

(* The strlen of the first pass finds the string's end, or that it is not  *)
(* on the page.                                                            *)
LEMMA FirstStrlen ==
  ASSUME TypeOK, Fits, Placed, pc = "busy", InMemory, ~little, req.nul, done = 0
  PROVE  LET n == Strlen(At(off))
         IN  /\ n \in Nat
             /\ n >= Chunk => Unended
             /\ n < Chunk => pmem[Cell(n)] = 0 /\ \A j \in 0 .. n - 1 : pmem[Cell(j)] # 0
             /\ \A j \in 0 .. Chunk - 1 : Cell(j) = At(off + j)
<1> DEFINE a == At(off)
           n == Strlen(a)
<1>1. /\ off \in Offsets /\ off \in Nat /\ Chunk \in Nat /\ off + Chunk <= PageSize /\ PageSize \in Nat
      /\ req.size = 1 /\ Chunk % req.size = 0
  <2>1. /\ off \in Offsets /\ off \in Nat /\ Chunk \in Nat /\ off + Chunk <= PageSize /\ PageSize \in Nat
        /\ req.size = 1
    BY ChunkFact, PageFact DEF TypeOK, Fits
  <2> QED BY <2>1
<1>2. xlat[page] \in 0 .. Frames - 1
  BY FrameThere DEF InMemory, TypeOK
<1>3. xlat[page] * PageSize \in Nat
  <2>1. xlat[page] \in Nat
    BY <1>2
  <2> QED BY <1>1, <2>1, SMT
<1>4. ASSUME NEW j \in 0 .. Chunk - 1 PROVE At(off + j) = a + j /\ a + j \in 0 .. PmemSize - 1
  <2>1. off + j \in Offsets
    BY <1>1 DEF Offsets
  <2>2. At(off + j) \in 0 .. PmemSize - 1
    BY <1>2, <2>1, FrameByte DEF At
  <2>3. At(off + j) = a + j
    BY <1>1, <1>3 DEF At
  <2> QED BY <2>2, <2>3
<1>5. a \in 0 .. PmemSize - 1
  BY <1>1, <1>2, FrameByte DEF At
<1> HIDE DEF a
<1>6. /\ n \in Nat /\ a + n <= PmemSize
      /\ \A b \in a .. PmemSize - 1 : b < a + n => pmem[b] # 0
      /\ a + n < PmemSize => pmem[a + n] = 0
  BY <1>5, StrlenFact
<1> HIDE DEF n
<1>7. \A j \in 0 .. Chunk - 1 : Cell(j) = At(off + j) /\ PageOf(j) = page
  <2>1. ASSUME NEW j \in 0 .. Chunk - 1
        PROVE  Cell(done + j) = At(Where(off + j, req.size)) /\ PageOf(done + j) = page
    BY <1>1, CellHere
  <2>2. ASSUME NEW j \in 0 .. Chunk - 1 PROVE done + j = j /\ Where(off + j, req.size) = off + j
    BY DEF Where
  <2> QED BY <2>1, <2>2
<1>8. ASSUME NEW j \in 0 .. Chunk - 1, j < n PROVE pmem[Cell(j)] # 0
  <2>1. a + j \in a .. PmemSize - 1 /\ a + j < a + n
    BY <1>4, <1>5, <1>6, <1>8
  <2>2. pmem[a + j] # 0
    BY <1>6, <2>1
  <2> QED BY <1>4, <1>7, <2>2
<1>9. ASSUME n < Chunk PROVE pmem[Cell(n)] = 0 /\ \A j \in 0 .. n - 1 : pmem[Cell(j)] # 0
  <2>1. n \in 0 .. Chunk - 1
    BY <1>1, <1>6, <1>9
  <2>2. a + n < PmemSize /\ Cell(n) = a + n
    <3>1. a + n \in 0 .. PmemSize - 1 /\ At(off + n) = a + n
      BY <1>4, <2>1
    <3>2. PmemSize \in Int
      BY MemAssumption, PageFact, SMT DEF PmemSize
    <3> QED BY <1>7, <2>1, <3>1, <3>2
  <2>3. \A j \in 0 .. n - 1 : pmem[Cell(j)] # 0
    BY <1>1, <1>6, <1>8, <1>9
  <2> QED BY <1>6, <2>2, <2>3
<1>10. ASSUME n >= Chunk PROVE Unended
  <2>1. SUFFICES ASSUME NEW i \in 0 .. req.bytes - 1, PageOf(i) = PageOf(0)
                 PROVE  Readable(i) /\ pmem[Cell(i)] # 0
    BY DEF Unended
  <2>2. i \in 0 .. Chunk - 1 /\ i < n
    <3>1. i < Chunk /\ i \in Nat
      BY <2>1, FirstPage
    <3> QED BY <1>1, <1>6, <1>10, <3>1
  <2>3. PageOf(i) = page
    BY <1>7, <2>2
  <2> QED BY <1>8, <2>2, <2>3 DEF Readable, InMemory
<1> QED BY <1>6, <1>7, <1>9, <1>10 DEF a, n

LEMMA StringBigKeeps ==
  ASSUME MemInv, FromStringBig
  PROVE  MemInv'
<1> DEFINE n == Strlen(At(off))
           kept == Least(n, Chunk - 1)
<1>1. /\ pc = "busy" /\ InMemory /\ req.op = "from" /\ req.nul /\ ~little
      /\ buf' = [i \in 0 .. done + kept |->
                   IF i < done THEN IF i \in DOMAIN buf THEN buf[i] ELSE 0
                   ELSE IF i = done + kept THEN 0 ELSE pmem[At(off + i - done)]]
      /\ Moves(n)
      /\ UNCHANGED <<little, xlat, pmem, was, req>>
  BY DEF FromStringBig, Moves
<1>2. TypeOK /\ Fits /\ Placed /\ req.size = 1 /\ Chunk % req.size = 0
  <2>1. TypeOK /\ Fits /\ Placed /\ req.size = 1
    BY <1>1 DEF MemInv, Fits
  <2>2. Chunk % 1 = 0
    BY <1>1, <2>1, ChunkFact
  <2> QED BY <2>1, <2>2
<1>3. /\ done \in Nat /\ Chunk \in Nat /\ off \in Nat /\ done + Chunk <= req.bytes
      /\ req.bytes \in Nat /\ off \in Offsets
  BY <1>1, <1>2, ChunkFact DEF TypeOK
<1>4. n \in Nat
  <2>1. xlat[page] \in 0 .. Frames - 1
    BY <1>1, <1>2, FrameThere DEF InMemory, TypeOK
  <2>2. At(off) \in 0 .. PmemSize - 1
    BY <1>3, <2>1, FrameByte DEF At
  <2> QED BY <1>2, <2>2, StrlenFact
<1>5. done = 0 =>
        /\ n >= Chunk => Unended
        /\ n < Chunk => pmem[Cell(n)] = 0 /\ \A j \in 0 .. n - 1 : pmem[Cell(j)] # 0
        /\ \A j \in 0 .. Chunk - 1 : Cell(j) = At(off + j)
  BY <1>1, <1>2, FirstStrlen
<1> HIDE DEF n
<1>6. done = 0 \/ Unended
  BY <1>1 DEF MemInv, StringSoFar
<1>7. /\ done' = done + n
      /\ pc' = IF done + n = req.bytes THEN "ok" ELSE IF n = Chunk THEN "busy" ELSE "short"
      /\ page' = PageOf(done + Chunk) /\ off' = OffOf(done + Chunk)
  BY <1>1, <1>2, <1>3, NextPlace DEF Moves
<1>8. page' \in Nat /\ off' \in Offsets
  BY <1>2, <1>3, <1>7, Position
<1>9. pc' = "busy" => n = Chunk /\ done' = done + Chunk
  BY <1>7
<1>10. TypeOK'
  BY <1>1, <1>2, <1>3, <1>4, <1>7, <1>8, <1>9 DEF TypeOK, PmemSize
<1>11. Fits'
  <2>1. done' % 1 = 0
    BY <1>3, <1>4, <1>7
  <2> QED BY <1>1, <1>2, <2>1 DEF Fits, Aligned
<1>12. Placed'
  <2>1. ASSUME pc' = "busy"
        PROVE  /\ page' = PageOf(done') /\ off' = OffOf(done')
               /\ \A i \in 0 .. done' - 1 : Readable(i)
    <3>1. done' = done + Chunk /\ done' - 1 = done + Chunk - 1
      BY <1>3, <1>9, <2>1
    <3>2. \A i \in 0 .. done + Chunk - 1 : Readable(i)
      BY <1>1, <1>2, Passed
    <3>3. \A i \in 0 .. done' - 1 : Readable(i)
      BY <3>1, <3>2
    <3> QED BY <1>7, <3>1, <3>3
  <2> QED BY <1>1, <2>1 DEF Placed, PageOf, OffOf, Readable, guest_backmap
<1>13. StringSoFar'
  <2>1. SUFFICES ASSUME pc' = "busy" PROVE Unended'
    BY <1>1 DEF StringSoFar
  <2>2. Unended
    BY <1>3, <1>5, <1>6, <1>9, <2>1
  <2> QED BY <1>1, <2>2 DEF Unended, Readable, PageOf, OffOf, Cell, GuestByte, Swapped, guest_backmap
<1>14. ReadExact' /\ FailureTold'
  BY <1>1, <1>7 DEF ReadExact, FailureTold
<1>15. WriteExact'
  <2>1. pmem' = was' /\ req'.op # "to"
    BY <1>1, <1>2 DEF Fits
  <2> QED BY <2>1 DEF WriteExact
<1>16. StringRead'
  <2> DEFINE end == Min(StringEnds)
  <2>1. ASSUME InFirstPage(end)
        PROVE  /\ done' = end
               /\ \A i \in 0 .. end - 1 : buf'[i] = pmem[Cell(i)]
               /\ buf'[end] = 0
    <3>1. end \in StringEnds /\ end \in Nat /\ \A k \in StringEnds : end <= k
      BY <1>2, StringEnd
    <3> HIDE DEF end
    <3>2. end < req.bytes /\ Readable(end) /\ PageOf(end) = PageOf(0)
      BY <2>1 DEF InFirstPage, WholeAt
    <3>3. pmem[Cell(end)] = 0 /\ end \in 0 .. req.bytes - 1
      BY <1>3, <3>1, <3>2 DEF StringEnds
    <3>4. ~Unended
      BY <3>2, <3>3 DEF Unended
    <3>5. done = 0 /\ n < Chunk
      BY <1>3, <1>4, <1>5, <1>6, <3>4
    <3>6. pmem[Cell(n)] = 0 /\ \A j \in 0 .. n - 1 : pmem[Cell(j)] # 0
      BY <1>5, <3>5
    <3>7. n \in StringEnds
      BY <1>3, <1>4, <3>5, <3>6 DEF StringEnds
    <3>8. n = end
      <4>1. end <= n
        BY <3>1, <3>7
      <4>2. ~(end < n)
        BY <1>4, <3>1, <3>3, <3>6
      <4> QED BY <1>4, <3>1, <4>1, <4>2
    <3>9. kept = n
      BY <1>3, <1>4, <3>5 DEF Least
    <3> HIDE DEF kept
    <3>10. buf'[end] = 0
      BY <1>1, <1>4, <3>5, <3>8, <3>9
    <3>11. ASSUME NEW i \in 0 .. end - 1 PROVE buf'[i] = pmem[Cell(i)]
      <4>1. i \in 0 .. done + kept /\ ~(i < done) /\ i # done + kept /\ off + i - done = off + i
        BY <1>3, <1>4, <3>5, <3>8, <3>9
      <4>2. buf'[i] = pmem[At(off + i)]
        BY <1>1, <4>1
      <4>3. i \in 0 .. Chunk - 1
        BY <1>3, <1>4, <3>5, <3>8
      <4> QED BY <1>5, <3>5, <4>2, <4>3
    <3> QED BY <1>3, <1>4, <1>7, <3>5, <3>8, <3>10, <3>11
  <2> HIDE DEF end
  <2>2. end = Min(StringEnds)
    BY DEF end
  <2> QED BY <1>1, <2>1, <2>2, StringReadNext
<1> QED BY <1>10, <1>11, <1>12, <1>13, <1>14, <1>15, <1>16 DEF MemInv

LEMMA SameKeeps ==
  ASSUME MemInv, UNCHANGED vars
  PROVE  MemInv'
<1>1. UNCHANGED <<little, xlat, pmem, was, req, page, off, done, buf, pc>>
  BY DEF vars
<1>2. TypeOK'
  BY <1>1 DEF MemInv, TypeOK, PmemSize
<1>3. Fits'
  BY <1>1 DEF MemInv, Fits, Aligned
<1>4. Placed'
  BY <1>1 DEF MemInv, Placed, PageOf, OffOf, Readable, guest_backmap
<1>5. StringSoFar'
  <2>1. Unended' = Unended
    BY <1>1 DEF Unended, PageOf, OffOf, Readable, guest_backmap, Cell, GuestByte, Swapped
  <2> QED BY <1>1, <2>1 DEF MemInv, StringSoFar, Cell, GuestByte, PageOf, OffOf, Swapped
<1>6. ReadExact' /\ WriteExact'
  BY <1>1, BytesStand DEF MemInv
<1>8. FailureTold'
  BY <1>1 DEF MemInv, FailureTold, Readable, PageOf, guest_backmap, Aligned
<1>9. StringRead'
  <2> DEFINE end == Min(StringEnds)
  <2>1. (pc \in {"ok", "short"} /\ req.nul /\ (little \/ InFirstPage(end))) =>
           /\ done = end
           /\ \A i \in 0 .. end - 1 : buf[i] = pmem[Cell(i)]
           /\ WholeAt(end) => buf[end] = 0
    BY DEF MemInv, StringRead, StringEnds, InFirstPage, WholeAt
  <2> HIDE DEF end
  <2>2. end = Min(StringEnds)
    BY DEF end
  <2> QED BY <1>1, <2>1, <2>2, StringReadNext
<1> QED BY <1>2, <1>3, <1>4, <1>5, <1>6, <1>8, <1>9 DEF MemInv

LEMMA MemInit == Init => MemInv
<1> SUFFICES ASSUME Init PROVE MemInv
  OBVIOUS
<1>1. /\ little \in BOOLEAN /\ xlat \in Xlats /\ pmem \in Contents /\ was = pmem
      /\ req = NoRequest /\ page = 0 /\ off = 0 /\ done = 0 /\ pc = "idle"
  BY DEF Init
<1>2. TypeOK
  <2>1. 0 \in Offsets /\ 1 \in AccessSizes /\ 0 \in Nat
    BY PageFact DEF Offsets, AccessSizes
  <2>2. pmem \in [0 .. PmemSize - 1 -> Byte] /\ xlat \in [0 .. Pages - 1 -> {None} \cup (0 .. Frames - 1)]
    BY <1>1, MemAssumption DEF PmemSize
  <2> QED BY <1>1, <2>1, <2>2 DEF TypeOK, NoRequest
<1>3. Fits
  <2>1. 0 % 1 = 0
    OBVIOUS
  <2> QED BY <1>1, <2>1 DEF Fits, NoRequest, Aligned
<1>4. Placed /\ StringSoFar /\ FailureTold /\ StringRead
  BY <1>1 DEF Placed, StringSoFar, FailureTold, StringRead
<1>5. ReadExact /\ WriteExact
  BY <1>1 DEF ReadExact, WriteExact, NoRequest
<1> QED BY <1>2, <1>3, <1>4, <1>5 DEF MemInv

LEMMA MemStep ==
  ASSUME MemInv, Transferring \/ UNCHANGED vars
  PROVE  MemInv'
<1>1. CASE \E t \in Requests : Begin(t)
  BY <1>1, BeginKeeps
<1>2. CASE Pass
  BY <1>2, FailsKeeps, StopsKeeps, WriteKeeps, ReadKeeps, StringKeeps, StringBigKeeps DEF Pass
<1> QED BY <1>1, <1>2, DoneKeeps, SameKeeps DEF Transferring

-----------------------------------------------------------------------------
(* The elements of a command.                                              *)
LEMMA ElementNext ==
  ASSUME cmd \in CommandRecords, NEW k \in Nat
  PROVE  /\ ElementPage(k) \in Nat /\ ElementOff(k) \in Offsets
         /\ ElementPage(k + 1) = ElementPage(k) + (ElementOff(k) + cmd.size) \div PageSize
         /\ ElementOff(k + 1) = (ElementOff(k) + cmd.size) % PageSize
<1> DEFINE s == cmd.size
           n == cmd.off + k * s
<1>1. s \in AccessSizes /\ cmd.off \in Offsets /\ cmd.page \in Nat
  BY DEF CommandRecords
<1>2. s \in Nat /\ cmd.off \in Nat
  BY <1>1, PageFact DEF AccessSizes, Offsets
<1> HIDE DEF s
<1>3. k * s \in Nat /\ (k + 1) * s = k * s + s
  BY <1>2, SMT
<1>4. n \in Nat /\ cmd.off + (k + 1) * s = n + s
  BY <1>2, <1>3
<1>5. /\ ElementPage(k) = cmd.page + n \div PageSize /\ ElementOff(k) = n % PageSize
      /\ ElementPage(k + 1) = cmd.page + (n + s) \div PageSize
      /\ ElementOff(k + 1) = (n + s) % PageSize
  BY <1>4 DEF ElementPage, ElementOff, s
<1> HIDE DEF n
<1>6. n \div PageSize \in Nat /\ n % PageSize \in Offsets
  BY <1>4, OffsetType
<1>7. /\ (n + s) \div PageSize = n \div PageSize + ((n % PageSize) + s) \div PageSize
      /\ (n + s) % PageSize = ((n % PageSize) + s) % PageSize
  BY <1>2, <1>4, PagePlus
<1>8. (n % PageSize) + s \in Nat
  BY <1>2, <1>6, PageFact DEF Offsets
<1>9. ((n % PageSize) + s) \div PageSize \in Nat
  BY <1>8, OffsetType
<1> QED BY <1>1, <1>5, <1>6, <1>7, <1>9 DEF s

LEMMA ElementFirst ==
  ASSUME cmd \in CommandRecords
  PROVE  ElementPage(0) = cmd.page /\ ElementOff(0) = cmd.off
<1>1. cmd.size \in Nat /\ cmd.off \in Offsets /\ cmd.off \in Nat /\ cmd.page \in Nat
  BY PageFact DEF CommandRecords, AccessSizes, Offsets
<1>2. cmd.off + 0 * cmd.size = cmd.off
  BY <1>1
<1>3. cmd.off \div PageSize = 0 /\ cmd.off % PageSize = cmd.off
  BY <1>1, SmallOffset
<1> QED BY <1>1, <1>2, <1>3 DEF ElementPage, ElementOff

(* A byte of the guest on a page that is there is a byte of memory.        *)
LEMMA GuestByteType ==
  ASSUME TypeOK, NEW p \in Nat, NEW o \in Offsets, guest_backmap(p) # None
  PROVE  GuestByte(p, o) \in 0 .. PmemSize - 1
<1>1. xlat[p] \in 0 .. Frames - 1
  BY FrameThere
<1>2. Flip(o) \in Offsets
  BY FlipType
<1>3. xlat[p] * PageSize + o \in 0 .. PmemSize - 1 /\ xlat[p] * PageSize + Flip(o) \in 0 .. PmemSize - 1
  BY <1>1, <1>2, FrameByte
<1> QED BY <1>3 DEF GuestByte, Flip

(* Within an element, the last byte is the first in the other order.       *)
LEMMA SwapFirst ==
  ASSUME NEW s \in AccessSizes, NEW j \in 0 .. s - 1
  PROVE  /\ SwapIn(j, s) = s - 1 - j /\ s - 1 - j \in 0 .. s - 1
         /\ j % s = j
<1>1. CASE s = 1
  <2>1. j = 0 /\ 0 % 1 = 0
    BY <1>1
  <2> QED BY <1>1, <2>1 DEF SwapIn
<1>2. CASE s = 2
  BY <1>2 DEF SwapIn
<1>3. CASE s = 4
  BY <1>3 DEF SwapIn
<1> QED BY <1>1, <1>2, <1>3 DEF AccessSizes

(* What a load puts in its buffer is the element.                          *)
LEMMA LoadedCell ==
  ASSUME TypeOK, req = LoadRequest, Virtual, cmd \in CommandRecords,
         NEW k \in Nat, eaPage = ElementPage(k), eaOff = ElementOff(k),
         NEW j \in 0 .. cmd.size - 1
  PROVE  /\ Cell(j) = ElementCell(k, j)
         /\ Swapped(j) \in 0 .. cmd.size - 1
<1>1. cmd.size \in AccessSizes /\ req.size = cmd.size /\ req.page = eaPage /\ req.off = eaOff
  BY DEF CommandRecords, LoadRequest
<1>2. Swapped(j) = (IF little THEN cmd.size - 1 - j ELSE j) /\ Swapped(j) \in 0 .. cmd.size - 1
  <2>1. SwapIn(j, cmd.size) = cmd.size - 1 - j /\ cmd.size - 1 - j \in 0 .. cmd.size - 1
    BY <1>1, SwapFirst
  <2>2. Swapped(j) = IF little THEN SwapIn(j, cmd.size) ELSE j
    BY <1>1 DEF Swapped, SwapIn
  <2> QED BY <2>1, <2>2
<1> DEFINE at == Swapped(j)
<1>3. at = IF little THEN cmd.size - 1 - j ELSE j
  BY <1>2
<1>4. Cell(j) = GuestByte(eaPage + (eaOff + at) \div PageSize, (eaOff + at) % PageSize)
  BY <1>1 DEF Cell, PageOf, OffOf
<1> HIDE DEF at
<1>5. ElementCell(k, j) = GuestByte(eaPage + (eaOff + at) \div PageSize, (eaOff + at) % PageSize)
  BY <1>3 DEF ElementCell
<1> QED BY <1>2, <1>4, <1>5

LEMMA Loads ==
  ASSUME MemInv, req = LoadRequest, Virtual, cmd \in CommandRecords,
         NEW k \in Nat, eaPage = ElementPage(k), eaOff = ElementOff(k)
  PROVE  /\ pc = "ok" => /\ ElementThere(k)
                         /\ [i \in 1 .. cmd.size |-> buf[i - 1]] = Element(k)
                         /\ Element(k) \in [1 .. cmd.size -> Byte]
         /\ pc = "short" => ~ElementThere(k)
<1> DEFINE missing == {i \in 0 .. req.bytes - 1 : ~Readable(i)}
<1>1. TypeOK /\ Fits /\ ReadExact /\ FailureTold
  BY DEF MemInv
<1>2. /\ req.op = "from" /\ ~req.nul /\ req.bytes = cmd.size /\ req.size = cmd.size
      /\ req.page = eaPage /\ req.off = eaOff /\ cmd.size \in AccessSizes /\ cmd.size \in Nat /\ cmd.size > 0
  BY DEF LoadRequest, CommandRecords, AccessSizes
<1>3. PageOf(0) = eaPage
  <2>1. eaOff \in Offsets /\ eaPage \in Nat
    BY ElementNext
  <2>2. eaOff + 0 = eaOff /\ eaPage + 0 = eaPage /\ eaOff \div PageSize = 0
    BY <2>1, PageFact, SmallOffset DEF Offsets
  <2> QED BY <1>2, <2>2 DEF PageOf
<1>4. ElementThere(k) <=> Readable(0)
  BY <1>3 DEF ElementThere, Readable
<1>5. pc \in {"ok", "short"} => /\ pc = "ok" <=> missing = {}
                               /\ done = IF missing = {} THEN req.bytes ELSE Min(missing)
  BY <1>1, <1>2 DEF FailureTold
<1>6. ASSUME pc = "ok"
      PROVE  /\ ElementThere(k)
             /\ [i \in 1 .. cmd.size |-> buf[i - 1]] = Element(k)
             /\ Element(k) \in [1 .. cmd.size -> Byte]
  <2>1. done = cmd.size /\ \A i \in 0 .. cmd.size - 1 : Readable(i)
    BY <1>2, <1>5, <1>6
  <2>2. ElementThere(k)
    BY <1>2, <1>4, <2>1
  <2>3. ASSUME NEW j \in 0 .. cmd.size - 1
        PROVE  buf[j] = pmem[ElementCell(k, j)] /\ pmem[ElementCell(k, j)] \in Byte
    <3>1. Cell(j) = ElementCell(k, j) /\ Swapped(j) \in 0 .. cmd.size - 1
      BY <1>1, LoadedCell
    <3>2. PageOf(Swapped(j)) \in Nat /\ OffOf(Swapped(j)) \in Offsets
      BY <1>1, <3>1, Position
    <3>3. guest_backmap(PageOf(Swapped(j))) # None
      BY <2>1, <3>1 DEF Readable
    <3>4. Cell(j) \in 0 .. PmemSize - 1
      BY <1>1, <3>2, <3>3, GuestByteType DEF Cell
    <3>5. pmem[Cell(j)] \in Byte
      BY <1>1, <3>4 DEF TypeOK
    <3>6. buf[j] = pmem[Cell(j)]
      BY <1>1, <1>2, <2>1 DEF ReadExact
    <3> QED BY <3>1, <3>5, <3>6
  <2>4. ASSUME NEW i \in 1 .. cmd.size
        PROVE  buf[i - 1] = pmem[ElementCell(k, i - 1)] /\ pmem[ElementCell(k, i - 1)] \in Byte
    <3>1. i - 1 \in 0 .. cmd.size - 1
      BY <1>2
    <3> QED BY <2>3, <3>1
  <2> QED BY <2>2, <2>4 DEF Element
<1>7. ASSUME pc = "short" PROVE ~ElementThere(k)
  <2>1. missing # {} /\ done = Min(missing)
    BY <1>5, <1>7
  <2>2. missing \subseteq Nat /\ missing \subseteq 0 .. cmd.size - 1
    BY <1>2
  <2>3. done \in missing
    <3> HIDE DEF missing
    <3> QED BY <2>1, <2>2, MinMember
  <2>4. done % cmd.size = 0 /\ done \in 0 .. cmd.size - 1 /\ ~Readable(done)
    BY <1>1, <1>2, <2>3 DEF Fits
  <2>5. done % cmd.size = done
    BY <1>2, <2>4, SwapFirst
  <2> QED BY <1>4, <2>4, <2>5
<1> QED BY <1>6, <1>7

(* The elements of an aligned command lie at multiples of their size.      *)
LEMMA ElementWhole ==
  ASSUME cmd \in CommandRecords, cmd.off % cmd.size = 0, NEW k \in Nat
  PROVE  ElementOff(k) % cmd.size = 0
<1> DEFINE s == cmd.size
           n == cmd.off + k * s
<1>1. s \in AccessSizes /\ cmd.off \in Nat /\ s \in Nat /\ cmd.off % s = 0
  BY PageFact DEF CommandRecords, AccessSizes, Offsets
<1>2. n \in Nat /\ n % s = 0
  <2>1. k * s \in Nat /\ (k * s) % s = 0
    <3>1. CASE s = 1
      BY <3>1
    <3>2. CASE s = 2
      BY <3>2
    <3>3. CASE s = 4
      BY <3>3
    <3> HIDE DEF s
    <3> QED BY <1>1, <3>1, <3>2, <3>3 DEF AccessSizes
  <2> DEFINE ks == k * s
             c == cmd.off
  <2> HIDE DEF s, ks, c
  <2>2. ks \in Nat /\ ks % s = 0 /\ c \in Nat /\ c % s = 0
    BY <1>1, <2>1 DEF ks, c
  <2>3. (c + ks) % s = ks % s
    BY <1>1, <2>2, Multiples
  <2>4. c + ks \in Nat
    BY <2>2
  <2> QED BY <2>2, <2>3, <2>4 DEF ks, c
<1>3. ElementOff(k) = n % PageSize
  BY DEF ElementOff
<1> HIDE DEF n, s
<1> DEFINE q == n \div PageSize
           o == n % PageSize
<1>4. q \in Nat /\ o \in Offsets /\ n = PageSize * q + o
  BY <1>2, OffsetType
<1>5. o \in Nat /\ s \in {1, 2, 4, 8}
  BY <1>1, <1>4, PageFact DEF Offsets, AccessSizes
<1>6. ElementOff(k) = o
  BY <1>3
<1> HIDE DEF q, o
<1>7. (PageSize * q + o) % s = o % s
  BY <1>4, <1>5, PageMultiple
<1> QED BY <1>2, <1>4, <1>6, <1>7 DEF s

(* What is cut at the end of memory.                                       *)
LEMMA CutFact ==
  ASSUME cmd \in CommandRecords, eaPage \in Nat, eaOff \in Offsets
  PROVE  /\ Cut \subseteq 0 .. cmd.size - 1 /\ IsFiniteSet(Cut)
         /\ Cardinality(Cut) \in 0 .. cmd.size
         /\ Cardinality(Cut) = 0 <=> Cut = {}
         /\ Cardinality(Cut) = cmd.size <=> Cut = 0 .. cmd.size - 1
         /\ Cut = {} <=> eaPage >= Frames
<1>1. cmd.size \in Nat /\ cmd.size > 0
  BY DEF CommandRecords, AccessSizes
<1> DEFINE all == 0 .. cmd.size - 1
<1>2. IsFiniteSet(all) /\ Cardinality(all) = cmd.size
  <2>1. IsFiniteSet(0 .. cmd.size - 1)
    BY <1>1, FS_Interval
  <2>2. Cardinality(0 .. cmd.size - 1) = IF 0 > cmd.size - 1 THEN 0 ELSE cmd.size - 1 - 0 + 1
    BY <1>1, FS_Interval, SMTT(60)
  <2> QED BY <1>1, <2>1, <2>2
<1>3. Cut \subseteq all
  BY DEF Cut
<1> HIDE DEF all
<1>4. IsFiniteSet(Cut) /\ Cardinality(Cut) <= cmd.size
      /\ (Cardinality(Cut) = cmd.size => Cut = all)
  BY <1>2, <1>3, FS_Subset
<1>5. Cardinality(Cut) \in Nat /\ (Cardinality(Cut) = 0 <=> Cut = {})
  BY <1>4, FS_CardinalityType, FS_EmptySet
<1>6. Cut = {} <=> eaPage >= Frames
  <2>1. eaOff \in Nat /\ eaOff < PageSize /\ PageSize \in Nat /\ Frames \in Nat
    BY PageFact, MemAssumption DEF Offsets
  <2>2. CASE eaPage >= Frames
    <3>1. eaPage * PageSize >= Frames * PageSize /\ eaPage * PageSize \in Nat /\ Frames * PageSize \in Nat
      BY <2>1, <2>2, SMT
    <3> QED BY <1>1, <2>1, <2>2, <3>1 DEF Cut, PmemSize
  <2>3. CASE eaPage < Frames
    <3>1. eaPage \in 0 .. Frames - 1
      BY <2>1, <2>3
    <3>2. eaPage * PageSize + eaOff \in 0 .. PmemSize - 1
      BY <3>1, FrameByte
    <3>3. PmemSize \in Nat /\ eaPage * PageSize \in Nat
      BY <2>1, SMT DEF PmemSize
    <3>4. eaPage * PageSize + eaOff + 0 < PmemSize
      BY <2>1, <3>2, <3>3
    <3>5. 0 \in Cut
      BY <1>1, <3>4 DEF Cut
    <3> QED BY <2>1, <2>3, <3>5
  <2> QED BY <2>1, <2>2, <2>3
<1> QED BY <1>1, <1>2, <1>3, <1>4, <1>5, <1>6 DEF all

LEMMA LoadsPhysical ==
  ASSUME TypeOK, ~Virtual, cmd \in CommandRecords, little => cmd.off % cmd.size = 0,
         NEW k \in Nat, eaPage = ElementPage(k), eaOff = ElementOff(k)
  PROVE  /\ Cut = {} => ~ElementThere(k)
         /\ Cardinality(Cut) % cmd.size # 0 => cmd.off % cmd.size # 0
         /\ (Cut # {} /\ Cardinality(Cut) % cmd.size = 0) =>
              /\ Cardinality(Cut) = cmd.size
              /\ ElementThere(k)
              /\ Element(k) \in [1 .. cmd.size -> Byte]
              /\ [i \in 1 .. cmd.size |->
                    pmem[eaPage * PageSize + Where(eaOff + i - 1, cmd.size)]] = Element(k)
<1> DEFINE s == cmd.size
           base == eaPage * PageSize
<1>1. /\ s \in AccessSizes /\ s \in Nat /\ s > 0 /\ eaPage \in Nat /\ eaOff \in Offsets
      /\ eaOff \in Nat /\ eaOff < PageSize /\ PageSize \in Nat /\ Frames \in Nat
  <2>1. eaPage \in Nat /\ eaOff \in Offsets
    BY ElementNext
  <2> QED BY <2>1, PageFact, MemAssumption DEF Offsets, CommandRecords, AccessSizes
<1>2. base \in Nat /\ PmemSize \in Nat
  BY <1>1, SMT DEF PmemSize
<1>3. ElementThere(k) <=> eaPage < Frames
  BY DEF ElementThere
<1>4. /\ Cut \subseteq 0 .. s - 1 /\ Cardinality(Cut) \in 0 .. s
      /\ Cardinality(Cut) = 0 <=> Cut = {}
      /\ Cardinality(Cut) = s <=> Cut = 0 .. s - 1
      /\ Cut = {} <=> eaPage >= Frames
  BY <1>1, CutFact
<1> HIDE DEF s, base
<1>5. ASSUME cmd.off % s = 0, eaPage < Frames
      PROVE  eaOff % s = 0 /\ eaOff + s <= PageSize
  <2>1. eaOff % s = 0
    BY <1>5, ElementWhole DEF s
  <2>2. PageSize % s = 0
    BY <1>1, PageWhole
  <2>3. (PageSize - eaOff) % s = 0 /\ PageSize - eaOff \in Nat /\ PageSize - eaOff > 0
    <3>1. eaOff <= PageSize /\ PageSize - eaOff \in Nat /\ PageSize - eaOff > 0
      BY <1>1
    <3>2. (PageSize - eaOff) % s = 0
      BY <1>1, <2>1, <2>2, <3>1, Multiples
    <3> QED BY <3>1, <3>2
  <2>4. PageSize - eaOff >= s
    <3> DEFINE d == PageSize - eaOff
    <3> HIDE DEF d
    <3>1. d \in Nat /\ d > 0 /\ d % s = 0
      BY <2>3 DEF d
    <3>2. d >= s
      BY <1>1, <3>1, SwapFirst
    <3> QED BY <3>2 DEF d
  <2> QED BY <1>1, <2>1, <2>4
<1>6. ASSUME Cardinality(Cut) % s # 0 PROVE cmd.off % s # 0
  <2>1. SUFFICES ASSUME cmd.off % s = 0 PROVE FALSE
    OBVIOUS
  <2>2. Cut # {} /\ eaPage < Frames
    <3>1. 0 % s = 0
      BY <1>1, SwapFirst
    <3> QED BY <1>1, <1>4, <1>6, <3>1
  <2>3. eaOff + s <= PageSize
    BY <1>5, <2>1, <2>2
  <2>4. base + PageSize <= PmemSize
    <3>1. (eaPage + 1) * PageSize <= Frames * PageSize
      BY <1>1, <2>2, SMT
    <3>2. (eaPage + 1) * PageSize = eaPage * PageSize + PageSize
      BY <1>1, SMT
    <3> QED BY <3>1, <3>2 DEF base, PmemSize
  <2>5. \A i \in 0 .. s - 1 : base + eaOff + i < PmemSize
    BY <1>1, <1>2, <2>3, <2>4
  <2>6. Cut = 0 .. s - 1
    BY <2>5 DEF Cut, base, s
  <2>7. s % s = 0
    BY <1>1 DEF AccessSizes
  <2> QED BY <1>4, <1>6, <2>6, <2>7
<1>7. ASSUME Cut # {}, Cardinality(Cut) % s = 0
      PROVE  /\ Cardinality(Cut) = s
             /\ ElementThere(k)
             /\ \A j \in 0 .. s - 1 :
                  /\ base + Where(eaOff + j, s) = ElementCell(k, j)
                  /\ ElementCell(k, j) \in 0 .. PmemSize - 1
  <2>1. Cardinality(Cut) = s
    <3>1. SUFFICES ASSUME Cardinality(Cut) # s PROVE FALSE
      OBVIOUS
    <3>2. Cardinality(Cut) \in 0 .. s - 1
      BY <1>1, <1>4, <3>1
    <3>3. Cardinality(Cut) % s = Cardinality(Cut)
      BY <1>1, <3>2, SwapFirst
    <3> QED BY <1>4, <1>7, <3>3
  <2>2. eaPage < Frames /\ eaPage \in 0 .. Frames - 1
    <3>1. Cut # {}
      BY <1>7
    <3>2. ~(eaPage >= Frames)
      BY <1>4, <3>1
    <3> QED BY <1>1, <3>2
  <2>3. \A j \in 0 .. s - 1 : base + eaOff + j < PmemSize
    BY <1>4, <2>1 DEF Cut, base, s
  <2>4. ASSUME NEW j \in 0 .. s - 1
        PROVE  /\ base + Where(eaOff + j, s) = ElementCell(k, j)
               /\ ElementCell(k, j) \in 0 .. PmemSize - 1
    <3>1. CASE little
      <4>1. eaOff % s = 0 /\ eaOff + s <= PageSize
        BY <1>5, <2>2, <3>1 DEF s
      <4> DEFINE o == eaOff + (s - 1 - j)
      <4>2. /\ SwapIn(j, s) = s - 1 - j /\ s - 1 - j \in 0 .. s - 1 /\ o \in Offsets
            /\ j \in Nat /\ eaOff + j \in Nat /\ (eaOff + j) % s = j % s
        <5>1. SwapIn(j, s) = s - 1 - j /\ s - 1 - j \in 0 .. s - 1
          BY <1>1, SwapFirst
        <5>2. j \in Nat /\ eaOff + j \in Nat
          BY <1>1
        <5>3. o \in Offsets
          BY <1>1, <4>1, <5>1 DEF Offsets
        <5>4. (eaOff + j) % s = j % s
          BY <1>1, <4>1, <5>2, Multiples
        <5> QED BY <5>1, <5>2, <5>3, <5>4
      <4>3. o = (eaOff + j) + (SwapIn(j, s) - j)
        BY <1>1, <4>2
      <4> HIDE DEF o
      <4>4. Flip(o) = Where(eaOff + j, s)
        <5>1. Flip((eaOff + j) + (SwapIn(j, s) - j))
                = ((eaOff + j) - ((eaOff + j) % 8)) + 8 - s - ((eaOff + j) % 8) + 2 * ((eaOff + j) % s)
          BY <1>1, <4>2, MungeSwap, ZenonT(60)
        <5> QED BY <3>1, <4>3, <5>1 DEF Where
      <4>5. o \div PageSize = 0 /\ o % PageSize = o
        BY <4>2, SmallOffset
      <4>6. ElementCell(k, j) = base + Flip(o)
        <5>1. ElementCell(k, j) = (eaPage + o \div PageSize) * PageSize + Flip(o % PageSize)
          BY <3>1 DEF ElementCell, Flip, o, s
        <5>2. eaPage + 0 = eaPage
          BY <1>1
        <5> QED BY <4>5, <5>1, <5>2 DEF base
      <4>7. Flip(o) \in Offsets
        BY <4>2, FlipType
      <4>8. base + Flip(o) \in 0 .. PmemSize - 1
        BY <2>2, <4>7, FrameByte DEF base
      <4> QED BY <4>4, <4>6, <4>8
    <3>2. CASE ~little
      <4> DEFINE n == eaOff + j
                 q == n \div PageSize
                 r == n % PageSize
      <4>1. n \in Nat /\ j \in Nat
        BY <1>1
      <4>2. q \in Nat /\ r \in Offsets /\ n = PageSize * q + r
        BY <4>1, OffsetType
      <4>3. ElementCell(k, j) = (eaPage + q) * PageSize + r
        BY <3>2 DEF ElementCell
      <4> HIDE DEF n, q, r
      <4>4. r \in Nat
        BY <4>2, PageFact DEF Offsets
      <4>5. (eaPage + q) * PageSize + r = base + n
        BY <1>1, <4>2, <4>4, SMT DEF base
      <4>6. base + n \in 0 .. PmemSize - 1
        BY <1>1, <1>2, <2>3, <4>1 DEF n
      <4>7. Where(eaOff + j, s) = n
        BY <3>2 DEF Where, n
      <4> QED BY <4>3, <4>5, <4>6, <4>7
    <3> QED BY <3>1, <3>2
  <2> QED BY <1>3, <2>1, <2>2, <2>4
<1>8. ASSUME Cut # {}, Cardinality(Cut) % s = 0
      PROVE  /\ Element(k) \in [1 .. s -> Byte]
             /\ [i \in 1 .. s |-> pmem[base + Where(eaOff + i - 1, s)]] = Element(k)
  <2>1. ASSUME NEW i \in 1 .. s
        PROVE  /\ pmem[base + Where(eaOff + i - 1, s)] = pmem[ElementCell(k, i - 1)]
               /\ pmem[ElementCell(k, i - 1)] \in Byte
    <3>1. i - 1 \in 0 .. s - 1 /\ eaOff + i - 1 = eaOff + (i - 1)
      BY <1>1
    <3>2. /\ base + Where(eaOff + (i - 1), s) = ElementCell(k, i - 1)
          /\ ElementCell(k, i - 1) \in 0 .. PmemSize - 1
      BY <1>7, <1>8, <3>1
    <3> QED BY <3>1, <3>2 DEF TypeOK
  <2> QED BY <2>1 DEF Element, s
<1>9. Cut = {} => ~ElementThere(k)
  BY <1>1, <1>3, <1>4
<1>10. Cardinality(Cut) % cmd.size # 0 => cmd.off % cmd.size # 0
  BY <1>6 DEF s
<1>11. ASSUME Cut # {}, Cardinality(Cut) % cmd.size = 0
       PROVE  /\ Cardinality(Cut) = cmd.size
              /\ ElementThere(k)
              /\ Element(k) \in [1 .. cmd.size -> Byte]
              /\ [i \in 1 .. cmd.size |->
                    pmem[eaPage * PageSize + Where(eaOff + i - 1, cmd.size)]] = Element(k)
  BY <1>7, <1>8, <1>11 DEF s, base
<1> QED BY <1>9, <1>10, <1>11

-----------------------------------------------------------------------------
(* The steps of the commands.                                              *)
LEMMA ElementsSame ==
  ASSUME UNCHANGED <<cmd, little, xlat, pmem>>
  PROVE  /\ \A k : Element(k)' = Element(k) /\ ElementThere(k)' = ElementThere(k)
         /\ \A k : ElementPage(k)' = ElementPage(k) /\ ElementOff(k)' = ElementOff(k)
         /\ \A a : pmem'[Munged(a)'] = pmem[Munged(a)]
         /\ Elements' = Elements
<1>1. \A k, j : ElementCell(k, j)' = ElementCell(k, j)
  BY DEF ElementCell, ElementPage, ElementOff, Virtual, GuestByte
<1>2. \A k : Element(k)' = Element(k)
  BY <1>1 DEF Element
<1> QED BY <1>2 DEF ElementThere, ElementPage, ElementOff, Virtual, guest_backmap,
                    Munged, Elements, PmemSize

LEMMA NextSame ==
  ASSUME UNCHANGED <<cmd, little, xlat, pmem, out>>
  PROVE  /\ Element(Len(out))' = Element(Len(out))
         /\ ElementThere(Len(out))' = ElementThere(Len(out))
<1>1. \A j : ElementCell(Len(out), j)' = ElementCell(Len(out), j)
  BY DEF ElementCell, ElementPage, ElementOff, Virtual, GuestByte
<1>2. Element(Len(out))' = Element(Len(out))
  BY <1>1 DEF Element
<1> QED BY <1>2 DEF ElementThere, ElementPage, Virtual, guest_backmap

(* A command that ends.                                                    *)
LEMMA EndsKeeps ==
  ASSUME CmdInv, running, TypeOK', UNCHANGED <<little, xlat, pmem>>, pc' = "idle",
         NEW r \in {"ok", "error", "stopped"}, Ends(r),
         r = "ok" => IF cmd.name = "memreadstring"
                       THEN ElementThere(Len(out)) /\ Element(Len(out)) = << 0 >>
                       ELSE Len(out) = cmd.count,
         r = "error" => ~ElementThere(Len(out)) \/ TooLong,
         r = "stopped" => cmd.off % cmd.size # 0
  PROVE  CmdInv'
<1>1. UNCHANGED <<cmd, left, eaPage, eaOff, out>> /\ running' = FALSE /\ result' = r
  BY DEF Ends
<1>2. Asked /\ Asked'
  BY <1>1 DEF Asked
<1>3. /\ \A k : Element(k)' = Element(k) /\ ElementThere(k)' = ElementThere(k)
      /\ \A k : ElementPage(k)' = ElementPage(k) /\ ElementOff(k)' = ElementOff(k)
      /\ \A a : pmem'[Munged(a)'] = pmem[Munged(a)]
      /\ Elements' = Elements
  BY <1>1, ElementsSame
<1>4. CmdTypeOK'
  BY <1>1 DEF CmdInv, CmdTypeOK, PmemSize
<1>5. (out \in Seq(Elements))'
  BY <1>1, <1>3 DEF CmdInv
<1>6. Loading'
  BY <1>1 DEF Loading
<1>7. Following'
  BY <1>1, <1>2, <1>3 DEF CmdInv, Following, CommandRecords
<1>8. ShowsMemory'
  <2>1. \A k \in 0 .. Len(out) - 1 : ElementThere(k) /\ Shown(k) = Element(k)
    BY DEF CmdInv, ShowsMemory
  <2>2. \A k \in 0 .. Len(out') - 1 : ElementThere(k)' /\ Shown(k)' = Element(k)'
    BY <1>1, <1>3, <2>1 DEF Shown
  <2>3. cmd.name = "memreadstring" => \A k \in 1 .. Len(out) : out[k] # <<0>>
    BY <1>2 DEF CmdInv, Following
  <2>4. r = "ok" => IF cmd'.name = "memreadstring"
                      THEN /\ \A k \in 1 .. Len(out') : out'[k] # <<0>>
                           /\ ElementThere(Len(out))' /\ Element(Len(out))' = <<0>>
                      ELSE Len(out') = cmd'.count
    BY <1>1, <2>3, NextSame
  <2>5. r = "error" => ~ElementThere(Len(out))' \/ TooLong'
    BY <1>1, NextSame DEF TooLong
  <2> QED BY <1>1, <1>3, <2>2, <2>4, <2>5 DEF ShowsMemory
<1> QED BY <1>4, <1>5, <1>6, <1>7, <1>8 DEF CmdInv

(* A command that goes on to its next element.                             *)
LEMMA AppendKeeps ==
  ASSUME CmdInv, running, TypeOK', UNCHANGED <<little, xlat, pmem>>, pc' = "idle",
         More, cmd.name # "gra", ElementThere(Len(out)),
         NEW v \in [1 .. cmd.size -> Byte], v = Element(Len(out)),
         ~(cmd.name = "memreadstring" /\ v = << 0 >>),
         UNCHANGED <<cmd, running, result>>,
         out' = Append(out, v),
         left' = (IF cmd.name = "memreadstring" THEN left ELSE left - 1),
         Advance
  PROVE  CmdInv'
<1>1. Asked /\ Asked'
  BY DEF Asked
<1>2. /\ \A k : Element(k)' = Element(k) /\ ElementThere(k)' = ElementThere(k)
      /\ \A k : ElementPage(k)' = ElementPage(k) /\ ElementOff(k)' = ElementOff(k)
      /\ \A a : pmem'[Munged(a)'] = pmem[Munged(a)]
      /\ Elements' = Elements
  BY ElementsSame
<1>3. /\ cmd \in CommandRecords /\ out \in Seq(Elements) /\ left \in Nat /\ result = "none"
      /\ eaPage = ElementPage(Len(out)) /\ eaOff = ElementOff(Len(out))
      /\ cmd.name \in {"dump", "memread"} => Len(out) + left = cmd.count
      /\ cmd.name = "memreadstring" => \A k \in 1 .. Len(out) : out[k] # <<0>>
      /\ little => cmd.off % cmd.size = 0
  BY <1>1 DEF CmdInv, Following, CmdTypeOK, Loading
<1>4. Elements = [1 .. cmd.size -> Byte] /\ v \in Elements
  BY DEF Elements
<1>5. /\ Len(out) \in Nat /\ out' \in Seq(Elements) /\ Len(out') = Len(out) + 1
      /\ \A k \in 1 .. Len(out) : out'[k] = out[k] /\ out[k] \in Elements
      /\ out'[Len(out) + 1] = v
  <2>1. out \in Seq(Elements) /\ v \in Elements
    BY <1>3, <1>4
  <2> HIDE DEF Elements
  <2> QED BY <2>1
<1>6. \A k \in 1 .. Len(out') : out'[k] \in Elements
  BY <1>4, <1>5
<1>7. cmd.name # "memreadstring" => left > 0
  BY DEF More
<1>8. eaPage' = ElementPage(Len(out) + 1) /\ eaOff' = ElementOff(Len(out) + 1)
      /\ eaPage' \in Nat /\ eaOff' \in Offsets
  <2>1. eaPage' = eaPage + (eaOff + cmd.size) \div PageSize /\ eaOff' = (eaOff + cmd.size) % PageSize
    BY DEF Advance
  <2>2. eaPage' = ElementPage(Len(out) + 1) /\ eaOff' = ElementOff(Len(out) + 1)
    BY <1>3, <1>5, <2>1, ElementNext
  <2>3. Len(out) + 1 \in Nat
    BY <1>5
  <2> QED BY <1>3, <2>2, <2>3, ElementNext
<1>9. CmdTypeOK'
  <2>1. left' \in Nat
    BY <1>3, <1>7
  <2>2. running' \in BOOLEAN /\ result' \in {"none", "ok", "error", "stopped"}
    BY <1>3 DEF CmdInv, CmdTypeOK
  <2>3. \A k \in 1 .. Len(out') :
          out'[k] \in [1 .. cmd'.size -> IF cmd'.name = "gra" THEN 0 .. PmemSize' - 1 ELSE Byte]
    BY <1>4, <1>6
  <2> QED BY <1>8, <2>1, <2>2, <2>3 DEF CmdTypeOK
<1>10. (out \in Seq(Elements))'
  BY <1>2, <1>5
<1>11. Loading'
  BY <1>3 DEF Loading
<1>12. Following'
  <2>1. cmd.name \in {"dump", "memread"} => Len(out') + left' = cmd.count
    BY <1>3, <1>5, <1>7, SMTT(60)
  <2>2. cmd.name = "memreadstring" => \A k \in 1 .. Len(out') : out'[k] # <<0>>
    BY <1>3, <1>5
  <2>3. (eaPage = ElementPage(Len(out)))' /\ (eaOff = ElementOff(Len(out)))'
    BY <1>5, <1>8 DEF ElementPage, ElementOff
  <2>4. cmd' \in CommandRecords'
    BY <1>3 DEF CommandRecords
  <2> QED BY <1>1, <1>3, <2>1, <2>2, <2>3, <2>4 DEF Following
<1>13. ShowsMemory'
  <2>1. \A k \in 0 .. Len(out) - 1 : ElementThere(k) /\ out[k + 1] = Element(k)
    BY <1>1 DEF CmdInv, ShowsMemory, Shown, Asked
  <2>2. ASSUME NEW k \in 0 .. Len(out') - 1
        PROVE  ElementThere(k) /\ out'[k + 1] = Element(k)
    <3>1. CASE k < Len(out)
      <4>1. k \in 0 .. Len(out) - 1 /\ k + 1 \in 1 .. Len(out)
        BY <1>5, <3>1
      <4> QED BY <1>5, <2>1, <4>1
    <3>2. CASE k >= Len(out)
      <4>1. k = Len(out)
        BY <1>5, <3>2
      <4> QED BY <1>5, <4>1
    <3> QED BY <1>5, <3>1, <3>2
  <2>3. \A k \in 0 .. Len(out') - 1 : ElementThere(k)' /\ Shown(k)' = Element(k)'
    BY <1>2, <2>2 DEF Shown
  <2>4. result' = "none"
    BY <1>3
  <2> QED BY <2>3, <2>4 DEF ShowsMemory
<1> QED BY <1>9, <1>10, <1>11, <1>12, <1>13 DEF CmdInv

(* The value that was read.                                                *)
LEMMA ValueKeeps ==
  ASSUME CmdInv, running, TypeOK', UNCHANGED <<little, xlat, pmem>>, pc' = "idle",
         More, cmd.name # "gra", ElementThere(Len(out)),
         NEW v, v \in [1 .. cmd.size -> Byte], v = Element(Len(out)), Value(v)
  PROVE  CmdInv'
<1>1. CASE TooLong
  BY <1>1, EndsKeeps DEF Value
<1>2. CASE ~TooLong /\ cmd.name = "memreadstring" /\ v = <<0>>
  BY <1>2, EndsKeeps DEF Value
<1>3. CASE ~TooLong /\ ~(cmd.name = "memreadstring" /\ v = <<0>>)
  BY <1>3, AppendKeeps DEF Value
<1> QED BY <1>1, <1>2, <1>3

(* A step of the transfer under a command, or none.                        *)
LEMMA UnderKeeps ==
  ASSUME CmdInv, TypeOK', UNCHANGED cmdVars, UNCHANGED <<little, xlat>>,
         Asked => pmem' = pmem, Loading'
  PROVE  CmdInv'
<1>1. UNCHANGED <<cmd, running, left, eaPage, eaOff, out, result>> /\ Asked' = Asked
  BY DEF cmdVars, Asked
<1>2. CmdTypeOK'
  BY <1>1 DEF CmdInv, CmdTypeOK, PmemSize
<1>3. (out \in Seq(Elements))'
  BY <1>1 DEF CmdInv, Elements, PmemSize
<1>4. Following'
  BY <1>1 DEF CmdInv, Following, CommandRecords, ElementPage, ElementOff
<1>5. ShowsMemory'
  <2>1. SUFFICES ASSUME Asked PROVE ShowsMemory'
    BY <1>1 DEF ShowsMemory, Asked
  <2>2. pmem' = pmem
    BY <2>1
  <2>3. /\ \A k : Element(k)' = Element(k) /\ ElementThere(k)' = ElementThere(k)
        /\ \A a : pmem'[Munged(a)'] = pmem[Munged(a)]
    BY <1>1, <2>2, ElementsSame
  <2>4. /\ Element(Len(out))' = Element(Len(out))
        /\ ElementThere(Len(out))' = ElementThere(Len(out))
    BY <1>1, <2>2, NextSame
  <2>5. \A k \in 0 .. Len(out) - 1 : ElementThere(k) /\ Shown(k) = Element(k)
    BY <2>1 DEF CmdInv, ShowsMemory, Asked
  <2>6. \A k \in 0 .. Len(out') - 1 : ElementThere(k)' /\ Shown(k)' = Element(k)'
    BY <1>1, <2>3, <2>5 DEF Shown
  <2>7. result = "ok" =>
          IF cmd.name = "memreadstring"
            THEN /\ \A k \in 1 .. Len(out) : out[k] # <<0>>
                 /\ ElementThere(Len(out)) /\ Element(Len(out)) = <<0>>
            ELSE Len(out) = cmd.count
    BY <2>1 DEF CmdInv, ShowsMemory, Asked
  <2>8. /\ result = "error" => ~ElementThere(Len(out)) \/ TooLong
        /\ result = "stopped" => cmd.off % cmd.size # 0
    BY <2>1 DEF CmdInv, ShowsMemory, Asked
  <2>9. TooLong' = TooLong
    BY <1>1 DEF TooLong
  <2> QED BY <1>1, <2>4, <2>6, <2>7, <2>8, <2>9 DEF ShowsMemory
<1> QED BY <1>2, <1>3, <1>4, <1>5 DEF CmdInv

LEMMA PassFrame ==
  ASSUME Pass
  PROVE  /\ pc = "busy" /\ pc' # "idle" /\ UNCHANGED <<little, xlat, was, req>>
         /\ req.op # "to" => pmem' = pmem
<1>1. CASE Fails \/ Stops
  BY <1>1 DEF Fails, Stops
<1>2. CASE pmem_to \/ pmem_from
  BY <1>2 DEF pmem_to, pmem_from, Moves
<1>3. CASE FromString
  BY <1>3 DEF FromString, Moves
<1>4. CASE FromStringBig
  BY <1>4 DEF FromStringBig, Moves
<1> QED BY <1>1, <1>2, <1>3, <1>4 DEF Pass

LEMMA PassUnder ==
  ASSUME CmdInv, TypeOK', Pass, UNCHANGED cmdVars
  PROVE  CmdInv'
<1>1. /\ pc = "busy" /\ pc' # "idle" /\ UNCHANGED <<little, xlat, was, req>>
      /\ req.op # "to" => pmem' = pmem
  BY PassFrame
<1>2. Asked => running /\ Virtual /\ cmd.name # "gra" /\ More /\ req = LoadRequest
  BY <1>1 DEF CmdInv, Loading, Asked
<1>3. Asked => pmem' = pmem
  BY <1>1, <1>2 DEF LoadRequest
<1>4. UNCHANGED <<cmd, running, left, eaPage, eaOff, out, result>>
  BY DEF cmdVars
<1>5. Loading'
  <2>1. running' => Virtual' /\ cmd'.name # "gra" /\ More' /\ req' = LoadRequest'
    BY <1>1, <1>2, <1>4 DEF Virtual, More, LoadRequest, Asked
  <2>2. ~(~running /\ result # "none")
    BY <1>2 DEF Asked
  <2> QED BY <1>4, <2>1, <2>2 DEF CmdInv, Loading
<1> QED BY <1>1, <1>3, <1>5, UnderKeeps

LEMMA LoadKeeps ==
  ASSUME CmdInv, TypeOK', Load
  PROVE  CmdInv'
<1>1. /\ running /\ More /\ Virtual /\ cmd.name # "gra" /\ req' = LoadRequest
      /\ UNCHANGED <<little, xlat, pmem>> /\ UNCHANGED cmdVars
  BY DEF Load, Begin, LoadRequest
<1>2. Loading'
  BY <1>1 DEF CmdInv, Loading, cmdVars, Virtual, More, LoadRequest
<1> QED BY <1>1, <1>2, UnderKeeps

LEMMA RunningFact ==
  ASSUME CmdInv, running
  PROVE  /\ cmd \in CommandRecords /\ out \in Seq(Elements) /\ Len(out) \in Nat
         /\ little => cmd.off % cmd.size = 0
         /\ cmd.name = "gra" => eaPage = cmd.page /\ eaOff = cmd.off /\ Len(out) = 1 - left
         /\ cmd.name # "gra" => eaPage = ElementPage(Len(out)) /\ eaOff = ElementOff(Len(out))
         /\ cmd.name \in {"dump", "memread"} => Len(out) + left = cmd.count
         /\ result = "none" /\ left \in Nat
         /\ pc # "idle" => Virtual /\ cmd.name # "gra" /\ More /\ req = LoadRequest
<1>1. Asked
  BY DEF Asked
<1>2. out \in Seq(Elements)
  BY DEF CmdInv
<1>3. Len(out) \in Nat
  <2> HIDE DEF Elements
  <2> QED BY <1>2
<1> QED BY <1>1, <1>2, <1>3 DEF CmdInv, Following, Loading, CmdTypeOK

LEMMA LoadedKeeps ==
  ASSUME MemInv, CmdInv, TypeOK', Loaded
  PROVE  CmdInv'
<1>1. /\ running /\ Virtual /\ pc \in {"ok", "short"} /\ pc' = "idle"
      /\ UNCHANGED <<little, xlat, pmem>>
      /\ IF pc = "ok" THEN Value([i \in 1 .. cmd.size |-> buf[i - 1]]) ELSE Ends("error")
  BY DEF Loaded, Done
<1>2. /\ cmd \in CommandRecords /\ Len(out) \in Nat /\ cmd.name # "gra" /\ More /\ req = LoadRequest
      /\ eaPage = ElementPage(Len(out)) /\ eaOff = ElementOff(Len(out))
  BY <1>1, RunningFact
<1>3. /\ pc = "ok" => /\ ElementThere(Len(out))
                     /\ [i \in 1 .. cmd.size |-> buf[i - 1]] = Element(Len(out))
                     /\ Element(Len(out)) \in [1 .. cmd.size -> Byte]
      /\ pc = "short" => ~ElementThere(Len(out))
  BY <1>1, <1>2, Loads
<1>4. CASE pc = "short"
  BY <1>1, <1>3, <1>4, EndsKeeps
<1>5. CASE pc = "ok"
  BY <1>1, <1>2, <1>3, <1>5, ValueKeeps
<1> QED BY <1>1, <1>4, <1>5

LEMMA LoadPhysicalKeeps ==
  ASSUME MemInv, CmdInv, TypeOK', LoadPhysical
  PROVE  CmdInv'
<1> DEFINE v == [i \in 1 .. cmd.size |->
                  pmem[eaPage * PageSize + Where(eaOff + i - 1, cmd.size)]]
<1>1. /\ running /\ More /\ ~Virtual /\ pc' = "idle"
      /\ UNCHANGED <<little, xlat, pmem>>
      /\ IF Cut = {} THEN Ends("error")
         ELSE IF Cardinality(Cut) % cmd.size # 0 THEN Ends("stopped")
         ELSE IF Cardinality(Cut) < cmd.size THEN Ends("error")
         ELSE Value(v)
  BY DEF LoadPhysical, vars
<1>2. /\ cmd \in CommandRecords /\ Len(out) \in Nat /\ cmd.name # "gra"
      /\ little => cmd.off % cmd.size = 0
      /\ eaPage = ElementPage(Len(out)) /\ eaOff = ElementOff(Len(out))
      /\ cmd.size \in Nat
  BY <1>1, RunningFact DEF Virtual, CommandRecords, AccessSizes
<1>3. /\ Cut = {} => ~ElementThere(Len(out))
      /\ Cardinality(Cut) % cmd.size # 0 => cmd.off % cmd.size # 0
      /\ (Cut # {} /\ Cardinality(Cut) % cmd.size = 0) =>
           /\ Cardinality(Cut) = cmd.size
           /\ ElementThere(Len(out))
           /\ Element(Len(out)) \in [1 .. cmd.size -> Byte]
           /\ v = Element(Len(out))
  BY <1>1, <1>2, LoadsPhysical DEF MemInv
<1> HIDE DEF v
<1>4. CASE Cut = {}
  <2>1. Ends("error")
    BY <1>1, <1>4
  <2> QED BY <1>1, <1>3, <1>4, <2>1, EndsKeeps
<1>5. CASE Cut # {} /\ Cardinality(Cut) % cmd.size # 0
  <2>1. Ends("stopped")
    BY <1>1, <1>5
  <2> QED BY <1>1, <1>3, <1>5, <2>1, EndsKeeps
<1>6. CASE Cut # {} /\ Cardinality(Cut) % cmd.size = 0
  <2>1. Value(v)
    BY <1>1, <1>2, <1>3, <1>6
  <2> QED BY <1>1, <1>2, <1>3, <1>6, <2>1, ValueKeeps
<1> QED BY <1>4, <1>5, <1>6

(* The address that gra finds is that of the guest's byte.                 *)
LEMMA GraFound ==
  ASSUME TypeOK, cmd \in CommandRecords, cmd.name = "gra",
         guest_backmap(cmd.page) # None
  PROVE  LET a == guest_backmap(cmd.page) * PageSize + cmd.off
         IN  /\ a \in 0 .. PmemSize - 1
             /\ ElementThere(0)
             /\ [j \in 1 .. 1 |-> pmem[Munged(a)]] = Element(0)
<1> DEFINE f == guest_backmap(cmd.page)
           o == cmd.off
           a == f * PageSize + o
<1>1. cmd.page \in Nat /\ o \in Offsets /\ o \in Nat /\ cmd.size = 1 /\ Virtual
  BY PageFact DEF CommandRecords, Offsets, Virtual
<1>2. xlat[cmd.page] = f /\ f \in 0 .. Frames - 1
  BY <1>1, FrameThere DEF guest_backmap
<1>3. ElementPage(0) = cmd.page /\ ElementOff(0) = o
  BY ElementFirst
<1>4. ElementCell(0, 0) = GuestByte(cmd.page, o)
  <2>1. (IF little THEN cmd.size - 1 - 0 ELSE 0) = 0
    BY <1>1
  <2>2. o + 0 = o /\ o \div PageSize = 0 /\ o % PageSize = o /\ cmd.page + 0 = cmd.page
    BY <1>1, SmallOffset
  <2> HIDE DEF o
  <2> QED BY <1>1, <1>3, <2>1, <2>2 DEF ElementCell
<1> HIDE DEF f, o
<1>5. a % 8 = o % 8
  <2>1. f \in Nat /\ PageSize * f = f * PageSize /\ f * PageSize \in Nat
    <3>1. f \in Nat
      BY <1>2
    <3> QED BY <3>1, PageFact, SMT
  <2>2. (PageSize * f + o) % 8 = o % 8
    BY <1>1, <2>1, PageMultiple
  <2> QED BY <2>1, <2>2
<1>6. Munged(a) = GuestByte(cmd.page, o)
  <2>1. f * PageSize \in Nat /\ o % 8 \in Nat
    <3>1. f \in Nat
      BY <1>2
    <3> QED BY <1>1, <3>1, PageFact, SMT
  <2> DEFINE b == f * PageSize
             m == o % 8
  <2>2. b \in Nat /\ a = b + o /\ a % 8 = m /\ m \in Nat
    BY <1>5, <2>1
  <2>3. GuestByte(cmd.page, o) = b + IF little THEN (o - m) + 7 - m ELSE o
    BY <1>2 DEF GuestByte
  <2>4. Munged(a) = IF little THEN (a - m) + 7 - m ELSE a
    BY <2>2 DEF Munged
  <2> HIDE DEF a, b, m
  <2> QED BY <1>1, <2>2, <2>3, <2>4
<1>7. a \in 0 .. PmemSize - 1
  BY <1>1, <1>2, FrameByte
<1> HIDE DEF a
<1>8. [j \in 1 .. 1 |-> pmem[Munged(a)]] = Element(0)
  <2>1. \A j \in 1 .. 1 : j - 1 = 0
    OBVIOUS
  <2>2. \A j \in 1 .. 1 : ElementCell(0, j - 1) = Munged(a)
    BY <1>4, <1>6, <2>1
  <2> QED BY <1>1, <2>2 DEF Element
<1>9. ElementThere(0)
  BY <1>1, <1>3 DEF ElementThere
<1> QED BY <1>7, <1>8, <1>9 DEF a, f, o

LEMMA GraKeeps ==
  ASSUME MemInv, CmdInv, TypeOK', gra
  PROVE  CmdInv'
<1>1. /\ running /\ More /\ cmd.name = "gra" /\ UNCHANGED <<little, xlat, pmem, pc>>
      /\ IF guest_backmap(eaPage) = None THEN Ends("error")
         ELSE /\ out' = <<[i \in 1 .. 1 |-> guest_backmap(eaPage) * PageSize + eaOff]>>
              /\ left' = 0
              /\ UNCHANGED <<cmd, running, eaPage, eaOff, result>>
  BY DEF gra, vars
<1>2. /\ cmd \in CommandRecords /\ eaPage = cmd.page /\ eaOff = cmd.off /\ Len(out) = 0
      /\ little => cmd.off % cmd.size = 0
      /\ result = "none" /\ pc = "idle" /\ cmd.size = 1
  <2>1. left > 0
    BY <1>1 DEF More
  <2> QED BY <1>1, <2>1, RunningFact DEF CommandRecords
<1>3. TypeOK
  BY DEF MemInv
<1>4. CASE guest_backmap(eaPage) = None
  <2>1. ElementPage(0) = cmd.page /\ Virtual
    BY <1>1, <1>2, ElementFirst DEF Virtual
  <2>2. ~ElementThere(Len(out))
    BY <1>2, <1>4, <2>1 DEF ElementThere
  <2> QED BY <1>1, <1>2, <1>4, <2>2, EndsKeeps
<1>5. CASE guest_backmap(eaPage) # None
  <2>0. PICK a : a = guest_backmap(cmd.page) * PageSize + cmd.off
    OBVIOUS
  <2>1. /\ a \in 0 .. PmemSize - 1 /\ ElementThere(0)
        /\ [j \in 1 .. 1 |-> pmem[Munged(a)]] = Element(0)
    BY <1>1, <1>2, <1>3, <1>5, <2>0, GraFound
  <2>2. /\ out' = <<[i \in 1 .. 1 |-> a]>> /\ left' = 0
        /\ UNCHANGED <<cmd, running, eaPage, eaOff, result>>
    BY <1>1, <1>2, <1>5, <2>0
  <2>3. /\ \A k : Element(k)' = Element(k) /\ ElementThere(k)' = ElementThere(k)
        /\ \A b : pmem'[Munged(b)'] = pmem[Munged(b)]
        /\ Elements' = Elements
    BY <1>1, <2>2, ElementsSame
  <2>4. Elements = [1 .. 1 -> 0 .. PmemSize - 1]
    BY <1>1, <1>2 DEF Elements
  <2>5. /\ out'[1] = [i \in 1 .. 1 |-> a] /\ out'[1] \in Elements
        /\ Len(out') = 1 /\ out' \in Seq(Elements)
    <3> DEFINE e == [i \in 1 .. 1 |-> a]
    <3>1. e \in Elements
      BY <2>1, <2>4
    <3> HIDE DEF e, Elements
    <3>2. out' = <<e>>
      BY <2>2 DEF e
    <3>3. out'[1] = e /\ Len(out') = 1 /\ out' \in Seq(Elements)
      BY <3>1, <3>2
    <3> QED BY <3>1, <3>3 DEF e
  <2>6. CmdTypeOK'
    <3>1. \A k \in 1 .. Len(out') :
            out'[k] \in [1 .. cmd'.size -> IF cmd'.name = "gra" THEN 0 .. PmemSize' - 1 ELSE Byte]
      <4>1. \A k \in 1 .. Len(out') : k = 1
        BY <2>5
      <4>2. PmemSize' = PmemSize
        BY DEF PmemSize
      <4>3. [1 .. cmd'.size -> IF cmd'.name = "gra" THEN 0 .. PmemSize' - 1 ELSE Byte] = Elements
        BY <1>1, <1>2, <2>2, <2>4, <4>2
      <4> QED BY <2>5, <4>1, <4>3
    <3> QED BY <2>2, <3>1 DEF CmdInv, CmdTypeOK
  <2>7. (out \in Seq(Elements))'
    BY <2>3, <2>5
  <2>8. Loading'
    BY <1>1, <1>2, <2>2 DEF CmdInv, Loading
  <2>9. Following'
    <3>1. Asked'
      BY <1>1, <2>2 DEF Asked
    <3>2. cmd' \in CommandRecords' /\ Len(out') = 1 - left'
      BY <1>2, <2>2, <2>5 DEF CommandRecords
    <3> QED BY <1>1, <1>2, <2>2, <3>1, <3>2 DEF Following
  <2>10. ShowsMemory'
    <3>1. Shown(0)' = Element(0)
      <4>1. out'[0 + 1][1] = a
        BY <2>5
      <4>2. pmem'[IF little' THEN (a - (a % 8)) + 7 - (a % 8) ELSE a] = pmem[Munged(a)]
        BY <1>1 DEF Munged
      <4>3. Shown(0)' = [j \in 1 .. 1 |-> pmem[Munged(a)]]
        BY <1>1, <2>2, <4>1, <4>2 DEF Shown, Munged
      <4> QED BY <2>1, <2>3, <4>3
    <3>2. \A k \in 0 .. Len(out') - 1 : k = 0
      BY <2>5
    <3>3. \A k \in 0 .. Len(out') - 1 : ElementThere(k)' /\ Shown(k)' = Element(k)'
      BY <2>1, <2>3, <3>1, <3>2
    <3> QED BY <1>2, <2>2, <3>3 DEF ShowsMemory
  <2> QED BY <2>6, <2>7, <2>8, <2>9, <2>10 DEF CmdInv
<1> QED BY <1>4, <1>5

LEMMA FinishKeeps ==
  ASSUME CmdInv, TypeOK', Finish
  PROVE  CmdInv'
<1>1. running /\ ~More /\ pc' = "idle" /\ Ends("ok") /\ UNCHANGED <<little, xlat, pmem>>
  BY DEF Finish, vars
<1>2. /\ cmd \in CommandRecords /\ left \in Nat /\ Len(out) \in Nat
      /\ cmd.name = "gra" => Len(out) = 1 - left
      /\ cmd.name \in {"dump", "memread"} => Len(out) + left = cmd.count
  BY <1>1, RunningFact
<1>3. cmd.name # "memreadstring" /\ left = 0
  BY <1>1, <1>2 DEF More
<1>4. Len(out) = cmd.count
  <2>1. cmd.name \in {"dump", "memread", "memreadstring", "gra"} /\ cmd.count \in Nat
    BY <1>2 DEF CommandRecords
  <2>2. CASE cmd.name = "gra"
    <3>1. cmd.count = 1
      BY <1>2, <2>2 DEF CommandRecords
    <3> QED BY <1>2, <1>3, <2>2, <3>1
  <2>3. CASE cmd.name \in {"dump", "memread"}
    BY <1>2, <1>3, <2>1, <2>3
  <2> QED BY <1>3, <2>1, <2>2, <2>3
<1> QED BY <1>1, <1>3, <1>4, EndsKeeps

(* Without a command there is no output to show.                           *)
LEMMA QuietKeeps ==
  ASSUME TypeOK', running' = FALSE, result' = "none", out' = <<>>,
         left' = 0, eaPage' = 0, eaOff' = 0
  PROVE  CmdInv'
<1>1. ~Asked'
  BY DEF Asked
<1>2. CmdTypeOK'
  <2>1. (\A k \in 1 .. Len(out') : FALSE) /\ 0 \in Offsets
    BY PageFact DEF Offsets
  <2> QED BY <2>1 DEF CmdTypeOK
<1>3. (out \in Seq(Elements))'
  <2>1. <<>> \in Seq(Elements')
    OBVIOUS
  <2> QED BY <2>1
<1>4. Loading' /\ Following'
  BY <1>1 DEF Loading, Following, Asked
<1>5. ShowsMemory'
  BY DEF ShowsMemory
<1> QED BY <1>2, <1>3, <1>4, <1>5 DEF CmdInv

LEMMA TypeKeeps ==
  ASSUME MemInv, CmdInv, TypeOK', NEW c \in Commands, Type(c)
  PROVE  CmdInv'
<1>1. /\ pc = "idle" /\ cmd' = c /\ running' = TRUE /\ left' = c.count
      /\ eaPage' = c.page /\ eaOff' = c.off /\ out' = <<>> /\ result' = "none"
      /\ UNCHANGED <<little, xlat, pmem, pc>>
      /\ little => c.off % c.size = 0
  BY DEF Type, vars
<1>2. c \in CommandRecords
  BY CommandsAssumption DEF CommandRecords
<1>3. /\ c.page \in Nat /\ c.off \in Offsets /\ c.off \in Nat /\ c.size \in Nat /\ c.count \in Nat
      /\ c.name = "gra" => c.count = 1
  BY <1>2, PageFact DEF CommandRecords, Offsets, AccessSizes
<1>4. Len(out') = 0 /\ Asked'
  BY <1>1 DEF Asked
<1>5. CmdTypeOK'
  BY <1>1, <1>3, <1>4 DEF CmdTypeOK
<1>6. (out \in Seq(Elements))'
  <2>1. <<>> \in Seq(Elements')
    OBVIOUS
  <2> QED BY <1>1, <2>1
<1>7. Loading'
  BY <1>1 DEF Loading
<1>8. Following'
  <2>1. c.off + 0 * c.size = c.off
    BY <1>3
  <2>2. c.off \div PageSize = 0 /\ c.off % PageSize = c.off /\ c.page + 0 = c.page
    BY <1>3, SmallOffset
  <2>3. (eaPage = ElementPage(Len(out)))' /\ (eaOff = ElementOff(Len(out)))'
    BY <1>1, <1>4, <2>1, <2>2 DEF ElementPage, ElementOff
  <2>4. (cmd \in CommandRecords)'
    BY <1>1, <1>2 DEF CommandRecords
  <2>5. c.name = "gra" => 0 = 1 - c.count
    BY <1>3
  <2>6. 0 + c.count = c.count
    BY <1>3
  <2> QED BY <1>1, <1>4, <2>3, <2>4, <2>5, <2>6 DEF Following
<1>9. ShowsMemory'
  <2>1. \A k \in 0 .. Len(out') - 1 : FALSE
    BY <1>4
  <2> QED BY <1>1, <2>1 DEF ShowsMemory
<1> QED BY <1>5, <1>6, <1>7, <1>8, <1>9 DEF CmdInv

LEMMA InitInv == CmdInit => MemInv /\ CmdInv
<1> SUFFICES ASSUME CmdInit PROVE MemInv /\ CmdInv
  OBVIOUS
<1>1. /\ Init /\ running = FALSE /\ left = 0 /\ eaPage = 0 /\ eaOff = 0
      /\ out = <<>> /\ result = "none"
  BY DEF CmdInit
<1>2. MemInv
  BY <1>1, MemInit
<1>3. CmdTypeOK
  <2>1. (\A k \in 1 .. Len(out) : FALSE) /\ 0 \in Offsets
    BY <1>1, PageFact DEF Offsets
  <2>2. TypeOK
    BY <1>2 DEF MemInv
  <2> QED BY <1>1, <2>1, <2>2 DEF CmdTypeOK
<1>4. out \in Seq(Elements)
  <2>1. <<>> \in Seq(Elements)
    OBVIOUS
  <2> QED BY <1>1, <2>1
<1>5. Loading /\ Following /\ ShowsMemory
  BY <1>1 DEF Loading, Following, Asked, ShowsMemory
<1> QED BY <1>2, <1>3, <1>4, <1>5 DEF CmdInv

(* What a step of the monitor does to memory is a step of a transfer that  *)
(* the code lets begin.                                                    *)
LEMMA StepTransfers ==
  ASSUME CmdInv, CmdNext \/ UNCHANGED allVars
  PROVE  Transferring \/ UNCHANGED vars
<1>1. CASE Load
  <2>1. running
    BY <1>1 DEF Load
  <2>2. cmd \in CommandRecords
    BY <2>1, RunningFact
  <2>3. eaPage \in Nat /\ eaOff \in Offsets
    BY DEF CmdInv, CmdTypeOK
  <2>4. LoadRequest \in Requests
    BY <2>2, <2>3 DEF LoadRequest, Requests, CommandRecords, AccessSizes
  <2>5. Begin(LoadRequest)
    BY <1>1 DEF Load, LoadRequest
  <2> QED BY <2>4, <2>5 DEF Transferring
<1>2. CASE Serve
  <2>1. Transfers \subseteq Requests
    BY TransfersAssumption DEF Requests
  <2> QED BY <1>2, <2>1 DEF Serve, Transferring
<1>3. CASE Loaded
  BY <1>3 DEF Loaded, Transferring
<1>4. CASE LoadPhysical
  BY <1>4 DEF LoadPhysical
<1>5. CASE gra \/ Finish \/ \E c \in Commands : Type(c)
  BY <1>5 DEF gra, Finish, Type
<1>6. CASE Pass
  BY <1>6 DEF Transferring
<1>7. CASE UNCHANGED allVars
  BY <1>7 DEF allVars
<1> QED BY <1>1, <1>2, <1>3, <1>4, <1>5, <1>6, <1>7 DEF CmdNext, Step

LEMMA CmdStep ==
  ASSUME MemInv, CmdInv, CmdNext \/ UNCHANGED allVars
  PROVE  MemInv' /\ CmdInv'
<1>1. MemInv' /\ TypeOK'
  <2>1. MemInv'
    BY StepTransfers, MemStep
  <2> QED BY <2>1 DEF MemInv
<1>2. CASE Pass /\ UNCHANGED cmdVars
  BY <1>1, <1>2, PassUnder
<1>3. CASE Serve
  <2>1. ~running /\ UNCHANGED running /\ result' = "none" /\ out' = <<>>
        /\ left' = 0 /\ eaPage' = 0 /\ eaOff' = 0
    BY <1>3 DEF Serve
  <2>2. running \in BOOLEAN
    BY DEF CmdInv, CmdTypeOK
  <2>3. running' = FALSE
    BY <2>1, <2>2
  <2> QED BY <1>1, <2>1, <2>3, QuietKeeps
<1>4. CASE \E c \in Commands : Type(c)
  BY <1>1, <1>4, TypeKeeps
<1>5. CASE UNCHANGED allVars
  <2>1. /\ UNCHANGED cmdVars
        /\ UNCHANGED <<little, xlat, pmem, req, pc>>
    BY <1>5 DEF allVars, vars
  <2>2. Loading'
    BY <2>1 DEF CmdInv, Loading, cmdVars, Virtual, More, LoadRequest
  <2> QED BY <1>1, <2>1, <2>2, UnderKeeps
<1>6. CASE Load \/ Loaded \/ LoadPhysical \/ gra \/ Finish
  BY <1>1, <1>6, LoadKeeps, LoadedKeeps, LoadPhysicalKeeps, GraKeeps, FinishKeeps
<1> QED BY <1>1, <1>2, <1>3, <1>4, <1>5, <1>6 DEF CmdNext, Step

-----------------------------------------------------------------------------
(* At every step of a transfer, the passes before have moved what they     *)
(* should, the one under way reaches its page and no further; at every step*)
(* of a command, what was printed is what the guest holds so far.          *)
THEOREM CommandsInvariant == CmdSpec => [](MemInv /\ CmdInv)
<1>1. MemInv /\ CmdInv /\ [CmdNext]_allVars => (MemInv /\ CmdInv)'
  BY CmdStep
<1> QED BY <1>1, InitInv, PTL DEF CmdSpec

(* The commands' variables, and those of the transfers under them, have    *)
(* the values they should: nothing but bytes is printed, and gra gives an  *)
(* address of memory.                                                      *)
THEOREM CommandsTyped == CmdSpec => []CmdTypeOK
<1>1. CmdInv => CmdTypeOK
  BY DEF CmdInv
<1> QED BY <1>1, CommandsInvariant, PTL

(* guest_from_ex gives the host what the guest would load, for pages of any*)
(* size that lie anywhere in memory and accesses of any size.              *)
THEOREM ReadsExact == CmdSpec => []ReadExact
<1>1. MemInv => ReadExact
  BY DEF MemInv
<1> QED BY <1>1, CommandsInvariant, PTL

(* guest_to leaves the guest's memory as if the guest had stored the bytes *)
(* one after the other, and touches nothing else, also when pages share a  *)
(* frame and when it fails.                                                *)
THEOREM WritesExact == CmdSpec => []WriteExact
<1>1. MemInv => WriteExact
  BY DEF MemInv
<1> QED BY <1>1, CommandsInvariant, PTL

(* A transfer is told to have failed exactly if a page is missing, at the  *)
(* first byte of it, and no BUG_ON on a size ends an aligned one.          *)
THEOREM FailuresTold == CmdSpec => []FailureTold
<1>1. MemInv => FailureTold
  BY DEF MemInv
<1> QED BY <1>1, CommandsInvariant, PTL

(* A NUL-terminated read has the string, where strings can be read at all: *)
(* of a big-endian guest, on one page.                                     *)
THEOREM StringsRead == CmdSpec => []StringRead
<1>1. MemInv => StringRead
  BY DEF MemInv
<1> QED BY <1>1, CommandsInvariant, PTL

(* The commands of the monitor show the guest's memory, whole and in order.*)
THEOREM CommandsShowMemory == CmdSpec => []ShowsMemory
<1>1. CmdInv => ShowsMemory
  BY DEF CmdInv
<1> QED BY <1>1, CommandsInvariant, PTL
=============================================================================
