-------------------------- MODULE RomClaims_proofs --------------------------
(***************************************************************************)
(* Proofs about RomClaims, for every size of word, page, memory and arena. *)
(* The argument: every cut rom_claim_ex makes begins and ends on a page    *)
(* (TakenPages), so cuts keep the list well formed (RemoveWellFormed) and  *)
(* never stop on the split (RemoveGoesOn); when the request does not wrap, *)
(* the cut is exactly the pages the claim touches (TakenInBounds).         *)
(*                                                                         *)
(* And about RangeList, whose linked list is that set: Good(L, e) says     *)
(* that L is the sorted list of the blocks e; adding, trimming and         *)
(* deleting a block keep it (AddGood, TrimGood, DeleteGood), hence each    *)
(* pass of range_remove's loop does, the blocks it inserts and deletes     *)
(* behind the cursor included (PassGood).                                  *)
(***************************************************************************)
EXTENDS RangeList, FiniteSetTheorems, WellFoundedInduction, TLAPS

-----------------------------------------------------------------------------
(* ALIGN, multiples, and sets of naturals.                                 *)
LEMMA DivBounds ==
  ASSUME NEW x \in Nat, NEW a \in Nat, a > 0
  PROVE  /\ x \div a \in Nat
         /\ ALIGN(x, a) \in Nat
         /\ ALIGN(x, a) <= x /\ x < ALIGN(x, a) + a
         /\ x % a = x - ALIGN(x, a)
<1>1. x \div a \in Nat
  BY SMT
<1>2. x % a = x - a * (x \div a) /\ x % a >= 0 /\ x % a < a
  BY SMT
<1> QED BY <1>1, <1>2, SMT DEF ALIGN

LEMMA MultipleStep ==
  ASSUME NEW x \in Nat, NEW y \in Nat, NEW a \in Nat, a > 0,
         IsMultiple(x, a), IsMultiple(y, a), x < y
  PROVE  x + a <= y
<1>1. PICK j \in 0 .. x : x = j * a
  BY DEF IsMultiple
<1>2. PICK k \in 0 .. y : y = k * a
  BY DEF IsMultiple
<1>3. j < k
  <2>1. SUFFICES ASSUME k <= j PROVE FALSE
    OBVIOUS
  <2>2. k * a <= j * a
    BY <2>1, <1>1, <1>2, SMT
  <2> QED BY <2>2, <1>1, <1>2
<1>4. (j + 1) * a <= k * a
  BY <1>3, SMT
<1>5. (j + 1) * a = x + a
  BY <1>1, SMT
<1> QED BY <1>4, <1>5, <1>2

LEMMA MultipleAlign ==
  ASSUME NEW x \in Nat, NEW a \in Nat, a > 0
  PROVE  IsMultiple(ALIGN(x, a), a)
<1>1. x \div a \in Nat /\ x \div a <= (x \div a) * a
  BY DivBounds, SMT
<1> QED BY <1>1, SMT DEF ALIGN, IsMultiple

LEMMA MultipleAdd ==
  ASSUME NEW x \in Nat, NEW a \in Nat, a > 0, IsMultiple(x, a)
  PROVE  IsMultiple(x + a, a)
<1>1. PICK j \in 0 .. x : x = j * a
  BY DEF IsMultiple
<1>2. x + a = (j + 1) * a /\ j + 1 \in 0 .. x + a
  BY <1>1, SMT
<1> QED BY <1>2 DEF IsMultiple

(* ALIGN is the one multiple that begins the page.                         *)
LEMMA AlignUnique ==
  ASSUME NEW y \in Nat, NEW d \in Nat, NEW a \in Nat, a > 0,
         IsMultiple(d, a), d <= y, y < d + a
  PROVE  ALIGN(y, a) = d
<1>1. PICK e \in Nat : e = ALIGN(y, a) /\ e <= y /\ y < e + a
  BY DivBounds
<1>2. IsMultiple(e, a)
  BY <1>1, MultipleAlign
<1>3. ~(d < e) /\ ~(e < d)
  BY <1>1, <1>2, MultipleStep
<1> QED BY <1>1, <1>3

LEMMA MultipleDifference ==
  ASSUME NEW x \in Nat, NEW y \in Nat, NEW a \in Nat, a > 0, x <= y,
         IsMultiple(x, a), IsMultiple(y, a)
  PROVE  IsMultiple(y - x, a)
<1>1. PICK j \in 0 .. x : x = j * a
  BY DEF IsMultiple
<1>2. PICK k \in 0 .. y : y = k * a
  BY DEF IsMultiple
<1>4. j <= k
  <2>1. SUFFICES ASSUME k < j PROVE FALSE
    OBVIOUS
  <2>2. k * a < j * a
    BY <2>1, <1>1, <1>2, SMT
  <2> QED BY <2>2, <1>1, <1>2
<1>5. y - x = (k - j) * a
  BY <1>1, <1>2, SMT
<1>6. (k - j) <= (k - j) * a /\ k - j \in Nat
  BY <1>4, SMT
<1>7. k - j \in 0 .. y - x
  BY <1>5, <1>6
<1> QED BY <1>5, <1>7, Zenon DEF IsMultiple

(* The one quotient and remainder.                                         *)
LEMMA DivUnique ==
  ASSUME NEW a \in Nat, a > 0, NEW q \in Int, NEW r \in 0 .. a - 1
  PROVE  (a * q + r) \div a = q /\ (a * q + r) % a = r
<1> DEFINE x == a * q + r
           p == x \div a
           m == x % a
<1>1. p \in Int /\ m \in 0 .. a - 1 /\ x = a * p + m
  BY SMT
<1> HIDE DEF p, m
<1>2. a * (q - p) = m - r /\ q - p \in Int
  BY <1>1, SMT
<1>3. q - p < 1 /\ q - p > -1
  BY <1>1, <1>2, SMT
<1>4. q - p = 0
  BY <1>2, <1>3, SMT
<1>5. m = r /\ p = q
  BY <1>1, <1>2, <1>4, SMT
<1> QED BY <1>5 DEF p, m

(* The least number principle, and with it induction, about sets.          *)
LEMMA LeastNatural ==
  ASSUME NEW S, S \subseteq Nat, S # {}
  PROVE  \E m \in S : \A n \in S : m <= n
<1> DEFINE R == OpToRel(<, Nat)
<1>1. IsWellFoundedOn(R, Nat)
  BY NatLessThanWellFounded
<1>2. \A x, y \in Nat : x < y => <<x, y>> \in R
  BY DEF OpToRel
<1> HIDE DEF R
<1>3. PICK m \in S : \A n \in S : ~ (<<n, m>> \in R)
  BY <1>1, WFMin
<1>4. ASSUME NEW n \in S PROVE m <= n
  <2>1. ~(n < m) /\ n \in Nat /\ m \in Nat
    BY <1>2, <1>3
  <2> QED BY <2>1
<1> QED BY <1>4

LEMMA SetInduction ==
  ASSUME NEW S, 0 \in S, \A n \in Nat : n \in S => n + 1 \in S
  PROVE  Nat \subseteq S
<1> SUFFICES ASSUME Nat \ S # {} PROVE FALSE
  OBVIOUS
<1>1. PICK m \in Nat \ S : \A n \in Nat \ S : m <= n
  BY LeastNatural
<1>2. m - 1 \in Nat /\ m - 1 \notin Nat \ S
  BY <1>1
<1>3. (m - 1) + 1 \in S
  BY <1>2
<1> QED BY <1>1, <1>3

-----------------------------------------------------------------------------
(* ALIGN_UP stays in the word, and only moves down by wrapping to 0.       *)
LEMMA AlignUpWord ==
  ASSUME NEW x \in 0 .. WordMod - 1, NEW a \in 1 .. WordMod,
         WordMod \in Nat, IsMultiple(WordMod, a)
  PROVE  /\ ALIGN_UP(x, a) \in 0 .. WordMod - 1
         /\ IsMultiple(ALIGN_UP(x, a), a)
         /\ x <= ALIGN_UP(x, a) \/ ALIGN_UP(x, a) = 0
<1>0. x \in Nat /\ a \in Nat /\ a > 0
  OBVIOUS
<1>1. PICK d \in Nat : /\ d = ALIGN(x, a)
                      /\ d <= x /\ x < d + a
                      /\ x % a = x - d
  BY <1>0, DivBounds
<1>2. IsMultiple(d, a) /\ IsMultiple(d + a, a)
  BY <1>0, <1>1, MultipleAlign, MultipleAdd
<1>3. d + a <= WordMod
  BY <1>0, <1>1, <1>2, MultipleStep
<1>4. IsMultiple(0, a)
  BY SMT DEF IsMultiple
<1>5. CASE x % a = 0
  BY <1>1, <1>2, <1>5 DEF ALIGN_UP
<1>6. CASE x % a # 0
  <2>1. ALIGN_UP(x, a) = Word(d + a)
    BY <1>1, <1>6, Zenon DEF ALIGN_UP
  <2>2. CASE d + a >= WordMod
    <3>1. ALIGN_UP(x, a) = 0
      BY <2>1, <2>2, <1>1, <1>3 DEF Word
    <3> QED BY <3>1, <1>0, <1>4
  <2>3. CASE d + a < WordMod
    <3>1. ALIGN_UP(x, a) = d + a
      BY <2>1, <2>3, <1>1 DEF Word
    <3> QED BY <3>1, <2>3, <1>0, <1>1, <1>2
  <2> QED BY <2>2, <2>3, <1>1
<1> QED BY <1>5, <1>6, <1>1

(* The same below a multiple of a, where it cannot wrap.                   *)
LEMMA AlignUpBelow ==
  ASSUME NEW top \in 0 .. WordMod - 1, NEW x \in 0 .. top,
         NEW a \in Nat, a > 0, WordMod \in Nat, IsMultiple(top, a)
  PROVE  /\ ALIGN_UP(x, a) \in x .. top
         /\ x % a = 0 \/ ALIGN_UP(x, a) = ALIGN(x, a) + a
<1>0. x \in Nat /\ top \in Nat /\ x <= top
  OBVIOUS
<1>1. PICK d \in Nat : /\ d = ALIGN(x, a)
                      /\ d <= x /\ x < d + a
                      /\ x % a = x - d
  BY <1>0, DivBounds
<1>2. CASE x % a = 0
  BY <1>1, <1>2 DEF ALIGN_UP
<1>3. CASE x % a # 0
  <2>1. d < x
    BY <1>1, <1>3
  <2>2. d + a <= top
    BY <2>1, <1>0, <1>1, MultipleAlign, MultipleStep
  <2>3. ALIGN_UP(x, a) = Word(d + a)
    BY <1>1, <1>3, Zenon DEF ALIGN_UP
  <2>4. ALIGN_UP(x, a) = d + a
    BY <2>2, <2>3, <1>0, <1>1 DEF Word
  <2> QED BY <2>1, <2>2, <2>4, <1>0, <1>1
<1> QED BY <1>2, <1>3

LEMMA AlignUpInWord ==
  ASSUME NEW x \in Nat, NEW a \in Nat, a > 0, WordMod \in Nat,
         AlignedUp(x, a) < WordMod
  PROVE  /\ ALIGN_UP(x, a) = AlignedUp(x, a)
         /\ ALIGN_UP(x, a) \in Nat
         /\ x <= ALIGN_UP(x, a)
<1>1. PICK d \in Nat : /\ d = ALIGN(x, a)
                      /\ d <= x /\ x < d + a
  BY DivBounds
<1>2. CASE x % a = 0
  BY <1>2 DEF ALIGN_UP, AlignedUp
<1>3. CASE x % a # 0
  <2>1. AlignedUp(x, a) = d + a
    BY <1>1, <1>3, Zenon DEF AlignedUp
  <2>2. ALIGN_UP(x, a) = Word(d + a)
    BY <1>1, <1>3, Zenon DEF ALIGN_UP
  <2> QED BY <1>1, <2>1, <2>2 DEF Word
<1> QED BY <1>2, <1>3

-----------------------------------------------------------------------------
(* What range_remove leaves, byte by byte.                                 *)
LEMMA RemoveCovers ==
  ASSUME NEW R, R \subseteq Ranges, NEW b \in Nat, NEW l \in Nat, NEW x \in Nat
  PROVE  Covers(range_remove(R, b, l), x)
           <=> Covers(R, x) /\ ~(b <= x /\ x <= l)
<1>1. ASSUME NEW r \in R
      PROVE  (\E q \in Remains(r, b, l) : InRange(x, q))
               <=> InRange(x, r) /\ ~(b <= x /\ x <= l)
  <2>1. r.base \in Nat /\ r.limit \in Nat
    BY DEF Ranges
  <2>2. CASE r.base > l \/ r.limit < b
    <3>1. Remains(r, b, l) = {r}
      BY <2>2 DEF Remains
    <3> QED BY <3>1, <2>1, <2>2 DEF InRange
  <2>3. CASE ~(r.base > l \/ r.limit < b)
    <3> DEFINE left == range_alloc(r.base, b - 1)
               right == range_alloc(l + 1, r.limit)
    <3>1. Remains(r, b, l) = {q \in {left} : r.base < b} \cup {q \in {right} : l < r.limit}
      BY <2>3 DEF Remains
    <3>2. /\ InRange(x, left) <=> r.base <= x /\ x <= b - 1
          /\ InRange(x, right) <=> l + 1 <= x /\ x <= r.limit
      BY DEF range_alloc, InRange
    <3> HIDE DEF left, right
    <3>3. (\E q \in Remains(r, b, l) : InRange(x, q)) <=>
            \/ r.base < b /\ InRange(x, left)
            \/ l < r.limit /\ InRange(x, right)
      BY <3>1
    <3> QED BY <3>2, <3>3, <2>1, <2>3 DEF InRange
  <2> QED BY <2>2, <2>3
<1>2. Covers(range_remove(R, b, l), x)
        <=> \E r \in R : \E q \in Remains(r, b, l) : InRange(x, q)
  BY DEF Covers, range_remove
<1> QED BY <1>1, <1>2 DEF Covers

(* Every piece lies in the range it was cut from, and off the cut.         *)
LEMMA RemainsInside ==
  ASSUME NEW r \in Ranges, r.base <= r.limit, NEW b \in Nat, NEW l \in Nat, b <= l,
         NEW q \in Remains(r, b, l)
  PROVE  /\ q \in Ranges /\ q.base <= q.limit
         /\ r.base <= q.base /\ q.limit <= r.limit
         /\ q.limit < b \/ l < q.base
         /\ q.base = r.base \/ q.base = l + 1
         /\ q.limit = r.limit \/ q.limit + 1 = b
<1>1. r.base \in Nat /\ r.limit \in Nat
  BY DEF Ranges
<1>2. CASE r.base > l \/ r.limit < b
  BY <1>1, <1>2 DEF Remains
<1>3. CASE ~(r.base > l \/ r.limit < b)
  <2>1. \/ q = range_alloc(r.base, b - 1) /\ r.base < b
        \/ q = range_alloc(l + 1, r.limit) /\ l < r.limit
    BY <1>3 DEF Remains
  <2>2. CASE q = range_alloc(r.base, b - 1) /\ r.base < b
    BY <2>2, <1>1, <1>3 DEF range_alloc, Ranges
  <2>3. CASE q = range_alloc(l + 1, r.limit) /\ l < r.limit
    BY <2>3, <1>1, <1>3 DEF range_alloc, Ranges
  <2> QED BY <2>1, <2>2, <2>3
<1> QED BY <1>2, <1>3

(* Two different pieces of one range lie on both sides of the cut.         *)
LEMMA RemainsApart ==
  ASSUME NEW r \in Ranges, r.base <= r.limit, NEW b \in Nat, NEW l \in Nat, b <= l,
         NEW p \in Remains(r, b, l), NEW q \in Remains(r, b, l), p # q
  PROVE  ~Overlap(p, q)
<1>1. /\ r.base \in Nat /\ r.limit \in Nat
      /\ p \in Ranges /\ q \in Ranges
  BY RemainsInside DEF Ranges
<1>2. ~(r.base > l \/ r.limit < b)
  BY DEF Remains
<1>3. /\ p \in {range_alloc(r.base, b - 1), range_alloc(l + 1, r.limit)}
      /\ q \in {range_alloc(r.base, b - 1), range_alloc(l + 1, r.limit)}
  BY <1>2 DEF Remains
<1> QED BY <1>1, <1>2, <1>3 DEF Overlap, range_alloc

WellFormed(R) == R \subseteq Ranges /\ DisjointRanges(R) /\ \A r \in R : PageRange(r)

PageCut(b, l) ==
  /\ b \in Nat /\ l \in Nat /\ b < l
  /\ IsMultiple(b, PageSize) /\ IsMultiple(l + 1, PageSize)

(* What a cut of pages leaves of a range of pages.                         *)
LEMMA RemainsPages ==
  ASSUME NEW r \in Ranges, PageRange(r), NEW b, NEW l, PageCut(b, l), NEW q \in Remains(r, b, l)
  PROVE  q \in Ranges /\ PageRange(q)
<1>1. /\ r \in Ranges /\ r.base \in Nat /\ r.limit \in Nat /\ r.base < r.limit
      /\ r.limit < PmemSize
      /\ IsMultiple(r.base, PageSize) /\ IsMultiple(r.limit + 1, PageSize)
  BY DEF PageRange, Ranges
<1>2. /\ q \in Ranges /\ q.base \in Nat /\ q.limit \in Nat /\ q.base <= q.limit
      /\ q.limit <= r.limit
      /\ q.base = r.base \/ q.base = l + 1
      /\ q.limit = r.limit \/ q.limit + 1 = b
  BY <1>1, RemainsInside DEF Ranges, PageCut
<1>3. IsMultiple(q.base, PageSize) /\ IsMultiple(q.limit + 1, PageSize)
  BY <1>1, <1>2 DEF PageCut
<1>4. q.base + PageSize <= q.limit + 1
  BY <1>2, <1>3, MultipleStep, WordAssumption
<1> QED BY <1>1, <1>2, <1>3, <1>4, WordAssumption, MemoryAssumption DEF PageRange

(* Cutting whole pages out of a well-formed list leaves one.               *)
LEMMA RemoveWellFormed ==
  ASSUME NEW R, WellFormed(R), NEW b, NEW l, PageCut(b, l)
  PROVE  WellFormed(range_remove(R, b, l))
<1> USE DEF WellFormed, PageCut
<1>1. ASSUME NEW r \in R, NEW q \in Remains(r, b, l)
      PROVE  q \in Ranges /\ PageRange(q)
  <2>1. r \in Ranges /\ PageRange(r) /\ PageCut(b, l)
    OBVIOUS
  <2> QED BY <2>1, RemainsPages
<1>2. ASSUME NEW r \in R, NEW s \in R, NEW p \in Remains(r, b, l),
             NEW q \in Remains(s, b, l), p # q
      PROVE  ~Overlap(p, q)
  <2>1. /\ r \in Ranges /\ r.base \in Nat /\ r.limit \in Nat /\ r.base <= r.limit
        /\ s \in Ranges /\ s.base \in Nat /\ s.limit \in Nat /\ s.base <= s.limit
    BY DEF PageRange, Ranges
  <2>2. CASE r = s
    BY <2>1, <2>2, <1>2, RemainsApart
  <2>3. CASE r # s
    <3>1. ~Overlap(r, s)
      BY <2>3 DEF DisjointRanges
    <3>2. /\ p.base \in Nat /\ p.limit \in Nat /\ p.base <= p.limit
          /\ r.base <= p.base /\ p.limit <= r.limit
      BY <2>1, RemainsInside DEF Ranges
    <3>3. /\ q.base \in Nat /\ q.limit \in Nat /\ q.base <= q.limit
          /\ s.base <= q.base /\ q.limit <= s.limit
      BY <2>1, RemainsInside DEF Ranges
    <3> QED BY <2>1, <3>1, <3>2, <3>3 DEF Overlap
  <2> QED BY <2>2, <2>3
<1>3. range_remove(R, b, l) \subseteq Ranges
  BY <1>1 DEF range_remove
<1>4. \A q \in range_remove(R, b, l) : PageRange(q)
  BY <1>1 DEF range_remove
<1>5. DisjointRanges(range_remove(R, b, l))
  BY <1>2 DEF range_remove, DisjointRanges
<1> QED BY <1>3, <1>4, <1>5

(* And it never meets a BUG_ON of range_remove or range_add.               *)
LEMMA RemoveGoesOn ==
  ASSUME NEW R, WellFormed(R), NEW b, NEW l, PageCut(b, l)
  PROVE  ~RemoveStops(R, b, l)
<1> USE DEF WellFormed, PageCut
<1>0. ~(b >= l)
  OBVIOUS
<1>1. SUFFICES ASSUME NEW r \in R, r.base < b, r.limit > l,
                      AddStops(R \ {r}, r.base, b - 1)
               PROVE  FALSE
  BY <1>0, Zenon DEF RemoveStops
<1>2. /\ r.base \in Nat /\ r.limit \in Nat
      /\ IsMultiple(r.base, PageSize) /\ r.base < r.limit
  BY DEF PageRange, Ranges
<1>3. r.base + PageSize <= b
  BY <1>1, <1>2, MultipleStep, WordAssumption
<1>4. PICK q \in R \ {r} : r.base >= q.base /\ b - 1 <= q.limit
  BY <1>1, <1>2, <1>3, WordAssumption DEF AddStops
<1>5. q.base \in Nat /\ q.limit \in Nat
  BY DEF Ranges
<1>6. ~Overlap(r, q)
  BY <1>4 DEF DisjointRanges
<1> QED BY <1>1, <1>2, <1>3, <1>4, <1>5, <1>6, WordAssumption DEF Overlap

-----------------------------------------------------------------------------
LEMMA AlignPage ==
  ASSUME NEW x \in Nat
  PROVE  /\ ALIGN(x, PageSize) \in Nat
         /\ ALIGN(x, PageSize) <= x /\ x < ALIGN(x, PageSize) + PageSize
         /\ x % PageSize = x - ALIGN(x, PageSize)
         /\ IsMultiple(ALIGN(x, PageSize), PageSize)
<1>1. PageSize \in Nat /\ PageSize > 0
  BY WordAssumption
<1> QED BY <1>1, DivBounds, MultipleAlign

LEMMA SamePage ==
  ASSUME NEW x \in Nat, NEW y \in Nat
  PROVE  x \div PageSize = y \div PageSize <=> ALIGN(x, PageSize) = ALIGN(y, PageSize)
<1>0. x \div PageSize \in Nat /\ y \div PageSize \in Nat
  BY WordAssumption, SMT
<1>1. PICK i \in Nat, j \in Nat : i = x \div PageSize /\ j = y \div PageSize
  BY <1>0, Zenon
<1>2. i * PageSize = j * PageSize => i = j
  <2>1. ASSUME NEW m \in Nat, NEW n \in Nat, m < n
        PROVE  m * PageSize < n * PageSize
    BY <2>1, WordAssumption, SMT
  <2>2. i < j => i * PageSize < j * PageSize
    BY <2>1
  <2>3. j < i => j * PageSize < i * PageSize
    BY <2>1
  <2>4. i * PageSize \in Nat /\ j * PageSize \in Nat
    BY WordAssumption
  <2> QED BY <2>2, <2>3, <2>4
<1> QED BY <1>1, <1>2 DEF ALIGN

(* The last byte of a cut ends a page, wherever the sum wrapped.           *)
LEMMA LastByteEndsPage ==
  ASSUME NEW out \in 0 .. WordMod - 1, NEW size \in 0 .. WordMod - 1
  PROVE  /\ LastByte(out, size) \in Nat
         /\ IsMultiple(LastByte(out, size) + 1, PageSize)
<1>1. PageSize \in Nat /\ PageSize > 0 /\ WordMod \in Nat /\ WordMod > 0
  BY WordAssumption
<1>2. PICK w \in 0 .. WordMod - 1 : w = Word(out + size)
  <2>1. Word(out + size) \in 0 .. WordMod - 1
    BY <1>1 DEF Word
  <2> QED BY <2>1
<1>3. PageSize \in 1 .. WordMod
  <2>1. IsMultiple(0, PageSize)
    BY <1>1, SMT DEF IsMultiple
  <2>2. 0 + PageSize <= WordMod
    BY <2>1, <1>1, MultipleStep, WordAssumption
  <2> QED BY <2>2, <1>1
<1>4. PICK u \in 0 .. WordMod - 1 : u = ALIGN_UP(w, PageSize) /\ IsMultiple(u, PageSize)
  BY <1>1, <1>3, AlignUpWord, WordAssumption
<1>5. LastByte(out, size) = Pred(u)
  BY <1>2, <1>4 DEF LastByte
<1>6. Pred(u) \in Nat /\ (Pred(u) + 1 = u \/ Pred(u) + 1 = WordMod)
  BY <1>1 DEF Pred
<1> QED BY <1>4, <1>5, <1>6, WordAssumption

(* A cut of rom_claim_ex that does not stop takes whole pages, the page of *)
(* the returned address among them, for any word of a size.                *)
LEMMA TakenPages ==
  ASSUME NEW out \in 0 .. WordMod - 1, NEW size \in 0 .. WordMod - 1,
         FirstByte(out) < LastByte(out, size)
  PROVE  /\ PageCut(FirstByte(out), LastByte(out, size))
         /\ FirstByte(out) <= out /\ out <= LastByte(out, size)
<1>0. out \in Nat /\ PageSize \in Nat /\ PageSize > 0
  BY WordAssumption
<1>1. PICK fb \in Nat : /\ fb = FirstByte(out) /\ fb <= out /\ out < fb + PageSize
                        /\ IsMultiple(fb, PageSize)
  BY <1>0, AlignPage DEF FirstByte
<1>2. PICK lb \in Nat : lb = LastByte(out, size) /\ IsMultiple(lb + 1, PageSize)
  BY LastByteEndsPage
<1>3. fb + PageSize <= lb + 1
  BY <1>0, <1>1, <1>2, MultipleStep
<1> QED BY <1>0, <1>1, <1>2, <1>3 DEF PageCut

(* A non-empty claim inside memory takes exactly the pages it occupies.    *)
LEMMA TakenInBounds ==
  ASSUME NEW out \in Nat, NEW size \in Nat, size > 0, out + size <= PmemSize, NEW how
  PROVE  /\ FirstByte(out) < LastByte(out, size)
         /\ \A x \in Bytes : x \in Extent(Grant(out, size, how))
                               <=> FirstByte(out) <= x /\ x <= LastByte(out, size)
         /\ out \in Extent(Grant(out, size, how))
<1>0. /\ PageSize \in Nat /\ PageSize >= 8 /\ WordMod \in Nat
      /\ PmemSize \in 0 .. WordMod - 1
  BY WordAssumption, MemoryAssumption
<1>1. PICK fb \in Nat : /\ fb = ALIGN(out, PageSize) /\ fb <= out /\ out < fb + PageSize
                        /\ IsMultiple(fb, PageSize)
  BY AlignPage
<1>2. PICK w \in 1 .. PmemSize : w = out + size /\ Word(out + size) = w
  <2>1. out + size \in 1 .. PmemSize /\ Word(out + size) = out + size
    BY <1>0 DEF Word
  <2> QED BY <2>1
<1>3. PICK d \in Nat : /\ d = ALIGN(w, PageSize) /\ d <= w /\ w < d + PageSize
                       /\ w % PageSize = w - d
                       /\ IsMultiple(d, PageSize)
  <2>1. w \in Nat
    BY <1>0
  <2> QED BY <2>1, AlignPage
<1>4. PICK u \in w .. PmemSize : /\ u = ALIGN_UP(w, PageSize)
                                 /\ u = w \/ (d < w /\ u = d + PageSize)
                                 /\ IsMultiple(u, PageSize)
  <2>1. /\ ALIGN_UP(w, PageSize) \in w .. PmemSize
        /\ w % PageSize = 0 \/ ALIGN_UP(w, PageSize) = ALIGN(w, PageSize) + PageSize
    BY <1>0, AlignUpBelow, MemoryAssumption
  <2>2. w % PageSize = 0 => ALIGN_UP(w, PageSize) = w
    BY Zenon DEF ALIGN_UP
  <2>3. CASE w % PageSize = 0
    BY <2>1, <2>2, <2>3, <1>3
  <2>4. CASE w % PageSize # 0
    <3>1. ALIGN_UP(w, PageSize) = d + PageSize /\ d < w
      BY <2>1, <2>4, <1>3
    <3>2. IsMultiple(d + PageSize, PageSize)
      BY <1>0, <1>3, MultipleAdd
    <3> QED BY <2>1, <3>1, <3>2
  <2> QED BY <2>3, <2>4
<1>5. FirstByte(out) = fb /\ LastByte(out, size) = u - 1
  BY <1>1, <1>2, <1>4 DEF FirstByte, LastByte, Pred
<1>6. fb + PageSize <= u
  BY <1>0, <1>1, <1>2, <1>4, MultipleStep
<1> DEFINE g == Grant(out, size, how)
<1>7. \A x : x \in Extent(g) <=>
        x \in Bytes /\ \E y \in out .. out + size - 1 : x \div PageSize = y \div PageSize
  BY DEF Extent, Grant
<1>8. ASSUME NEW x \in Bytes, NEW y \in out .. out + size - 1,
             x \div PageSize = y \div PageSize
      PROVE  fb <= x /\ x <= u - 1
  <2>1. x \in Nat /\ y \in Nat /\ out <= y /\ y < w
    BY <1>2 DEF Bytes
  <2>2. PICK c \in Nat : /\ c = ALIGN(y, PageSize) /\ c = ALIGN(x, PageSize)
                         /\ c <= y /\ y < c + PageSize /\ c <= x /\ x < c + PageSize
                         /\ IsMultiple(c, PageSize)
    BY <2>1, <1>8, AlignPage, SamePage
  <2>3. ~(c < fb)
    BY <2>1, <2>2, <1>0, <1>1, MultipleStep
  <2>4. c + PageSize <= u
    BY <2>1, <2>2, <1>0, <1>4, MultipleStep
  <2> QED BY <2>1, <2>2, <2>3, <2>4, <1>0
<1>9. ASSUME NEW x \in Bytes, fb <= x, x <= u - 1
      PROVE  \E y \in out .. out + size - 1 : x \div PageSize = y \div PageSize
  <2>1. x \in Nat
    BY DEF Bytes
  <2>2. CASE x < out
    <3>1. ALIGN(x, PageSize) = fb
      BY <2>1, <2>2, <1>0, <1>1, <1>9, AlignUnique
    <3>2. x \div PageSize = out \div PageSize
      BY <2>1, <3>1, <1>1, SamePage
    <3>3. out \in out .. out + size - 1
      OBVIOUS
    <3> QED BY <3>2, <3>3, Zenon
  <2>3. CASE out <= x /\ x < w
    <3>1. x \in out .. out + size - 1
      BY <2>1, <2>3, <1>2
    <3> QED BY <3>1, Zenon
  <2>4. CASE w <= x
    <3>1. d < w /\ u = d + PageSize
      BY <2>1, <2>4, <1>4, <1>9
    <3>2. w - 1 \in Nat /\ w - 1 \in out .. out + size - 1
      BY <1>2
    <3>3. ALIGN(x, PageSize) = d /\ ALIGN(w - 1, PageSize) = d
      BY <2>1, <2>4, <3>1, <3>2, <1>0, <1>3, <1>9, AlignUnique
    <3>4. x \div PageSize = (w - 1) \div PageSize
      BY <2>1, <3>2, <3>3, SamePage
    <3> QED BY <3>2, <3>4, Zenon
  <2> QED BY <2>1, <2>2, <2>3, <2>4, <1>2
<1> HIDE DEF g
<1>10. out \in Bytes /\ fb <= out /\ out <= u - 1
  BY <1>0, <1>1, <1>2, <1>4 DEF Bytes
<1>11. \A x \in Bytes : x \in Extent(g) <=> fb <= x /\ x <= u - 1
  BY <1>7, <1>8, <1>9
<1> QED BY <1>0, <1>5, <1>6, <1>10, <1>11 DEF g

-----------------------------------------------------------------------------
(* One claim in bounds: the bytes left are those off its pages.            *)
LEMMA WithoutGrant ==
  ASSUME NEW R, WellFormed(R),
         NEW out \in Nat, NEW size \in Nat, size > 0, out + size <= PmemSize, NEW how
  PROVE  LET g == Grant(out, size, how)
             cut == range_remove(R, FirstByte(out), LastByte(out, size))
         IN  /\ ~RemoveStops(R, FirstByte(out), LastByte(out, size))
             /\ WellFormed(cut)
             /\ Without(R, g) = cut
             /\ \A x \in Bytes : Covers(cut, x) <=> Covers(R, x) /\ x \notin Extent(g)
<1>1. out \in 0 .. WordMod - 1 /\ size \in 0 .. WordMod - 1
  BY WordAssumption, MemoryAssumption
<1>2. /\ FirstByte(out) < LastByte(out, size)
      /\ \A x \in Bytes : x \in Extent(Grant(out, size, how))
                            <=> FirstByte(out) <= x /\ x <= LastByte(out, size)
  BY TakenInBounds
<1>3. PageCut(FirstByte(out), LastByte(out, size))
  BY <1>1, <1>2, TakenPages
<1>4. /\ FirstByte(out) \in Nat /\ LastByte(out, size) \in Nat
      /\ R \subseteq Ranges
  BY <1>3 DEF PageCut, WellFormed
<1>5. \A x \in Bytes : x \in Nat
  BY DEF Bytes
<1>6. \A x \in Bytes : Covers(range_remove(R, FirstByte(out), LastByte(out, size)), x)
            <=> Covers(R, x) /\ ~(FirstByte(out) <= x /\ x <= LastByte(out, size))
  BY <1>4, <1>5, RemoveCovers
<1>7. Without(R, Grant(out, size, how))
        = range_remove(R, FirstByte(out), LastByte(out, size))
  BY DEF Without, Grant
<1> QED BY <1>2, <1>3, <1>6, <1>7, RemoveWellFormed, RemoveGoesOn

(* The regions rom_init claims lie in memory.                              *)
LEMMA RomInBounds ==
  /\ LoaderBase \in Nat /\ LoaderLength \in Nat /\ LoaderLength > 0
  /\ LoaderBase + LoaderLength <= PmemSize
  /\ 4 + 4 <= PmemSize
  /\ claim_arena_start - StackSize \in Nat /\ StackSize \in Nat /\ StackSize > 0
  /\ claim_arena_start - StackSize + StackSize <= PmemSize
<1>1. 0 + PageSize <= StackSize
  <2>1. IsMultiple(0, PageSize)
    BY WordAssumption, SMT DEF IsMultiple
  <2> QED BY <2>1, MultipleStep, WordAssumption, MemoryAssumption
<1> QED BY <1>1, WordAssumption, MemoryAssumption, LoaderAssumption
        DEF claim_arena_start

WholeMemory == {range_alloc(0, PmemSize - 1)}

(* The memory rom_init starts from.                                        *)
LEMMA WholeWellFormed == WellFormed(WholeMemory) /\ \A x \in Bytes : Covers(WholeMemory, x)
<1>1. IsMultiple(0, PageSize) /\ IsMultiple(PmemSize - 1 + 1, PageSize)
  <2>1. PmemSize - 1 + 1 = PmemSize
    BY MemoryAssumption
  <2> QED BY <2>1, WordAssumption, MemoryAssumption, SMT DEF IsMultiple
<1>2. 8 <= PmemSize /\ PmemSize \in Nat
  BY RomInBounds, MemoryAssumption
<1>3. 0 < PmemSize - 1 /\ PmemSize - 1 < PmemSize /\ PmemSize - 1 \in Nat
  BY <1>2
<1> QED BY <1>1, <1>2, <1>3 DEF WholeMemory, WellFormed, DisjointRanges, PageRange, Ranges,
                               range_alloc, Covers, InRange, Bytes

LEMMA InitWellFormed ==
  ASSUME Init
  PROVE  WellFormed(avail) /\ Exact
<1> DEFINE loader     == Grant(LoaderBase, LoaderLength, "rom")
           trampoline == Grant(4, 4, "rom")
           stack      == Grant(claim_arena_start - StackSize, StackSize, "rom")
           R1 == Without(WholeMemory, loader)
           R2 == Without(R1, trampoline)
           R3 == Without(R2, stack)
<1>1. WellFormed(WholeMemory) /\ \A x \in Bytes : Covers(WholeMemory, x)
  BY WholeWellFormed
<1>2. /\ WellFormed(R1)
      /\ \A x \in Bytes : Covers(R1, x) <=> x \notin Extent(loader)
  BY <1>1, WithoutGrant, RomInBounds
<1>3. /\ WellFormed(R2)
      /\ \A x \in Bytes : Covers(R2, x) <=> Covers(R1, x) /\ x \notin Extent(trampoline)
  <2> HIDE DEF R1
  <2> QED BY <1>2, WithoutGrant, RomInBounds
<1>4. /\ WellFormed(R3)
      /\ \A x \in Bytes : Covers(R3, x) <=> Covers(R2, x) /\ x \notin Extent(stack)
  <2> HIDE DEF R2
  <2> QED BY <1>3, WithoutGrant, RomInBounds
<1>5. avail = R3 /\ granted = {loader, trampoline, stack}
  BY DEF Init, RomRegions, WholeMemory
<1> HIDE DEF loader, trampoline, stack, R1, R2, R3
<1> QED BY <1>2, <1>3, <1>4, <1>5 DEF Exact

-----------------------------------------------------------------------------
(* Whatever the client asks for.                                           *)
WideInv == TypeOK /\ AvailWellFormed /\ ReturnedAddressTaken

Shrinks == \A x \in Bytes : Covers(avail', x) => Covers(avail, x)

LEMMA WideInit == Init => WideInv
<1> SUFFICES ASSUME Init PROVE WideInv
  OBVIOUS
<1>1. WellFormed(avail) /\ Exact
  BY InitWellFormed
<1>2. /\ LoaderBase \in Extent(Grant(LoaderBase, LoaderLength, "rom"))
      /\ 4 \in Extent(Grant(4, 4, "rom"))
      /\ claim_arena_start - StackSize
           \in Extent(Grant(claim_arena_start - StackSize, StackSize, "rom"))
  BY RomInBounds, TakenInBounds
<1>3. /\ \A g \in granted : g.out \in Extent(g)
      /\ granted \subseteq Grants
  BY <1>2, RomInBounds DEF Init, RomRegions, Grant, Grants
<1>4. \A g \in granted : g.out \in Bytes
  BY <1>3 DEF Extent
<1>5. ReturnedAddressTaken
  BY <1>1, <1>3, <1>4 DEF Exact, ReturnedAddressTaken
<1>6. claim_arena_ptr \in 0 .. WordMod - 1 /\ alive \in BOOLEAN
  BY WordAssumption, MemoryAssumption DEF Init, claim_arena_start
<1>7. wild \in BOOLEAN
  BY DEF Init
<1> QED BY <1>1, <1>3, <1>5, <1>6, <1>7 DEF WideInv, TypeOK, AvailWellFormed, WellFormed

LEMMA WideTake ==
  ASSUME WideInv, NEW out \in 0 .. WordMod - 1, NEW size \in 0 .. WordMod - 1,
         NEW how \in {"fixed", "arena"}, Take(out, size, how)
  PROVE  /\ avail' \subseteq Ranges /\ granted' \subseteq Grants /\ alive' \in BOOLEAN
         /\ AvailWellFormed' /\ ReturnedAddressTaken' /\ Shrinks
<1> DEFINE b == FirstByte(out)
           l == LastByte(out, size)
<1>1. WellFormed(avail) /\ granted \subseteq Grants /\ alive \in BOOLEAN
  BY DEF WideInv, TypeOK, AvailWellFormed, WellFormed
<1>2. CASE RemoveStops(avail, b, l)
  <2>1. alive' = FALSE /\ avail' = avail /\ granted' = granted
    BY <1>2 DEF Take
  <2> QED BY <1>1, <2>1 DEF WideInv, TypeOK, AvailWellFormed, ReturnedAddressTaken, Shrinks
<1>3. CASE ~RemoveStops(avail, b, l)
  <2>1. /\ avail' = range_remove(avail, b, l)
        /\ granted' = granted \cup {Grant(out, size, how)}
        /\ alive' = alive
    BY <1>3 DEF Take
  <2>2. out \in Nat /\ size \in Nat /\ b \in Nat /\ l \in Nat /\ ~(b >= l)
    BY <1>3, AlignPage, LastByteEndsPage DEF RemoveStops, FirstByte
  <2>3. PageCut(b, l) /\ b <= out /\ out <= l
    BY <2>2, TakenPages
  <2> HIDE DEF b, l
  <2>4. WellFormed(avail')
    BY <1>1, <2>1, <2>3, RemoveWellFormed
  <2>5. \A x \in Nat : Covers(avail', x) <=> Covers(avail, x) /\ ~(b <= x /\ x <= l)
    BY <1>1, <2>1, <2>2, RemoveCovers DEF WellFormed
  <2>6. granted' \subseteq Grants
    BY <1>1, <2>1, <2>2 DEF Grant, Grants
  <2>7. \A g \in granted' : g.out \in Nat
    BY <2>6 DEF Grants
  <2>8. ~Covers(avail', out)
    BY <2>2, <2>3, <2>5
  <2>9. ReturnedAddressTaken'
    BY <2>1, <2>5, <2>7, <2>8 DEF ReturnedAddressTaken, WideInv, Grant
  <2>10. Shrinks
    BY <2>5 DEF Shrinks, Bytes
  <2> QED BY <1>1, <2>1, <2>4, <2>6, <2>9, <2>10 DEF WellFormed, AvailWellFormed
<1> QED BY <1>2, <1>3

LEMMA WideNext == WideInv /\ [Next]_vars => WideInv' /\ (Shrinks \/ UNCHANGED vars)
<1> SUFFICES ASSUME WideInv, [Next]_vars PROVE WideInv' /\ (Shrinks \/ UNCHANGED vars)
  OBVIOUS
<1> USE DEF WideInv
<1>0. wild' \in BOOLEAN
  BY DEF TypeOK, Next, Claim, ClaimFixed, ClaimArena, GetAvailable, vars
<1>1. CASE UNCHANGED vars
  BY <1>1 DEF vars, TypeOK, AvailWellFormed, ReturnedAddressTaken
<1>2. ASSUME NEW size \in Sizes, NEW addr \in Addrs, ClaimFixed(addr, size)
      PROVE  WideInv' /\ Shrinks
  <2>1. addr \in 0 .. WordMod - 1 /\ size \in 0 .. WordMod - 1
    BY RequestAssumption
  <2>2. CASE Refuse
    BY <1>0, <1>2, <2>2 DEF ClaimFixed, Refuse, TypeOK, AvailWellFormed, ReturnedAddressTaken, Shrinks
  <2>3. CASE Take(addr, size, "fixed")
    BY <1>0, <1>2, <2>1, <2>3, WideTake DEF ClaimFixed, TypeOK
  <2> QED BY <1>2, <2>2, <2>3 DEF ClaimFixed
<1>3. ASSUME NEW size \in Sizes, NEW align \in Aligns, ClaimArena(size, align)
      PROVE  WideInv' /\ Shrinks
  <2>1. PICK out : out = ALIGN_UP(claim_arena_ptr, align)
    OBVIOUS
  <2>2. size \in 0 .. WordMod - 1 /\ out \in 0 .. WordMod - 1
    <3>1. align \in 1 .. WordMod /\ IsMultiple(WordMod, align)
      BY WordAssumption, RequestAssumption
    <3>2. claim_arena_ptr \in 0 .. WordMod - 1
      BY DEF TypeOK
    <3> QED BY <2>1, <3>1, <3>2, AlignUpWord, WordAssumption, RequestAssumption
  <2>3. Word(out + size) \in 0 .. WordMod - 1
    BY <2>2, WordAssumption DEF Word
  <2>4. /\ claim_arena_ptr' \in 0 .. WordMod - 1
        /\ Refuse \/ Take(out, size, "arena")
    BY <1>3, <2>1, <2>2, <2>3, Zenon DEF ClaimArena
  <2>5. CASE Refuse
    BY <1>0, <2>4, <2>5 DEF Refuse, TypeOK, AvailWellFormed, ReturnedAddressTaken, Shrinks
  <2>6. CASE Take(out, size, "arena")
    BY <1>0, <2>2, <2>4, <2>6, WideTake DEF TypeOK
  <2> QED BY <2>4, <2>5, <2>6
<1>4. CASE GetAvailable
  BY <1>0, <1>4 DEF GetAvailable, TypeOK, AvailWellFormed, ReturnedAddressTaken, Shrinks
<1> QED BY <1>1, <1>2, <1>3, <1>4 DEF Next, Claim

(* For every size of memory, page and arena and every request, sane or     *)
(* not: rom_claim_ex keeps guest_mem_avail_ranges a list of disjoint runs  *)
(* of whole pages.                                                         *)
THEOREM AvailStaysWellFormed == Spec => []AvailWellFormed
<1>1. WideInv => AvailWellFormed
  BY DEF WideInv
<1> QED BY <1>1, WideInit, WideNext, PTL DEF Spec

(* The pointer and the lists keep their types.                             *)
THEOREM TypeCorrect == Spec => []TypeOK
<1>1. WideInv => TypeOK
  BY DEF WideInv
<1> QED BY <1>1, WideInit, WideNext, PTL DEF Spec

(* No address rom_claim_ex returned is in a range it offers later on.      *)
THEOREM ReturnedStaysTaken == Spec => []ReturnedAddressTaken
<1>1. WideInv => ReturnedAddressTaken
  BY DEF WideInv
<1> QED BY <1>1, WideInit, WideNext, PTL DEF Spec

(* rom_claim_ex never gives a byte back.                                   *)
THEOREM OnlyShrinks == Spec => AvailOnlyShrinks
<1>1. WideInv /\ [Next]_vars => [Shrinks]_vars
  BY WideNext
<1> QED BY <1>1, WideInit, WideNext, PTL DEF Spec, AvailOnlyShrinks, Shrinks

-----------------------------------------------------------------------------
(* No step gives a byte back, and no grant is forgotten.                   *)
Monotone == Shrinks /\ granted \subseteq granted' /\ wild' \in BOOLEAN

LEMMA GrantedGrows ==
  ASSUME WideInv, [Next]_vars
  PROVE  granted \subseteq granted' /\ wild' \in BOOLEAN
<1>1. wild \in BOOLEAN
  BY DEF WideInv, TypeOK
<1>2. ASSUME NEW out, NEW size, NEW how, Take(out, size, how)
      PROVE  granted \subseteq granted'
  BY <1>2 DEF Take
<1>3. granted \subseteq granted'
  BY <1>2, Zenon DEF Next, Claim, ClaimFixed, ClaimArena, Refuse, GetAvailable, vars
<1>4. wild' \in BOOLEAN
  BY <1>1, WideNext DEF WideInv, TypeOK
<1> QED BY <1>3, <1>4

(* What holds until a claim is empty or wraps.                              *)
Sane ==
  /\ Exact /\ BlocksDisjoint /\ alive
  /\ claim_arena_start <= claim_arena_ptr

SaneInv == WideInv /\ (~wild => Sane)

LEMMA MultipleMod ==
  ASSUME NEW x \in Nat, IsMultiple(x, PageSize)
  PROVE  x % PageSize = 0
<1>1. PageSize \in Nat /\ PageSize > 0
  BY WordAssumption
<1>2. ALIGN(x, PageSize) = x
  BY <1>1, AlignUnique
<1> QED BY <1>2, AlignPage

(* The BUG_ONs of rom_getprop_ex: no range it walks trips them.            *)
LEMMA GetAvailableGoesOn ==
  ASSUME WideInv, alive, GetAvailable
  PROVE  alive'
<1>1. SUFFICES ASSUME NEW r \in avail
               PROVE  /\ r.base % PageSize = 0
                      /\ Word(Word(r.limit + WordMod - r.base) + 1) % PageSize = 0
  BY DEF GetAvailable
<1>2. /\ r.base \in Nat /\ r.limit \in Nat /\ r.base < r.limit /\ r.limit < PmemSize
      /\ IsMultiple(r.base, PageSize) /\ IsMultiple(r.limit + 1, PageSize)
  BY DEF WideInv, TypeOK, AvailWellFormed, PageRange, Ranges
<1>3. Word(Word(r.limit + WordMod - r.base) + 1) = r.limit + 1 - r.base
  BY <1>2, WordAssumption, MemoryAssumption DEF Word
<1>4. IsMultiple(r.limit + 1 - r.base, PageSize)
  BY <1>2, MultipleDifference, WordAssumption
<1>5. r.limit + 1 - r.base \in Nat
  BY <1>2
<1> QED BY <1>2, <1>3, <1>4, <1>5, MultipleMod

LEMMA SaneInit == Init => SaneInv
<1> SUFFICES ASSUME Init PROVE SaneInv
  OBVIOUS
<1>1. WideInv /\ Exact
  BY WideInit, InitWellFormed
<1>2. BlocksDisjoint
  BY DEF Init, RomRegions, Grant, BlocksDisjoint
<1>3. claim_arena_start <= claim_arena_ptr
  BY MemoryAssumption DEF Init, claim_arena_start
<1> QED BY <1>1, <1>2, <1>3 DEF SaneInv, Sane, Init

LEMMA SaneTake ==
  ASSUME Exact, WideInv, alive,
         NEW out \in Nat, NEW size \in Nat, size > 0, out + size <= PmemSize,
         NEW how, Take(out, size, how)
  PROVE  /\ Exact' /\ alive'
         /\ granted' = granted \cup {Grant(out, size, how)}
         /\ Extent(Grant(out, size, how)) # {}
         /\ \A x \in Bytes : Covers(avail', x)
              <=> Covers(avail, x) /\ x \notin Extent(Grant(out, size, how))
<1> DEFINE g == Grant(out, size, how)
<1>1. WellFormed(avail)
  BY DEF WideInv, TypeOK, AvailWellFormed, WellFormed
<1>2. /\ ~RemoveStops(avail, FirstByte(out), LastByte(out, size))
      /\ \A x \in Bytes : Covers(range_remove(avail, FirstByte(out), LastByte(out, size)), x)
                            <=> Covers(avail, x) /\ x \notin Extent(g)
  BY <1>1, WithoutGrant
<1>3. /\ avail' = range_remove(avail, FirstByte(out), LastByte(out, size))
      /\ granted' = granted \cup {g}
      /\ alive' = alive
  BY <1>2 DEF Take
<1>4. Extent(g) # {}
  BY TakenInBounds
<1> HIDE DEF g
<1>5. Exact'
  BY <1>2, <1>3 DEF Exact
<1> QED BY <1>2, <1>3, <1>4, <1>5 DEF g

(* What a step that grants something does, and that the others do nothing. *)
GrantStep ==
  \E g \in granted' :
     /\ granted' = granted \cup {g}
     /\ Extent(g) # {}
     /\ \A x \in Bytes : Covers(avail', x) <=> Covers(avail, x) /\ x \notin Extent(g)

LEMMA SaneNext ==
  ASSUME SaneInv, [Next]_vars, ~wild'
  PROVE  /\ ~wild /\ Sane'
         /\ GrantStep \/ UNCHANGED <<avail, granted>>
<1>a. wild \in BOOLEAN /\ WideInv
  BY DEF SaneInv, WideInv, TypeOK
<1>b. ~wild
  BY <1>a DEF Next, Claim, ClaimFixed, ClaimArena, GetAvailable, vars
<1>c. Sane
  BY <1>b DEF SaneInv
<1> USE <1>a, <1>b, <1>c DEF Sane
<1>1. CASE UNCHANGED vars
  BY <1>c, <1>1 DEF vars, Exact, BlocksDisjoint
<1>2. ASSUME NEW size \in Sizes, NEW addr \in Addrs, ClaimFixed(addr, size)
      PROVE  Sane' /\ (GrantStep \/ UNCHANGED <<avail, granted>>)
  <2>1. addr \in Nat /\ size \in Nat /\ size > 0 /\ Word(addr + size) = addr + size
    <3>1. ~Wild(addr, size)
      BY <1>2 DEF ClaimFixed
    <3> QED BY <3>1, RequestAssumption, WordAssumption DEF Wild, Word
  <2>2. CASE addr + size > PmemSize
    BY <1>c, <1>2, <2>1, <2>2 DEF ClaimFixed, Refuse, Exact, BlocksDisjoint
  <2>3. CASE ~(addr + size > PmemSize)
    <3>1. addr + size <= PmemSize /\ Take(addr, size, "fixed")
      BY <1>2, <2>1, <2>3, MemoryAssumption DEF ClaimFixed
    <3>2. /\ Exact' /\ alive' /\ GrantStep
          /\ granted' = granted \cup {Grant(addr, size, "fixed")}
      BY <2>1, <3>1, SaneTake DEF GrantStep
    <3>3. claim_arena_ptr' = claim_arena_ptr
      BY <1>2 DEF ClaimFixed
    <3>4. {g \in granted' : g.how = "arena"} = {g \in granted : g.how = "arena"}
      BY <3>2 DEF Grant
    <3>5. BlocksDisjoint'
      BY <3>3, <3>4 DEF BlocksDisjoint, claim_arena_start, claim_arena_end
    <3> QED BY <1>c, <3>2, <3>3, <3>5
  <2> QED BY <2>2, <2>3
<1>3. ASSUME NEW size \in Sizes, NEW align \in Aligns, ClaimArena(size, align)
      PROVE  Sane' /\ (GrantStep \/ UNCHANGED <<avail, granted>>)
  <2>0. /\ claim_arena_ptr \in Nat /\ claim_arena_start \in Nat /\ claim_arena_end \in Nat
        /\ WordMod \in Nat /\ align \in Nat /\ align > 0 /\ size \in Nat
    BY <1>a, WordAssumption, MemoryAssumption, RequestAssumption
       DEF claim_arena_start, claim_arena_end, WideInv, TypeOK
  <2>a. ~Wild(AlignedUp(claim_arena_ptr, align), size)
    BY <1>3 DEF ClaimArena
  <2>b. /\ size > 0 /\ AlignedUp(claim_arena_ptr, align) \in Nat
        /\ AlignedUp(claim_arena_ptr, align) + size < WordMod
    <3>1. PICK d \in Nat : d = ALIGN(claim_arena_ptr, align)
      BY <2>0, DivBounds
    <3>2. AlignedUp(claim_arena_ptr, align) \in {claim_arena_ptr, d + align}
      BY <3>1, Zenon DEF AlignedUp
    <3>3. AlignedUp(claim_arena_ptr, align) \in Nat
      BY <2>0, <3>1, <3>2
    <3> QED BY <2>0, <2>a, <3>3 DEF Wild
  <2>1. PICK out \in Nat : /\ out = ALIGN_UP(claim_arena_ptr, align)
                          /\ claim_arena_ptr <= out /\ out + size < WordMod
    BY <2>0, <2>b, AlignUpInWord
  <2>2. CASE out >= claim_arena_end
    <3>1. claim_arena_ptr' = out /\ UNCHANGED <<avail, granted, alive>>
      BY <1>3, <2>1, <2>2, Zenon DEF ClaimArena, Refuse
    <3>2. BlocksDisjoint'
      BY <2>0, <2>1, <3>1 DEF BlocksDisjoint, WideInv, TypeOK, Grants,
                              claim_arena_start, claim_arena_end
    <3> QED BY <1>c, <2>0, <2>1, <3>1, <3>2 DEF Exact
  <2>3. CASE ~(out >= claim_arena_end)
    <3>1. Word(out + size) = out + size
      BY <2>0, <2>1 DEF Word
    <3>2. /\ claim_arena_ptr' = out + size
          /\ IF out + size > claim_arena_end THEN Refuse ELSE Take(out, size, "arena")
      BY <1>3, <2>1, <2>3, <3>1, Zenon DEF ClaimArena
    <3>3. CASE out + size > claim_arena_end
      <4>1. UNCHANGED <<avail, granted, alive>>
        BY <3>2, <3>3 DEF Refuse
      <4>2. BlocksDisjoint'
        BY <2>0, <2>1, <3>2, <4>1 DEF BlocksDisjoint, WideInv, TypeOK, Grants,
                                      claim_arena_start, claim_arena_end
      <4> QED BY <1>c, <2>0, <2>1, <3>1, <3>2, <4>1, <4>2 DEF Exact
    <3>4. CASE ~(out + size > claim_arena_end)
      <4>1. out \in Nat /\ out + size <= PmemSize /\ Take(out, size, "arena")
        BY <2>0, <2>1, <3>2, <3>4 DEF claim_arena_end
      <4>2. /\ Exact' /\ alive' /\ GrantStep
            /\ granted' = granted \cup {Grant(out, size, "arena")}
        BY <2>0, <2>b, <4>1, SaneTake DEF GrantStep
      <4>3. ASSUME NEW g \in granted', g.how = "arena"
            PROVE  \/ g = Grant(out, size, "arena")
                   \/ /\ g \in granted
                      /\ g.out \in Nat /\ g.size \in Nat
                      /\ claim_arena_start <= g.out
                      /\ g.out + g.size <= claim_arena_ptr
                      /\ g.out + g.size <= claim_arena_end
        BY <4>2, <4>3 DEF BlocksDisjoint, WideInv, TypeOK, Grants
      <4>4. /\ Grant(out, size, "arena").out = out
            /\ Grant(out, size, "arena").size = size
        BY DEF Grant
      <4>5. ASSUME NEW g \in granted', g.how = "arena"
            PROVE  /\ claim_arena_start <= g.out
                   /\ g.out + g.size <= out + size
                   /\ g.out + g.size <= claim_arena_end
        BY <4>3, <4>4, <4>5, <2>0, <2>1, <3>4
      <4>6. ASSUME NEW g \in granted', g.how = "arena", NEW h \in granted', h.how = "arena",
                   g # h
            PROVE  g.out + g.size <= h.out \/ h.out + h.size <= g.out
        <5>1. CASE g \in granted /\ h \in granted
          BY <4>6, <5>1 DEF BlocksDisjoint
        <5>2. CASE g = Grant(out, size, "arena")
          BY <4>3, <4>4, <4>6, <5>2, <2>0, <2>1
        <5>3. CASE h = Grant(out, size, "arena")
          BY <4>3, <4>4, <4>6, <5>3, <2>0, <2>1
        <5> QED BY <4>3, <4>6, <5>1, <5>2, <5>3
      <4>7. BlocksDisjoint'
        BY <3>2, <4>5, <4>6 DEF BlocksDisjoint, claim_arena_start, claim_arena_end
      <4> QED BY <1>c, <2>0, <2>1, <3>1, <3>2, <4>2, <4>7
    <3> QED BY <3>3, <3>4
  <2> QED BY <2>2, <2>3
<1>4. CASE GetAvailable
  <2>1. alive'
    BY <1>4, GetAvailableGoesOn
  <2> QED BY <1>c, <1>4, <2>1 DEF GetAvailable, Exact, BlocksDisjoint
<1> QED BY <1>1, <1>2, <1>3, <1>4 DEF Next, Claim

(* A step of a client that stays within the word, as FreeMemory sees it.   *)
SaneStep == ~wild' => ~wild /\ (GrantStep \/ UNCHANGED <<avail, granted>>)

LEMMA SaneAlways ==
  Spec => []SaneInv /\ [][SaneStep /\ Monotone]_vars
<1>1. Init => SaneInv
  BY SaneInit
<1>2. SaneInv /\ [Next]_vars => SaneInv' /\ [SaneStep /\ Monotone]_vars
  <2> SUFFICES ASSUME SaneInv, [Next]_vars
               PROVE  SaneInv' /\ SaneStep /\ (Monotone \/ UNCHANGED vars)
    BY DEF vars
  <2>1. WideInv' /\ (Monotone \/ UNCHANGED vars)
    BY WideNext, GrantedGrows DEF SaneInv, Monotone
  <2>2. CASE ~wild'
    BY <2>1, <2>2, SaneNext DEF SaneInv, SaneStep
  <2> QED BY <2>1, <2>2 DEF SaneInv, SaneStep
<1> QED BY <1>1, <1>2, PTL DEF Spec

(* Until a claim is empty or a sum wraps, memory is offered as available   *)
(* exactly where no claim of rom_claim_ex touches the page.                *)
THEOREM ExactUntilWild == Spec => []AvailExact
<1>1. SaneInv => AvailExact
  BY DEF SaneInv, Sane, AvailExact
<1> QED BY <1>1, SaneAlways, PTL

(* Until then, no two blocks of rom_claim_ex's arena share a byte.         *)
THEOREM ArenaUntilWild == Spec => []ArenaBlocksDisjoint
<1>1. SaneInv => ArenaBlocksDisjoint
  BY DEF SaneInv, Sane, ArenaBlocksDisjoint
<1> QED BY <1>1, SaneAlways, PTL

(* rom_claim_ex keeps the promise of module FreeMemory: a step takes one   *)
(* block out of the free bytes, or changes nothing, or voids the promise,  *)
(* and even then gives nothing back.                                       *)
THEOREM ClaimsRefineFreeMemory == Spec => ImplementsFreeMemory
<1> DEFINE free   == {x \in Bytes : Covers(avail, x)}
           blocks == {Extent(g) : g \in granted}
<1>1. Init => Promise!Init
  <2> SUFFICES ASSUME Init PROVE Promise!Init
    OBVIOUS
  <2>1. Exact
    BY InitWellFormed
  <2>2. blocks \subseteq SUBSET Bytes
    BY DEF Extent
  <2>3. free = Bytes \ UNION blocks
    BY <2>1 DEF Exact
  <2> QED BY <2>2, <2>3 DEF Promise!Init, Init
<1>2. SaneInv /\ [SaneStep /\ Monotone]_vars => [Promise!Next]_<<free, blocks, wild>>
  <2> SUFFICES ASSUME SaneInv, [SaneStep /\ Monotone]_vars
               PROVE  [Promise!Next]_<<free, blocks, wild>>
    OBVIOUS
  <2>1. CASE UNCHANGED vars
    BY <2>1 DEF vars
  <2>2. CASE wild' = TRUE /\ Monotone
    <3>1. free' \subseteq free
      BY <2>2 DEF Monotone, Shrinks
    <3>2. blocks \subseteq blocks'
      BY <2>2 DEF Monotone, Extent
    <3>3. Promise!Void
      BY <2>2, <3>1, <3>2 DEF Promise!Void
    <3> QED BY <3>3 DEF Promise!Next
  <2>3. CASE ~wild' /\ ~wild /\ UNCHANGED <<avail, granted>> /\ wild' = wild
    BY <2>3
  <2>4. CASE ~wild' /\ ~wild /\ GrantStep /\ wild' = wild
    <3>1. PICK g \in granted' :
             /\ granted' = granted \cup {g}
             /\ Extent(g) # {}
             /\ \A x \in Bytes : Covers(avail', x) <=> Covers(avail, x) /\ x \notin Extent(g)
      BY <2>4 DEF GrantStep
    <3>2. Extent(g) \subseteq Bytes
      BY DEF Extent
    <3>3. blocks' = blocks \cup {Extent(g)} /\ Extent(g) \in blocks'
      BY <3>1
    <3>4. free' = free \ Extent(g)
      BY <3>1
    <3>5. Promise!Claim(Extent(g))
      BY <2>4, <3>1, <3>2, <3>3, <3>4 DEF Promise!Claim
    <3> QED BY <3>3, <3>5 DEF Promise!Next
  <2>5. wild \in BOOLEAN /\ (Monotone => wild' \in BOOLEAN)
    BY DEF SaneInv, WideInv, TypeOK, Monotone
  <2> QED BY <2>1, <2>2, <2>3, <2>4, <2>5 DEF SaneStep
<1>3. Spec => Init
  BY DEF Spec
<1> HIDE DEF free, blocks
<1> QED BY <1>1, <1>2, <1>3, SaneAlways, PTL DEF ImplementsFreeMemory, Promise!Spec, free, blocks

-----------------------------------------------------------------------------
(* The list_heads of the range blocks and of the list, and their pointers. *)
Nodes == Blocks \cup {HEAD}

Links == [next : Nodes \cup {LIST_POISON1}, prev : Nodes \cup {LIST_POISON2}]

(* The node in the i-th place of a list of the blocks e, which begins and   *)
(* ends with its head.                                                      *)
At(e, i) == IF i \in DOMAIN e THEN e[i] ELSE HEAD

Linked(heap, e) ==
  \A i \in 0 .. Len(e) : heap[At(e, i)].next = At(e, i + 1) /\ heap[At(e, i + 1)].prev = At(e, i)

Chain(heap, e) ==
  /\ heap \in [Nodes -> Links]
  /\ e \in Seq(Blocks)
  /\ \A i, j \in DOMAIN e : e[i] = e[j] => i = j
  /\ Linked(heap, e)

(* A chain has no more blocks than there are.                              *)
LEMMA ChainShort ==
  ASSUME NEW e \in Seq(Blocks), \A i, j \in DOMAIN e : e[i] = e[j] => i = j
  PROVE  /\ Len(e) \in 0 .. MaxBlocks /\ DOMAIN e = 1 .. Len(e)
         /\ IsFiniteSet(Nodes) /\ Cardinality(Nodes) = MaxBlocks + 1
<1>1. MaxBlocks \in Nat
  BY BlocksAssumption
<1>2. IsFiniteSet(Blocks) /\ Cardinality(Blocks) = MaxBlocks
  BY <1>1, FS_Interval DEF Blocks
<1>3. Len(e) \in Nat /\ DOMAIN e = 1 .. Len(e) /\ e \in [1 .. Len(e) -> Blocks]
  OBVIOUS
<1>4. IsFiniteSet(1 .. Len(e)) /\ Cardinality(1 .. Len(e)) = Len(e)
  BY <1>3, FS_Interval, SMTT(60)
<1>5. e \in Injection(1 .. Len(e), Blocks)
  BY <1>3 DEF Injection, IsInjective
<1>6. Len(e) <= MaxBlocks
  BY <1>2, <1>4, <1>5, FS_Injection
<1>7. HEAD \notin Blocks
  BY DEF HEAD, Blocks
<1>8. IsFiniteSet(Nodes) /\ Cardinality(Nodes) = MaxBlocks + 1
  BY <1>2, <1>7, FS_AddElement DEF Nodes
<1> QED BY <1>1, <1>3, <1>6, <1>8

(* The loop over a list visits its blocks.                                 *)
LEMMA ListWalk ==
  ASSUME NEW heap, NEW e, Chain(heap, e)
  PROVE  list_for_each(heap, HEAD) = e
<1> DEFINE m == Len(e)
           n == Cardinality(DOMAIN heap)
           Is(p) == p = [i \in 0 .. n |-> IF i = 0 THEN HEAD ELSE Forward(heap, p[i - 1])]
           pos == CHOOSE p : Is(p)
           ends == {i \in DOMAIN pos \ {0} : pos[i] = HEAD}
           last == IF ends = {} THEN n + 1 ELSE CHOOSE i \in ends : \A j \in ends : i <= j
<1>1. /\ m \in 0 .. MaxBlocks /\ MaxBlocks \in Nat /\ n = MaxBlocks + 1 /\ DOMAIN e = 1 .. m
      /\ DOMAIN heap = Nodes /\ HEAD \notin Blocks /\ e \in [1 .. m -> Blocks]
  BY ChainShort, BlocksAssumption DEF Chain, HEAD, Blocks
<1>2. ASSUME NEW i \in 0 .. m
      PROVE  Forward(heap, At(e, i)) = At(e, i + 1) /\ At(e, i) \in Nodes
  BY <1>1 DEF Chain, Linked, Forward, At, Nodes
<1>3. \E p : Is(p)
  <2> DEFINE p == [i \in 0 .. n |-> At(e, i % (m + 1))]
  <2>1. ASSUME NEW i \in 0 .. n PROVE p[i] = IF i = 0 THEN HEAD ELSE Forward(heap, p[i - 1])
    <3>1. CASE i = 0
      BY <3>1, <1>1 DEF At
    <3>2. CASE i # 0
      <4>1. i - 1 \in 0 .. n /\ i \in Nat /\ i - 1 \in Nat /\ m \in Nat
        BY <3>2, <1>1
      <4>2. PICK k \in 0 .. m : k = (i - 1) % (m + 1)
        BY <4>1
      <4>3. i % (m + 1) = IF k = m THEN 0 ELSE k + 1
        <5> HIDE DEF m, n
        <5>1. PICK q \in Nat : i - 1 = (m + 1) * q + k
          <6>1. /\ (i - 1) \div (m + 1) \in Nat
                /\ i - 1 = (m + 1) * ((i - 1) \div (m + 1)) + ((i - 1) % (m + 1))
            <7>1. \A x \in Nat, a \in Nat : a > 0 => x \div a \in Nat /\ x = a * (x \div a) + (x % a)
              OBVIOUS
            <7>2. m + 1 \in Nat /\ m + 1 > 0
              BY <4>1
            <7> QED BY <4>1, <7>1, <7>2
          <6> QED BY <6>1, <4>2
        <5>2. CASE k = m
          <6>1. i = (m + 1) * (q + 1) + 0
            BY <4>1, <5>1, <5>2
          <6> QED BY <6>1, <4>1, <5>2, DivUnique
        <5>3. CASE k # m
          <6>1. i = (m + 1) * q + (k + 1) /\ k + 1 < m + 1 /\ k + 1 \in Nat
            BY <4>1, <5>1, <5>3
          <6> QED BY <6>1, <4>1, <5>3, DivUnique
        <5> QED BY <5>2, <5>3
      <4>4. At(e, m + 1) = At(e, 0)
        BY <1>1 DEF At
      <4>5. p[i] = At(e, k + 1)
        BY <4>1, <4>3, <4>4
      <4> QED BY <3>2, <4>1, <4>2, <4>5, <1>2
    <3> QED BY <3>1, <3>2
  <2>2. Is(p)
    BY <2>1
  <2> QED BY <2>2
<1>4. Is(pos)
  BY <1>3
<1> HIDE DEF pos
<1>5. DOMAIN pos = 0 .. n /\ pos[0] = HEAD
      /\ \A i \in 0 .. n : i # 0 => pos[i] = Forward(heap, pos[i - 1])
  BY <1>1, <1>4
<1>6. \A i \in 0 .. m + 1 : pos[i] = At(e, i)
  <2> DEFINE S == {i \in Nat : i <= m + 1 => pos[i] = At(e, i)}
  <2>1. 0 \in S
    BY <1>1, <1>5 DEF At
  <2>2. ASSUME NEW i \in Nat, i \in S PROVE i + 1 \in S
    <3>1. SUFFICES ASSUME i + 1 <= m + 1 PROVE pos[i + 1] = At(e, i + 1)
      BY <2>2
    <3>2. i \in 0 .. m /\ i + 1 \in 0 .. n /\ (i + 1) - 1 = i /\ pos[i] = At(e, i)
      BY <3>1, <2>2, <1>1
    <3> QED BY <3>2, <1>2, <1>5
  <2> HIDE DEF S
  <2>3. Nat \subseteq S
    BY <2>1, <2>2, SetInduction
  <2> QED BY <2>3, <1>1 DEF S
<1>7. m + 1 \in ends /\ \A j \in ends : m + 1 <= j
  <2>1. m + 1 \in ends
    BY <1>1, <1>5, <1>6, SMTT(60) DEF At
  <2>2. ASSUME NEW j \in ends, j < m + 1 PROVE FALSE
    <3>1. j \in 1 .. m /\ pos[j] = HEAD
      BY <1>1, <1>5, <2>2
    <3>2. pos[j] = e[j] /\ e[j] \in Blocks
      BY <3>1, <1>1, <1>6 DEF At
    <3> QED BY <3>1, <3>2, <1>1
  <2>3. ends \subseteq Nat
    BY <1>1, <1>5
  <2> QED BY <2>1, <2>2, <2>3, <1>1
<1>8. last = m + 1
  BY <1>7, <1>1, <1>5, SMTT(60)
<1>9. [i \in 1 .. last - 1 |-> pos[i]] = e
  <2>1. ASSUME NEW i \in 1 .. m PROVE pos[i] = e[i]
    BY <2>1, <1>6, <1>1 DEF At
  <2>2. last - 1 = m
    <3> HIDE DEF last
    <3> QED BY <1>8, <1>1
  <2>3. [i \in 1 .. m |-> pos[i]] = [i \in 1 .. m |-> e[i]]
    BY <2>1, Zenon
  <2> QED BY <2>2, <2>3, <1>1
<1> QED BY <1>9 DEF list_for_each, pos

-----------------------------------------------------------------------------
(* The blocks with b put before the k-th, and with the k-th taken out.     *)
Inserted(e, k, b) ==
  [i \in 1 .. Len(e) + 1 |-> IF i < k THEN e[i] ELSE IF i = k THEN b ELSE e[i - 1]]

Removed(e, k) == [i \in 1 .. Len(e) - 1 |-> IF i < k THEN e[i] ELSE e[i + 1]]

(* A function on 1 .. n is a sequence, and 1 .. n tells n.                 *)
LEMMA SeqMade ==
  ASSUME NEW S, NEW n \in Nat, NEW f \in [1 .. n -> S]
  PROVE  f \in Seq(S) /\ Len(f) = n /\ DOMAIN f = 1 .. n
  OBVIOUS

LEMMA IntervalEnd ==
  ASSUME NEW x \in Nat, NEW y \in Nat, 1 .. x = 1 .. y
  PROVE  x = y
<1>1. x > y => x \in 1 .. x /\ x \notin 1 .. y
  OBVIOUS
<1>2. y > x => y \in 1 .. y /\ y \notin 1 .. x
  OBVIOUS
<1> QED BY <1>1, <1>2

(* What the other lemmas need to know of a chain.                          *)
LEMMA ChainFact ==
  ASSUME NEW heap, NEW e, Chain(heap, e)
  PROVE  /\ Len(e) \in Nat /\ DOMAIN e = 1 .. Len(e) /\ e \in [1 .. Len(e) -> Blocks]
         /\ HEAD \notin Blocks /\ heap \in [Nodes -> Links]
         /\ \A i, j \in 1 .. Len(e) : e[i] = e[j] => i = j
         /\ Len(e) <= MaxBlocks /\ MaxBlocks \in Nat
<1>1. e \in Seq(Blocks)
  BY DEF Chain
<1>2. Len(e) \in Nat /\ DOMAIN e = 1 .. Len(e) /\ e \in [1 .. Len(e) -> Blocks]
  BY <1>1
<1>3. heap \in [Nodes -> Links] /\ \A i, j \in 1 .. Len(e) : e[i] = e[j] => i = j
  BY <1>2 DEF Chain
<1>4. Len(e) <= MaxBlocks /\ MaxBlocks \in Nat
  BY <1>1, ChainShort, BlocksAssumption DEF Chain
<1>5. HEAD \notin Blocks
  BY DEF HEAD, Blocks
<1> QED BY <1>2, <1>3, <1>4, <1>5

(* list_add_tail in front of a node of the list.                           *)
LEMMA ChainInsert ==
  ASSUME NEW heap, NEW e, Chain(heap, e), NEW b \in Blocks,
         NEW k \in 1 .. Len(e) + 1, \A i \in DOMAIN e : e[i] # b
  PROVE  Chain(list_add_tail(INIT_LIST_HEAD(heap, b), b, At(e, k)), Inserted(e, k, b))
<1> DEFINE m == Len(e)
           d == Inserted(e, k, b)
           next == At(e, k)
           prev == At(e, k - 1)
           new == list_add_tail(INIT_LIST_HEAD(heap, b), b, next)
<1>1. /\ m \in Nat /\ k \in 1 .. m + 1 /\ DOMAIN e = 1 .. m /\ e \in [1 .. m -> Blocks]
      /\ HEAD \notin Blocks /\ heap \in [Nodes -> Links] /\ b \in Nodes /\ b # HEAD
  BY ChainFact DEF Nodes
<1>2. \A i \in Int : At(e, i) \in Nodes /\ At(e, i) # b
  BY <1>1 DEF At, Nodes
<1>3. heap[prev].next = next /\ heap[next].prev = prev
  <2>1. k - 1 \in 0 .. m /\ (k - 1) + 1 = k
    BY <1>1
  <2> QED BY <2>1 DEF Chain, Linked
<1>4. /\ new \in [Nodes -> Links]
      /\ new[next].prev = b /\ new[b].next = next /\ new[b].prev = prev /\ new[prev].next = b
      /\ \A x \in Nodes : x # next /\ x # b => new[x].prev = heap[x].prev
      /\ \A x \in Nodes : x # prev /\ x # b => new[x].next = heap[x].next
  <2> HIDE DEF next, prev
  <2>1. next \in Nodes /\ next # b /\ prev \in Nodes /\ prev # b
    BY <1>1, <1>2 DEF next, prev
  <2> DEFINE h == INIT_LIST_HEAD(heap, b)
  <2>2. h \in [Nodes -> Links] /\ \A x \in Nodes : x # b => h[x] = heap[x]
    BY <1>1 DEF INIT_LIST_HEAD, LIST_HEAD_INIT, Links
  <2>3. new = __list_add(h, b, prev, next)
    BY <1>3, <2>1, <2>2 DEF list_add_tail
  <2> HIDE DEF h
  <2> DEFINE h1 == [h EXCEPT ![next].prev = b]
             h2 == [h1 EXCEPT ![b].next = next]
             h3 == [h2 EXCEPT ![b].prev = prev]
             h4 == [h3 EXCEPT ![prev].next = b]
  <2>4. h1 \in [Nodes -> Links] /\ h1[next].prev = b
        /\ \A x \in Nodes : (x # next => h1[x].prev = h[x].prev) /\ h1[x].next = h[x].next
    BY <1>1, <2>1, <2>2 DEF Links
  <2> HIDE DEF h1
  <2>5. h2 \in [Nodes -> Links] /\ h2[b].next = next
        /\ \A x \in Nodes : (x # b => h2[x].next = h1[x].next) /\ h2[x].prev = h1[x].prev
    BY <1>1, <2>1, <2>4 DEF Links
  <2> HIDE DEF h2
  <2>6. h3 \in [Nodes -> Links] /\ h3[b].prev = prev
        /\ \A x \in Nodes : (x # b => h3[x].prev = h2[x].prev) /\ h3[x].next = h2[x].next
    BY <1>1, <2>1, <2>5 DEF Links
  <2> HIDE DEF h3
  <2>7. h4 \in [Nodes -> Links] /\ h4[prev].next = b
        /\ \A x \in Nodes : (x # prev => h4[x].next = h3[x].next) /\ h4[x].prev = h3[x].prev
    BY <1>1, <2>1, <2>6 DEF Links
  <2>8. new = h4
    BY <2>3 DEF __list_add, h1, h2, h3
  <2> HIDE DEF h4, new
  <2> QED BY <1>1, <2>1, <2>2, <2>4, <2>5, <2>6, <2>7, <2>8
<1>5. d \in Seq(Blocks) /\ Len(d) = m + 1 /\ DOMAIN d = 1 .. m + 1
  <2>1. d \in [1 .. m + 1 -> Blocks]
    BY <1>1 DEF Inserted
  <2> QED BY <2>1, <1>1, SeqMade
<1>6. \A i, j \in DOMAIN d : d[i] = d[j] => i = j
  BY <1>1, <1>5 DEF Inserted, Chain
<1> DEFINE from(i) == IF i < k THEN i ELSE i - 1
<1>7. \A i \in 0 .. m + 2 : At(d, i) = IF i = k THEN b ELSE At(e, from(i))
  BY <1>1, <1>5 DEF Inserted, At
<1>8. ASSUME NEW i \in Int, NEW j \in Int, i \in 0 .. m + 1, j \in 0 .. m + 1, At(e, i) = At(e, j)
      PROVE  i = j \/ (i = 0 /\ j = m + 1) \/ (i = m + 1 /\ j = 0)
  BY <1>1, <1>8 DEF At, Chain
<1>9. ASSUME NEW i \in 0 .. m + 1
      PROVE  new[At(d, i)].next = At(d, i + 1) /\ new[At(d, i + 1)].prev = At(d, i)
  <2>1. CASE i = k
    <3>1. At(d, i) = b /\ At(d, i + 1) = At(e, k)
      BY <2>1, <1>1, <1>7
    <3> QED BY <3>1, <1>4
  <2>2. CASE i + 1 = k
    <3>1. At(d, i + 1) = b /\ At(d, i) = At(e, k - 1)
      BY <2>2, <1>1, <1>7
    <3> QED BY <3>1, <1>4
  <2>3. CASE i # k /\ i + 1 # k
    <3>1. PICK j \in 0 .. m : /\ j = from(i) /\ At(d, i) = At(e, j) /\ At(d, i + 1) = At(e, j + 1)
                             /\ j # k - 1
      BY <2>3, <1>1, <1>7, SMTT(60)
    <3>2. heap[At(e, j)].next = At(e, j + 1) /\ heap[At(e, j + 1)].prev = At(e, j)
      BY DEF Chain, Linked
    <3>3. At(e, j) # prev /\ At(e, j + 1) # next
      <4>1. At(e, j) # At(e, k - 1)
        BY <3>1, <1>1, <1>8
      <4>2. At(e, j + 1) # At(e, k)
        BY <3>1, <1>1, <1>8
      <4> QED BY <4>1, <4>2
    <3>4. At(e, j) \in Nodes /\ At(e, j) # b /\ At(e, j + 1) \in Nodes /\ At(e, j + 1) # b
      BY <1>2
    <3> HIDE DEF new, next, prev
    <3> QED BY <3>1, <3>2, <3>3, <3>4, <1>4
  <2> QED BY <2>1, <2>2, <2>3
<1> HIDE DEF d, new
<1>10. Linked(new, d)
  BY <1>5, <1>9 DEF Linked
<1> QED BY <1>4, <1>5, <1>6, <1>10 DEF Chain, d, new

(* list_del of a block of the list.                                        *)
LEMMA ChainRemove ==
  ASSUME NEW heap, NEW e, Chain(heap, e), NEW k \in 1 .. Len(e)
  PROVE  Chain(list_del(heap, e[k]), Removed(e, k))
<1> DEFINE m == Len(e)
           d == Removed(e, k)
           b == e[k]
           next == At(e, k + 1)
           prev == At(e, k - 1)
           new == list_del(heap, b)
<1>1. /\ m \in Nat /\ k \in 1 .. m /\ DOMAIN e = 1 .. m /\ e \in [1 .. m -> Blocks]
      /\ HEAD \notin Blocks /\ heap \in [Nodes -> Links] /\ b \in Nodes /\ b # HEAD
      /\ \A i, j \in 1 .. m : e[i] = e[j] => i = j
  <2>1. b \in Blocks
    BY ChainFact
  <2> QED BY <2>1, ChainFact DEF Nodes
<1>2. \A i \in Int : At(e, i) \in Nodes /\ (i # k => At(e, i) # b)
  BY <1>1 DEF At, Nodes
<1>3. heap[b].next = next /\ heap[b].prev = prev
  <2>1. k - 1 \in 0 .. m /\ (k - 1) + 1 = k /\ k \in 0 .. m /\ At(e, k) = b
    BY <1>1 DEF At
  <2> QED BY <2>1 DEF Chain, Linked
<1>4. /\ new \in [Nodes -> Links]
      /\ new[next].prev = prev /\ new[prev].next = next
      /\ \A x \in Nodes : x # next /\ x # b => new[x].prev = heap[x].prev
      /\ \A x \in Nodes : x # prev /\ x # b => new[x].next = heap[x].next
  <2> HIDE DEF next, prev, b
  <2>1. next \in Nodes /\ next # b /\ prev \in Nodes /\ prev # b
    BY <1>1, <1>2 DEF next, prev
  <2> DEFINE h == __list_del(heap, prev, next)
  <2>2. /\ h \in [Nodes -> Links] /\ h[next].prev = prev /\ h[prev].next = next
        /\ \A x \in Nodes : x # next => h[x].prev = heap[x].prev
        /\ \A x \in Nodes : x # prev => h[x].next = heap[x].next
    BY <1>1, <2>1, SMTT(60) DEF __list_del, Links
  <2>3. new = [h EXCEPT ![b] = [next |-> LIST_POISON1, prev |-> LIST_POISON2]]
    BY <1>3 DEF list_del
  <2> HIDE DEF h, new
  <2>4. [next |-> LIST_POISON1, prev |-> LIST_POISON2] \in Links
    BY DEF Links
  <2> QED BY <1>1, <2>1, <2>2, <2>3, <2>4
<1>5. d \in Seq(Blocks) /\ Len(d) = m - 1 /\ DOMAIN d = 1 .. m - 1
  <2>1. d \in [1 .. m - 1 -> Blocks] /\ m - 1 \in Nat
    BY <1>1 DEF Removed
  <2> QED BY <2>1, <1>1, SeqMade
<1>6. \A i, j \in DOMAIN d : d[i] = d[j] => i = j
  BY <1>1, <1>5 DEF Removed
<1> DEFINE from(i) == IF i < k THEN i ELSE i + 1
<1>7. \A i \in 0 .. m : At(d, i) = At(e, from(i))
  BY <1>1, <1>5 DEF Removed, At
<1>8. ASSUME NEW i \in Int, NEW j \in Int, i \in 0 .. m + 1, j \in 0 .. m + 1, At(e, i) = At(e, j)
      PROVE  i = j \/ (i = 0 /\ j = m + 1) \/ (i = m + 1 /\ j = 0)
  BY <1>1, <1>8 DEF At
<1>9. ASSUME NEW i \in 0 .. m - 1
      PROVE  new[At(d, i)].next = At(d, i + 1) /\ new[At(d, i + 1)].prev = At(d, i)
  <2>1. CASE i = k - 1
    <3>1. At(d, i) = At(e, k - 1) /\ At(d, i + 1) = At(e, k + 1)
      BY <2>1, <1>1, <1>7
    <3> QED BY <3>1, <1>4
  <2>2. CASE i # k - 1
    <3>1. PICK j \in 0 .. m : /\ j = from(i) /\ At(d, i) = At(e, j) /\ At(d, i + 1) = At(e, j + 1)
                             /\ j # k - 1 /\ j # k
      <4>1. from(i) \in 0 .. m /\ from(i + 1) = from(i) + 1 /\ from(i) # k - 1 /\ from(i) # k
        BY <2>2, <1>1
      <4>2. At(d, i) = At(e, from(i)) /\ At(d, i + 1) = At(e, from(i + 1))
        <5>1. i \in 0 .. m /\ i + 1 \in 0 .. m
          BY <1>1
        <5> QED BY <5>1, <1>7
      <4> QED BY <4>1, <4>2
    <3>2. heap[At(e, j)].next = At(e, j + 1) /\ heap[At(e, j + 1)].prev = At(e, j)
      BY DEF Chain, Linked
    <3>3. At(e, j) # prev /\ At(e, j + 1) # next
      <4>1. At(e, j) # At(e, k - 1)
        BY <3>1, <1>1, <1>8
      <4>2. At(e, j + 1) # At(e, k + 1)
        BY <3>1, <1>1, <1>8, SMTT(60)
      <4> QED BY <4>1, <4>2
    <3>4. At(e, j) \in Nodes /\ At(e, j) # b /\ At(e, j + 1) \in Nodes /\ At(e, j + 1) # b
      BY <1>2, <3>1
    <3> HIDE DEF new, next, prev, b
    <3> QED BY <3>1, <3>2, <3>3, <3>4, <1>4
  <2> QED BY <2>1, <2>2
<1> HIDE DEF d, new
<1>10. Linked(new, d)
  BY <1>5, <1>9 DEF Linked
<1> QED BY <1>4, <1>5, <1>6, <1>10 DEF Chain, d, new

-----------------------------------------------------------------------------
(* L is a list of the page ranges in the blocks e, sorted, with every block *)
(* in use on it.                                                            *)
Good(L, e) ==
  /\ L \in [link : [Nodes -> Links], range : [Blocks -> Ranges], stopped : {FALSE}]
  /\ Chain(L.link, e)
  /\ \A b \in Blocks : L.range[b] # Free <=> \E i \in DOMAIN e : e[i] = b
  /\ \A i \in DOMAIN e : PageRange(L.range[e[i]])
  /\ \A i, j \in DOMAIN e : i < j => L.range[e[i]].limit < L.range[e[j]].base

(* What the other lemmas need to know of such a list.                      *)
LEMMA GoodFact ==
  ASSUME NEW L, NEW e, Good(L, e)
  PROVE  /\ Chain(L.link, e) /\ Len(e) \in Nat /\ DOMAIN e = 1 .. Len(e)
         /\ e \in [1 .. Len(e) -> Blocks]
         /\ L.link \in [Nodes -> Links] /\ L.range \in [Blocks -> Ranges] /\ L.stopped = FALSE
         /\ L \in [link : [Nodes -> Links], range : [Blocks -> Ranges], stopped : {FALSE}]
         /\ \A i, j \in 1 .. Len(e) : e[i] = e[j] => i = j
         /\ \A i \in 1 .. Len(e) : /\ e[i] \in Blocks /\ L.range[e[i]] \in Ranges
                                  /\ PageRange(L.range[e[i]])
                                  /\ L.range[e[i]].base \in Nat /\ L.range[e[i]].limit \in Nat
                                  /\ L.range[e[i]].base < L.range[e[i]].limit
         /\ \A i, j \in 1 .. Len(e) : i < j => L.range[e[i]].limit < L.range[e[j]].base
<1>1. Chain(L.link, e)
      /\ L \in [link : [Nodes -> Links], range : [Blocks -> Ranges], stopped : {FALSE}]
  BY DEF Good
<1>2. /\ Len(e) \in Nat /\ DOMAIN e = 1 .. Len(e) /\ e \in [1 .. Len(e) -> Blocks]
      /\ \A i, j \in 1 .. Len(e) : e[i] = e[j] => i = j
  BY <1>1, ChainFact
<1>3. \A i, j \in 1 .. Len(e) : i < j => L.range[e[i]].limit < L.range[e[j]].base
  BY <1>2 DEF Good
<1>4. ASSUME NEW i \in 1 .. Len(e)
      PROVE  /\ e[i] \in Blocks /\ L.range[e[i]] \in Ranges
             /\ PageRange(L.range[e[i]])
             /\ L.range[e[i]].base \in Nat /\ L.range[e[i]].limit \in Nat
             /\ L.range[e[i]].base < L.range[e[i]].limit
  <2>1. e[i] \in Blocks /\ L.range[e[i]] \in Ranges /\ PageRange(L.range[e[i]])
    BY <1>1, <1>2 DEF Good
  <2> QED BY <2>1 DEF Ranges, PageRange
<1> QED BY <1>1, <1>2, <1>3, <1>4

(* malloc finds a block as long as not all are on the list.                *)
LEMMA MallocFree ==
  ASSUME NEW L, NEW e, Good(L, e), Len(e) < MaxBlocks
  PROVE  malloc(L) \in Blocks /\ L.range[malloc(L)] = Free
<1> DEFINE none == {b \in Blocks : L.range[b] = Free}
<1>1. /\ Len(e) \in Nat /\ DOMAIN e = 1 .. Len(e) /\ e \in [1 .. Len(e) -> Blocks]
      /\ MaxBlocks \in Nat
  BY GoodFact, BlocksAssumption
<1>2. none # {}
  <2>1. SUFFICES ASSUME none = {} PROVE FALSE
    OBVIOUS
  <2>2. \A b \in Blocks : \E i \in 1 .. Len(e) : e[i] = b
    BY <2>1, <1>1 DEF Good
  <2>3. e \in Surjection(1 .. Len(e), Blocks)
    BY <1>1, <2>2 DEF Surjection
  <2>4. /\ IsFiniteSet(1 .. Len(e)) /\ Cardinality(1 .. Len(e)) = Len(e)
        /\ Cardinality(Blocks) = MaxBlocks
    <3>1. \A n \in Nat : IsFiniteSet(1 .. n) /\ Cardinality(1 .. n) = n
      BY FS_Interval
    <3> QED BY <3>1, <1>1 DEF Blocks
  <2> QED BY <2>3, <2>4, <1>1, FS_Surjection
<1>3. none \subseteq Nat
  BY DEF Blocks
<1>4. \E m \in none : \A n \in none : m <= n
  BY <1>2, <1>3, LeastNatural
<1>5. \E b \in Blocks : L.range[b] = Free /\ \A c \in Blocks : c < b => L.range[c] # Free
  <2>1. PICK m \in none : \A n \in none : m <= n
    BY <1>4
  <2>2. ASSUME NEW c \in Blocks, c < m PROVE L.range[c] # Free
    BY <2>1, <2>2, <1>3
  <2> QED BY <2>1, <2>2
<1> QED BY <1>5 DEF malloc

(* range_add puts a range where the list stays sorted.                     *)
LEMMA AddGood ==
  ASSUME NEW L, NEW e, Good(L, e), Len(e) < MaxBlocks,
         NEW base \in Nat, NEW limit \in Nat, PageRange(range_alloc(base, limit)),
         NEW k \in 1 .. Len(e) + 1,
         \A i \in 1 .. Len(e) : IF i < k THEN L.range[e[i]].limit < base
                                ELSE limit < L.range[e[i]].base
  PROVE  LET M == RangeAdd(L, base, limit)
             b == malloc(L)
         IN  /\ Good(M, Inserted(e, k, b))
             /\ b \in Blocks /\ \A i \in 1 .. Len(e) : e[i] # b
             /\ M.range = [L.range EXCEPT ![b] = range_alloc(base, limit)]
<1> DEFINE M == RangeAdd(L, base, limit)
           b == malloc(L)
           d == Inserted(e, k, b)
           m == Len(e)
           past == {i \in DOMAIN e : L.range[e[i]].base > limit}
           before == IF past = {} THEN m + 1 ELSE CHOOSE i \in past : \A j \in past : i <= j
<1>0. /\ Chain(L.link, e) /\ m \in Nat /\ DOMAIN e = 1 .. m /\ e \in [1 .. m -> Blocks]
      /\ L.link \in [Nodes -> Links] /\ L.range \in [Blocks -> Ranges] /\ L.stopped = FALSE
      /\ L \in [link : [Nodes -> Links], range : [Blocks -> Ranges], stopped : {FALSE}]
      /\ k \in Nat /\ k <= m + 1 /\ 1 <= k
  <2>1. /\ Chain(L.link, e) /\ m \in Nat /\ DOMAIN e = 1 .. m /\ e \in [1 .. m -> Blocks]
        /\ L.link \in [Nodes -> Links] /\ L.range \in [Blocks -> Ranges] /\ L.stopped = FALSE
        /\ L \in [link : [Nodes -> Links], range : [Blocks -> Ranges], stopped : {FALSE}]
    BY GoodFact
  <2>2. m \in Nat => k \in Nat /\ k <= m + 1 /\ 1 <= k
    <3> HIDE DEF M, b, d, past, before
    <3> QED OBVIOUS
  <2> QED BY <2>1, <2>2
<1>r. ASSUME NEW i \in 1 .. m
      PROVE  /\ e[i] \in Blocks /\ L.range[e[i]] \in Ranges /\ PageRange(L.range[e[i]])
             /\ L.range[e[i]].base \in Nat /\ L.range[e[i]].limit \in Nat
             /\ L.range[e[i]].base < L.range[e[i]].limit
             /\ i < k => L.range[e[i]].limit < base
             /\ i >= k => limit < L.range[e[i]].base
  <2>1. /\ e[i] \in Blocks /\ L.range[e[i]] \in Ranges /\ PageRange(L.range[e[i]])
        /\ L.range[e[i]].base \in Nat /\ L.range[e[i]].limit \in Nat
        /\ L.range[e[i]].base < L.range[e[i]].limit
    BY GoodFact
  <2>2. IF i < k THEN L.range[e[i]].limit < base ELSE limit < L.range[e[i]].base
    OBVIOUS
  <2>3. i >= k => ~(i < k)
    BY <1>0
  <2> QED BY <2>1, <2>2, <2>3
<1>s. \A i, j \in 1 .. m : i < j => L.range[e[i]].limit < L.range[e[j]].base
  BY GoodFact
<1>1. /\ b \in Blocks /\ L.range[b] = Free
      /\ base < limit
  BY MallocFree DEF PageRange, range_alloc
<1>2. \A i \in 1 .. m : e[i] # b
  BY <1>0, <1>1 DEF Good
<1>3. list_for_each(L.link, HEAD) = e
  BY GoodFact, ListWalk
<1>4. past = k .. m
  <2>1. ASSUME NEW i \in 1 .. m PROVE L.range[e[i]].base > limit <=> i >= k
    <3>1. ASSUME i < k PROVE ~(L.range[e[i]].base > limit)
      <4>1. /\ L.range[e[i]].base \in Nat /\ L.range[e[i]].limit \in Nat
            /\ L.range[e[i]].base < L.range[e[i]].limit /\ L.range[e[i]].limit < base
        BY <3>1, <1>r
      <4> HIDE DEF M, b, d, past, before
      <4> QED BY <4>1, <1>1, SMTT(60)
    <3>2. i >= k => L.range[e[i]].base > limit
      BY <1>r
    <3> QED BY <3>1, <3>2, <1>0
  <2> QED BY <2>1, <1>0
<1>5. before = k /\ (IF past = {} THEN HEAD ELSE e[before]) = At(e, k)
  <2>1. CASE k = m + 1
    <3>1. past = {}
      BY <1>4, <2>1, <1>0
    <3> QED BY <3>1, <2>1, <1>0 DEF At
  <2>2. CASE k # m + 1
    <3>1. k \in past /\ \A j \in past : k <= j
      BY <1>4, <2>2, <1>0
    <3>2. past # {} /\ before = k
      <4>1. past \subseteq Nat
        BY <1>4, <1>0
      <4> HIDE DEF past
      <4>2. \A i \in past : (\A j \in past : i <= j) => i = k
        BY <3>1, <4>1, <1>0
      <4>3. (CHOOSE i \in past : \A j \in past : i <= j) = k
        BY <3>1, <4>2
      <4> QED BY <3>1, <4>3
    <3>3. k \in DOMAIN e
      BY <2>2, <1>0
    <3> HIDE DEF past, before
    <3> QED BY <3>2, <3>3 DEF At
  <2> QED BY <2>1, <2>2
<1>6. ~(base >= limit)
      /\ ~\E i \in 1 .. before - 1 : L.range[e[i]].base <= base /\ limit <= L.range[e[i]].limit
  <2> HIDE DEF before
  <2>1. before = k
    BY <1>5
  <2>2. ASSUME NEW i \in 1 .. k - 1 PROVE ~(limit <= L.range[e[i]].limit)
    <3>1. i \in 1 .. m /\ i < k
      BY <1>0
    <3> QED BY <3>1, <1>r, <1>1
  <2> QED BY <1>1, <2>1, <2>2
<1>7. M = [L EXCEPT !.link = list_add_tail(INIT_LIST_HEAD(@, b), b, At(e, k)),
                    !.range[b] = range_alloc(base, limit)]
  <2> DEFINE stops == \/ base >= limit
                      \/ \E i \in 1 .. before - 1 : /\ L.range[e[i]].base <= base
                                                   /\ limit <= L.range[e[i]].limit
  <2>1. M = [L EXCEPT !.link = list_add_tail(INIT_LIST_HEAD(@, b), b,
                                             IF past = {} THEN HEAD ELSE e[before]),
                      !.range[b] = range_alloc(base, limit),
                      !.stopped = @ \/ stops]
    BY <1>3 DEF RangeAdd
  <2>2. stops = FALSE /\ L.stopped = FALSE
    BY <1>6, <1>0
  <2> HIDE DEF past, before, b, stops, M
  <2>3. M = [L EXCEPT !.link = list_add_tail(INIT_LIST_HEAD(@, b), b, At(e, k)),
                      !.range[b] = range_alloc(base, limit),
                      !.stopped = @]
    BY <1>5, <2>1, <2>2
  <2> QED BY <2>3, <1>0
<1>8. Chain(M.link, d) /\ M.range = [L.range EXCEPT ![b] = range_alloc(base, limit)]
      /\ M.stopped = FALSE /\ M = [link |-> M.link, range |-> M.range, stopped |-> M.stopped]
  <2> DEFINE h == list_add_tail(INIT_LIST_HEAD(L.link, b), b, At(e, k))
  <2>1. Chain(h, d)
    BY <1>0, <1>1, <1>2, ChainInsert
  <2>2. M.link = h /\ M.range = [L.range EXCEPT ![b] = range_alloc(base, limit)] /\ M.stopped = FALSE
        /\ M = [link |-> M.link, range |-> M.range, stopped |-> M.stopped]
    <3> HIDE DEF M, b
    <3>1. M = [L EXCEPT !.link = h, !.range[b] = range_alloc(base, limit)]
      BY <1>7, <1>0
    <3> HIDE DEF h
    <3> QED BY <3>1, <1>0
  <2> QED BY <2>1, <2>2
<1> HIDE DEF M, b
<1>9. range_alloc(base, limit) \in Ranges /\ range_alloc(base, limit) # Free
      /\ range_alloc(base, limit).base = base /\ range_alloc(base, limit).limit = limit
  BY <1>1 DEF Ranges, range_alloc, Free
<1>10. Len(d) = m + 1 /\ DOMAIN d = 1 .. m + 1 /\ m \in Nat
       /\ \A i \in 1 .. m + 1 : d[i] = IF i < k THEN e[i] ELSE IF i = k THEN b ELSE e[i - 1]
  <2>1. m \in Nat /\ DOMAIN d = 1 .. m + 1
    BY <1>0 DEF Inserted
  <2>2. Len(d) \in Nat /\ DOMAIN d = 1 .. Len(d)
    BY <1>8, ChainFact
  <2> QED BY <2>1, <2>2 DEF Inserted
<1> HIDE DEF d
<1>11. M \in [link : [Nodes -> Links], range : [Blocks -> Ranges], stopped : {FALSE}]
  <2>1. M.link \in [Nodes -> Links]
    BY <1>8, ChainFact
  <2>2. M.range \in [Blocks -> Ranges]
    BY <1>8, <1>9, <1>1, <1>0
  <2> QED BY <2>1, <2>2, <1>8
<1>12. ASSUME NEW c \in Blocks PROVE M.range[c] # Free <=> \E i \in DOMAIN d : d[i] = c
  <2>1. CASE c = b
    <3>1. d[k] = b /\ k \in DOMAIN d
      BY <1>10
    <3> QED BY <2>1, <3>1, <1>8, <1>9, <1>0, <1>1
  <2>2. CASE c # b
    <3>1. M.range[c] = L.range[c]
      BY <2>2, <1>8, <1>0
    <3>2. L.range[c] # Free <=> \E i \in 1 .. m : e[i] = c
      BY <1>0 DEF Good
    <3>3. (\E i \in 1 .. m : e[i] = c) => \E i \in 1 .. m + 1 : d[i] = c
      <4>1. SUFFICES ASSUME NEW i \in 1 .. m, e[i] = c PROVE \E j \in 1 .. m + 1 : d[j] = c
        OBVIOUS
      <4>2. i < k => d[i] = c
        BY <4>1, <1>10
      <4>3. i >= k => d[i + 1] = c
        BY <4>1, <1>10
      <4> QED BY <4>2, <4>3, <1>10
    <3>4. (\E i \in 1 .. m + 1 : d[i] = c) => \E i \in 1 .. m : e[i] = c
      BY <2>2, <1>10
    <3> QED BY <3>1, <3>2, <3>3, <3>4, <1>10
  <2> QED BY <2>1, <2>2
<1>13. ASSUME NEW i \in 1 .. m + 1
       PROVE  /\ i = k => M.range[d[i]] = range_alloc(base, limit)
              /\ i < k => i \in 1 .. m /\ M.range[d[i]] = L.range[e[i]]
              /\ i > k => i - 1 \in 1 .. m /\ M.range[d[i]] = L.range[e[i - 1]]
  <2>1. M.range[b] = range_alloc(base, limit) /\ \A c \in Blocks : c # b => M.range[c] = L.range[c]
    BY <1>0, <1>1, <1>8
  <2>2. i = k => M.range[d[i]] = range_alloc(base, limit)
    BY <2>1, <1>10
  <2>3. ASSUME i < k PROVE i \in 1 .. m /\ M.range[d[i]] = L.range[e[i]]
    BY <2>1, <2>3, <1>0, <1>2, <1>10
  <2>4. ASSUME i > k PROVE i - 1 \in 1 .. m /\ M.range[d[i]] = L.range[e[i - 1]]
    BY <2>1, <2>4, <1>0, <1>2, <1>10
  <2> QED BY <2>2, <2>3, <2>4
<1>14. \A i \in DOMAIN d : PageRange(M.range[d[i]])
  <2>1. SUFFICES ASSUME NEW i \in 1 .. m + 1 PROVE PageRange(M.range[d[i]])
    BY <1>10
  <2>2. i < k \/ i = k \/ i > k
    BY <1>0
  <2> QED BY <2>2, <1>13, <1>r
<1>15. ASSUME NEW i \in 1 .. m + 1, NEW j \in 1 .. m + 1, i < j
       PROVE  M.range[d[i]].limit < M.range[d[j]].base
  <2>0. i \in Nat /\ j \in Nat
    BY <1>0
  <2>1. CASE j < k
    BY <2>0, <2>1, <1>13, <1>15, <1>s, <1>0
  <2>2. CASE j = k
    BY <2>0, <2>2, <1>13, <1>15, <1>r, <1>9, <1>0
  <2>3. CASE i < k /\ k < j
    <3>1. M.range[d[i]] = L.range[e[i]] /\ M.range[d[j]] = L.range[e[j - 1]]
          /\ i \in 1 .. m /\ j - 1 \in 1 .. m
      BY <2>3, <1>13
    <3>2. i < j - 1 \/ i = j - 1
      BY <2>0, <2>3, <1>0
    <3>3. L.range[e[i]].limit < base /\ limit < L.range[e[j - 1]].base
      BY <2>0, <2>3, <3>1, <1>r, <1>0
    <3>4. L.range[e[i]].limit \in Nat /\ L.range[e[j - 1]].base \in Nat
      BY <3>1, <1>r
    <3> QED BY <3>1, <3>3, <3>4, <1>1, SMTT(60)
  <2>4. CASE i = k
    BY <2>0, <2>4, <1>13, <1>15, <1>r, <1>9, <1>0
  <2>5. CASE i > k
    BY <2>0, <2>5, <1>13, <1>15, <1>s, <1>0, SMTT(60)
  <2> QED BY <2>0, <2>1, <2>2, <2>3, <2>4, <2>5, <1>0
<1>16. Good(M, d)
  BY <1>8, <1>10, <1>11, <1>12, <1>14, <1>15 DEF Good
<1> QED BY <1>1, <1>2, <1>8, <1>16 DEF M, b, d

(* The block b given the range q; the block b taken out and freed.         *)
SetRange(L, b, q) == [L EXCEPT !.range[b] = q]

Freed(L, b) == [L EXCEPT !.link = list_del(@, b), !.range[b] = Free]

(* Where its front or its tail is cut off, a range stays in its block.      *)
LEMMA TrimGood ==
  ASSUME NEW L, NEW e, Good(L, e), NEW k \in 1 .. Len(e),
         NEW q \in Ranges, PageRange(q),
         L.range[e[k]].base <= q.base, q.limit <= L.range[e[k]].limit,
         NEW M, M = SetRange(L, e[k], q)
  PROVE  /\ Good(M, e) /\ M.range[e[k]] = q
         /\ \A i \in 1 .. Len(e) : i # k => M.range[e[i]] = L.range[e[i]]
<1> DEFINE m == Len(e)
<1>1. /\ Chain(L.link, e) /\ m \in Nat /\ DOMAIN e = 1 .. m /\ e \in [1 .. m -> Blocks]
      /\ L.link \in [Nodes -> Links] /\ L.range \in [Blocks -> Ranges] /\ L.stopped = FALSE
      /\ L \in [link : [Nodes -> Links], range : [Blocks -> Ranges], stopped : {FALSE}]
      /\ \A i, j \in 1 .. m : e[i] = e[j] => i = j
  BY GoodFact
<1>2. \A i \in 1 .. m : /\ e[i] \in Blocks /\ L.range[e[i]] \in Ranges /\ PageRange(L.range[e[i]])
                        /\ L.range[e[i]].base \in Nat /\ L.range[e[i]].limit \in Nat
                        /\ L.range[e[i]].base < L.range[e[i]].limit
  BY GoodFact
<1>3. \A i, j \in 1 .. m : i < j => L.range[e[i]].limit < L.range[e[j]].base
  BY GoodFact
<1>4. /\ M \in [link : [Nodes -> Links], range : [Blocks -> Ranges], stopped : {FALSE}]
      /\ M.link = L.link /\ M.range[e[k]] = q
      /\ \A c \in Blocks : c # e[k] => M.range[c] = L.range[c]
  <2>1. e[k] \in Blocks
    BY <1>2
  <2> QED BY <1>1, <2>1 DEF SetRange
<1>5. q.base \in Nat /\ q.limit \in Nat /\ q.base < q.limit /\ q # Free
  BY DEF Ranges, PageRange, Free, range_alloc
<1>6. \A c \in Blocks : M.range[c] # Free <=> \E i \in DOMAIN e : e[i] = c
  <2>1. \A c \in Blocks : L.range[c] # Free <=> \E i \in DOMAIN e : e[i] = c
    BY DEF Good
  <2> QED BY <1>1, <1>4, <1>5, <2>1
<1>7. \A i \in 1 .. m : i # k => M.range[e[i]] = L.range[e[i]]
  BY <1>1, <1>2, <1>4
<1>8. \A i \in DOMAIN e : PageRange(M.range[e[i]])
  BY <1>1, <1>2, <1>4, <1>7
<1>9. ASSUME NEW i \in 1 .. m, NEW j \in 1 .. m, i < j
      PROVE  M.range[e[i]].limit < M.range[e[j]].base
  <2>1. L.range[e[i]].limit < L.range[e[j]].base
    BY <1>3, <1>9
  <2>2. /\ L.range[e[i]].limit \in Nat /\ L.range[e[j]].base \in Nat
        /\ L.range[e[k]].limit \in Nat /\ L.range[e[k]].base \in Nat
    BY <1>2
  <2>3. CASE i = k
    <3>1. M.range[e[i]] = q /\ M.range[e[j]] = L.range[e[j]]
      BY <2>3, <1>1, <1>9, <1>4, <1>7
    <3>2. q.limit <= L.range[e[i]].limit
      BY <2>3
    <3> QED BY <3>1, <3>2, <2>1, <2>2, <1>5, SMTT(60)
  <2>4. CASE j = k
    <3>1. M.range[e[j]] = q /\ M.range[e[i]] = L.range[e[i]]
      BY <2>4, <1>1, <1>9, <1>4, <1>7
    <3>2. L.range[e[j]].base <= q.base
      BY <2>4
    <3> QED BY <3>1, <3>2, <2>1, <2>2, <1>5, SMTT(60)
  <2>5. CASE i # k /\ j # k
    BY <2>1, <2>5, <1>7
  <2> QED BY <2>3, <2>4, <2>5
<1>10. Good(M, e)
  BY <1>1, <1>4, <1>6, <1>8, <1>9 DEF Good
<1> QED BY <1>4, <1>7, <1>10

(* A range that is cut away whole leaves the list, and its block is free.   *)
LEMMA DeleteGood ==
  ASSUME NEW L, NEW e, Good(L, e), NEW k \in 1 .. Len(e),
         NEW M, M = Freed(L, e[k])
  PROVE  /\ Good(M, Removed(e, k))
         /\ \A i \in 1 .. Len(e) : i # k => M.range[e[i]] = L.range[e[i]]
<1> DEFINE m == Len(e)
           d == Removed(e, k)
<1>1. /\ Chain(L.link, e) /\ m \in Nat /\ DOMAIN e = 1 .. m /\ e \in [1 .. m -> Blocks]
      /\ L.link \in [Nodes -> Links] /\ L.range \in [Blocks -> Ranges] /\ L.stopped = FALSE
      /\ L \in [link : [Nodes -> Links], range : [Blocks -> Ranges], stopped : {FALSE}]
      /\ \A i, j \in 1 .. m : e[i] = e[j] => i = j
  BY GoodFact
<1>2. \A i \in 1 .. m : e[i] \in Blocks /\ PageRange(L.range[e[i]])
  BY GoodFact
<1>3. \A i, j \in 1 .. m : i < j => L.range[e[i]].limit < L.range[e[j]].base
  BY GoodFact
<1>4. Chain(list_del(L.link, e[k]), d)
  BY <1>1, ChainRemove
<1>5. Free \in Ranges
  BY DEF Free, Ranges, range_alloc
<1>6. /\ M \in [link : [Nodes -> Links], range : [Blocks -> Ranges], stopped : {FALSE}]
      /\ M.link = list_del(L.link, e[k]) /\ M.range[e[k]] = Free
      /\ \A c \in Blocks : c # e[k] => M.range[c] = L.range[c]
  <2>1. e[k] \in Blocks
    BY <1>2
  <2>2. list_del(L.link, e[k]) \in [Nodes -> Links]
    BY <1>4, ChainFact
  <2> DEFINE h == list_del(L.link, e[k])
  <2>3. M = [L EXCEPT !.link = h, !.range[e[k]] = Free]
    BY <1>1 DEF Freed
  <2> HIDE DEF h
  <2>4. h \in [Nodes -> Links]
    BY <2>2 DEF h
  <2>5. /\ M \in [link : [Nodes -> Links], range : [Blocks -> Ranges], stopped : {FALSE}]
        /\ M.link = h /\ M.range[e[k]] = Free
        /\ \A c \in Blocks : c # e[k] => M.range[c] = L.range[c]
    <3> DEFINE f == [L.range EXCEPT ![e[k]] = Free]
    <3>1. f \in [Blocks -> Ranges] /\ f[e[k]] = Free /\ \A c \in Blocks : c # e[k] => f[c] = L.range[c]
      BY <1>1, <1>5, <2>1
    <3>2. M = [link |-> h, range |-> f, stopped |-> FALSE]
      BY <1>1, <2>3
    <3> HIDE DEF f
    <3> QED BY <3>1, <3>2, <2>4
  <2> QED BY <2>5 DEF h
<1>7. Len(d) = m - 1 /\ DOMAIN d = 1 .. m - 1
      /\ \A i \in 1 .. m - 1 : d[i] = IF i < k THEN e[i] ELSE e[i + 1]
  <2>1. m \in Nat /\ DOMAIN d = 1 .. m - 1 /\ m - 1 \in Nat
    BY <1>1 DEF Removed
  <2>2. Len(d) \in Nat /\ DOMAIN d = 1 .. Len(d)
    BY <1>4, ChainFact
  <2> QED BY <2>1, <2>2 DEF Removed
<1> HIDE DEF d
<1>8. \A i \in 1 .. m : i # k => M.range[e[i]] = L.range[e[i]]
  BY <1>1, <1>2, <1>6
<1>9. ASSUME NEW i \in 1 .. m - 1
      PROVE  /\ i < k => i \in 1 .. m /\ d[i] = e[i] /\ M.range[d[i]] = L.range[e[i]]
             /\ i >= k => i + 1 \in 1 .. m /\ d[i] = e[i + 1] /\ M.range[d[i]] = L.range[e[i + 1]]
  BY <1>1, <1>7, <1>8
<1>10. ASSUME NEW c \in Blocks PROVE M.range[c] # Free <=> \E i \in DOMAIN d : d[i] = c
  <2>1. L.range[c] # Free <=> \E i \in 1 .. m : e[i] = c
    BY <1>1 DEF Good
  <2>2. CASE c = e[k]
    <3>1. ASSUME NEW i \in 1 .. m - 1, d[i] = c PROVE FALSE
      BY <3>1, <2>2, <1>1, <1>9
    <3> QED BY <3>1, <2>2, <1>6, <1>7
  <2>3. CASE c # e[k]
    <3>1. ASSUME NEW i \in 1 .. m, e[i] = c PROVE \E j \in 1 .. m - 1 : d[j] = c
      <4>1. i # k
        BY <3>1, <2>3
      <4>2. CASE i < k
        <5>1. i \in 1 .. m - 1
          BY <4>2, <1>1
        <5> QED BY <5>1, <4>2, <3>1, <1>7
      <4>3. CASE i > k
        <5>1. i - 1 \in 1 .. m - 1 /\ ~(i - 1 < k) /\ (i - 1) + 1 = i
          BY <4>3, <1>1
        <5> QED BY <5>1, <3>1, <1>7
      <4> QED BY <4>1, <4>2, <4>3, <1>1
    <3>2. ASSUME NEW j \in 1 .. m - 1, d[j] = c PROVE \E i \in 1 .. m : e[i] = c
      BY <3>2, <1>1, <1>9
    <3> QED BY <3>1, <3>2, <2>1, <2>3, <1>6, <1>7
  <2> QED BY <2>2, <2>3
<1>11. \A i \in DOMAIN d : PageRange(M.range[d[i]])
  BY <1>1, <1>2, <1>7, <1>9
<1>12. ASSUME NEW i \in 1 .. m - 1, NEW j \in 1 .. m - 1, i < j
       PROVE  M.range[d[i]].limit < M.range[d[j]].base
  <2>1. PICK x \in 1 .. m : x = (IF i < k THEN i ELSE i + 1) /\ M.range[d[i]] = L.range[e[x]]
    BY <1>9, <1>1
  <2>2. PICK y \in 1 .. m : y = (IF j < k THEN j ELSE j + 1) /\ M.range[d[j]] = L.range[e[y]]
    BY <1>9, <1>1
  <2>3. x < y
    BY <2>1, <2>2, <1>12, <1>1
  <2> QED BY <2>1, <2>2, <2>3, <1>3
<1>13. Good(M, d)
  BY <1>4, <1>6, <1>7, <1>10, <1>11, <1>12 DEF Good
<1> QED BY <1>8, <1>13 DEF d

(* M, with the blocks d, is the list L with q blocks instead of the k-th.   *)
Replaced(L, e, k, M, d, q) ==
  /\ Good(M, d) /\ Len(d) = Len(e) + q - 1
  /\ \A i \in 1 .. k - 1 : d[i] = e[i] /\ M.range[e[i]] = L.range[e[i]]
  /\ \A i \in k + 1 .. Len(e) : d[i + q - 1] = e[i] /\ M.range[e[i]] = L.range[e[i]]

(* A cut of b .. l takes the middle of r.                                  *)
Splits(r, b, l) == r.base < b /\ l < r.limit

(* The body of range_remove's loop replaces a block by what remains of it. *)
LEMMA CutGood ==
  ASSUME NEW L, NEW e, Good(L, e), NEW k \in 1 .. Len(e), NEW b, NEW l, PageCut(b, l),
         Splits(L.range[e[k]], b, l) => Len(e) < MaxBlocks
  PROVE  \E q \in 0 .. 2 : \E d :
           /\ Replaced(L, e, k, Cut(L, e[k], b, l), d, q)
           /\ {Cut(L, e[k], b, l).range[d[i]] : i \in k .. k + q - 1} = Remains(L.range[e[k]], b, l)
           /\ q = 2 => Splits(L.range[e[k]], b, l)
<1> DEFINE at == e[k]
           r == L.range[at]
           M == Cut(L, at, b, l)
           m == Len(e)
           Result(d, q) == /\ Replaced(L, e, k, M, d, q)
                           /\ {M.range[d[i]] : i \in k .. k + q - 1} = Remains(r, b, l)
                           /\ q = 2 => Splits(r, b, l)
<1>1. /\ m \in Nat /\ k \in 1 .. m /\ DOMAIN e = 1 .. m /\ at \in Blocks
      /\ L \in [link : [Nodes -> Links], range : [Blocks -> Ranges], stopped : {FALSE}]
      /\ r \in Ranges /\ PageRange(r) /\ r.base \in Nat /\ r.limit \in Nat /\ r.base < r.limit
      /\ r = [base |-> r.base, limit |-> r.limit]
  <2>1. /\ m \in Nat /\ DOMAIN e = 1 .. m /\ at \in Blocks
        /\ L \in [link : [Nodes -> Links], range : [Blocks -> Ranges], stopped : {FALSE}]
        /\ r \in Ranges /\ PageRange(r) /\ r.base \in Nat /\ r.limit \in Nat /\ r.base < r.limit
    BY GoodFact
  <2>2. r = [base |-> r.base, limit |-> r.limit]
    BY <2>1 DEF Ranges
  <2> QED BY <2>1, <2>2
<1>2. b \in Nat /\ l \in Nat /\ b < l
  BY DEF PageCut
<1>3. k .. k = {k} /\ k + 1 - 1 = k /\ m + 1 - 1 = m /\ \A i \in Nat : i + 1 - 1 = i
  BY <1>1
<1>4. ASSUME NEW f \in Ranges, Remains(r, b, l) = {f}, M = SetRange(L, at, f)
      PROVE  Result(e, 1)
  <2>1. f \in Remains(r, b, l)
    BY <1>4
  <2>2. PageRange(f) /\ r.base <= f.base /\ f.limit <= r.limit
    BY <2>1, <1>1, <1>2, RemainsPages, RemainsInside
  <2>3. /\ Good(M, e) /\ M.range[at] = f
        /\ \A i \in 1 .. m : i # k => M.range[e[i]] = L.range[e[i]]
    <3> HIDE DEF M
    <3> QED BY <1>4, <2>2, TrimGood
  <2> HIDE DEF M
  <2>4. \A i \in k + 1 .. m : i + 1 - 1 = i /\ i \in 1 .. m /\ i # k
    BY <1>1
  <2>5. \A i \in 1 .. k - 1 : i \in 1 .. m /\ i # k
    BY <1>1
  <2>6. Replaced(L, e, k, M, e, 1)
    BY <1>3, <2>3, <2>4, <2>5 DEF Replaced
  <2>7. {M.range[e[i]] : i \in k .. k + 1 - 1} = {f}
    BY <1>3, <2>3
  <2> QED BY <1>4, <2>6, <2>7
<1>5. CASE r.base > l \/ r.limit < b
  <2>1. Remains(r, b, l) = {r}
    BY <1>5 DEF Remains
  <2>2. M = SetRange(L, at, r)
    BY <1>1, <1>5 DEF Cut, SetRange
  <2>3. Result(e, 1)
    BY <1>1, <1>4, <2>1, <2>2
  <2> HIDE DEF Result
  <2>4. \E q \in 0 .. 2 : \E d : Result(d, q)
    BY <2>3
  <2> QED BY <2>4 DEF Result
<1>6. CASE ~(r.base > l \/ r.limit < b) /\ r.base >= b /\ r.limit <= l
  <2>1. Remains(r, b, l) = {}
    BY <1>1, <1>2, <1>6 DEF Remains
  <2>2. M = Freed(L, e[k])
    BY <1>6 DEF Cut, Freed
  <2> DEFINE d == Removed(e, k)
  <2>3. Good(M, d) /\ \A i \in 1 .. m : i # k => M.range[e[i]] = L.range[e[i]]
    <3> HIDE DEF M
    <3> QED BY <2>2, DeleteGood
  <2> HIDE DEF M
  <2>4. /\ Len(d) = m + 0 - 1
        /\ \A i \in 1 .. k - 1 : d[i] = e[i] /\ i \in 1 .. m /\ i # k
        /\ \A i \in k + 1 .. m : d[i + 0 - 1] = e[i] /\ i \in 1 .. m /\ i # k
    <3>1. Len(d) \in Nat /\ DOMAIN d = 1 .. Len(d)
      BY <2>3, GoodFact
    <3>2. DOMAIN d = 1 .. m - 1
      BY DEF Removed
    <3>3. ASSUME NEW i \in k + 1 .. m PROVE d[i + 0 - 1] = e[i] /\ i \in 1 .. m /\ i # k
      <4>1. i + 0 - 1 = i - 1 /\ i - 1 \in 1 .. m - 1 /\ ~(i - 1 < k) /\ (i - 1) + 1 = i
        BY <1>1
      <4> QED BY <4>1, <1>1 DEF Removed
    <3>4. ASSUME NEW i \in 1 .. k - 1 PROVE d[i] = e[i] /\ i \in 1 .. m /\ i # k
      BY <1>1, SMTT(60) DEF Removed
    <3>5. Len(d) = m + 0 - 1
      <4>1. m - 1 \in Nat /\ m + 0 - 1 = m - 1
        BY <1>1
      <4> QED BY <3>1, <3>2, <4>1, IntervalEnd
    <3> QED BY <3>3, <3>4, <3>5
  <2> HIDE DEF d
  <2>5. Replaced(L, e, k, M, d, 0)
    BY <2>3, <2>4 DEF Replaced
  <2>6. k .. k + 0 - 1 = {}
    BY <1>1
  <2>7. {M.range[d[i]] : i \in k .. k + 0 - 1} = {}
    BY <2>6
  <2>8. Result(d, 0)
    BY <2>1, <2>5, <2>7
  <2> HIDE DEF Result
  <2>9. \E q \in 0 .. 2 : \E c : Result(c, q)
    BY <2>8
  <2> QED BY <2>9 DEF Result, M
<1>7. CASE ~(r.base > l \/ r.limit < b) /\ r.base >= b /\ ~(r.limit <= l)
  <2> DEFINE f == range_alloc(l + 1, r.limit)
  <2>1. Remains(r, b, l) = {f}
    BY <1>1, <1>2, <1>7 DEF Remains
  <2>2. f \in Ranges /\ f = [base |-> l + 1, limit |-> r.limit]
    BY <1>1, <1>2 DEF Ranges, range_alloc
  <2>3. M = [L EXCEPT !.range[at].base = l + 1]
    BY <1>7 DEF Cut
  <2>4. M = SetRange(L, at, f)
    <3>1. [r EXCEPT !.base = l + 1] = f
      BY <1>1, <2>2
    <3> HIDE DEF f, M
    <3> QED BY <1>1, <2>3, <3>1 DEF SetRange
  <2>5. Result(e, 1)
    BY <1>4, <2>1, <2>2, <2>4
  <2> HIDE DEF Result
  <2>6. \E q \in 0 .. 2 : \E d : Result(d, q)
    BY <2>5
  <2> QED BY <2>6 DEF Result
<1>8. CASE ~(r.base > l \/ r.limit < b) /\ ~(r.base >= b) /\ r.limit <= l
  <2> DEFINE f == range_alloc(r.base, b - 1)
  <2>1. Remains(r, b, l) = {f}
    BY <1>1, <1>2, <1>8 DEF Remains
  <2>2. f \in Ranges /\ f = [base |-> r.base, limit |-> b - 1]
    BY <1>1, <1>2, <1>8 DEF Ranges, range_alloc
  <2>3. M = [L EXCEPT !.range[at].limit = b - 1]
    BY <1>8 DEF Cut
  <2>4. M = SetRange(L, at, f)
    <3>1. [r EXCEPT !.limit = b - 1] = f
      BY <1>1, <2>2
    <3> HIDE DEF f, M
    <3> QED BY <1>1, <2>3, <3>1 DEF SetRange
  <2>5. Result(e, 1)
    BY <1>4, <2>1, <2>2, <2>4
  <2> HIDE DEF Result
  <2>6. \E q \in 0 .. 2 : \E d : Result(d, q)
    BY <2>5
  <2> QED BY <2>6 DEF Result
<1>9. CASE ~(r.base > l \/ r.limit < b) /\ ~(r.base >= b) /\ ~(r.limit <= l)
  <2> DEFINE f == range_alloc(l + 1, r.limit)
             g == range_alloc(r.base, b - 1)
             L1 == SetRange(L, at, f)
             n == malloc(L1)
             d == Inserted(e, k, n)
  <2>1. Remains(r, b, l) = {f, g}
    BY <1>1, <1>2, <1>9 DEF Remains
  <2>2. /\ f \in Ranges /\ f = [base |-> l + 1, limit |-> r.limit]
        /\ g \in Ranges /\ g = [base |-> r.base, limit |-> b - 1] /\ g.base = r.base /\ g.limit = b - 1
        /\ f.base = l + 1 /\ f.limit = r.limit
    BY <1>1, <1>2, <1>9 DEF Ranges, range_alloc
  <2>3. /\ PageRange(f) /\ r.base <= f.base /\ f.limit <= r.limit
        /\ PageRange(g) /\ r.base <= g.base /\ g.limit <= r.limit
    <3>1. f \in Remains(r, b, l) /\ g \in Remains(r, b, l)
      BY <2>1
    <3> HIDE DEF f, g
    <3> QED BY <3>1, <1>1, <1>2, RemainsPages, RemainsInside
  <2>4. M = RangeAdd(L1, r.base, b - 1)
    <3>1. M = RangeAdd([L EXCEPT !.range[at].base = l + 1], r.base, b - 1)
      BY <1>9 DEF Cut
    <3>2. [L EXCEPT !.range[at].base = l + 1] = L1
      <4>1. [r EXCEPT !.base = l + 1] = f
        BY <1>1, <2>2, SMTT(60)
      <4> HIDE DEF f
      <4> QED BY <1>1, <4>1 DEF SetRange
    <3> HIDE DEF L1, M
    <3> QED BY <3>1, <3>2
  <2>5. /\ Good(L1, e) /\ L1.range[at] = f
        /\ \A i \in 1 .. m : i # k => L1.range[e[i]] = L.range[e[i]]
    <3> HIDE DEF f, L1
    <3>1. L1 = SetRange(L, e[k], f)
      BY DEF L1
    <3> QED BY <3>1, <2>2, <2>3, TrimGood
  <2> HIDE DEF L1, f
  <2>6. Len(e) < MaxBlocks
    BY <1>9, <1>1, <1>2 DEF Splits
  <2>7. \A i \in 1 .. m : IF i < k THEN L1.range[e[i]].limit < r.base
                          ELSE b - 1 < L1.range[e[i]].base
    <3>1. SUFFICES ASSUME NEW i \in 1 .. m
                   PROVE  IF i < k THEN L1.range[e[i]].limit < r.base
                          ELSE b - 1 < L1.range[e[i]].base
      OBVIOUS
    <3>2. \A x, y \in 1 .. m : x < y => L.range[e[x]].limit < L.range[e[y]].base
      BY GoodFact
    <3>3. CASE i < k
      <4>1. L1.range[e[i]] = L.range[e[i]] /\ L.range[e[i]].limit < r.base
        BY <3>2, <3>3, <2>5, <1>1
      <4> QED BY <4>1, <3>3
    <3>4. CASE i = k
      <4>1. L1.range[e[i]].base = l + 1
        BY <3>4, <2>2, <2>5
      <4> QED BY <4>1, <3>4, <1>1, <1>2
    <3>5. CASE i > k
      <4>1. L1.range[e[i]] = L.range[e[i]] /\ r.limit < L.range[e[i]].base
        BY <3>2, <3>5, <2>5, <1>1
      <4>2. L.range[e[i]].base \in Nat
        BY GoodFact
      <4> QED BY <4>1, <4>2, <3>5, <1>1, <1>2, <1>9
    <3> QED BY <3>3, <3>4, <3>5, <1>1
  <2>8. /\ Good(M, d) /\ n \in Blocks /\ \A i \in 1 .. m : e[i] # n
        /\ M.range = [L1.range EXCEPT ![n] = g]
    <3>1. b - 1 \in Nat /\ PageRange(range_alloc(r.base, b - 1)) /\ k \in 1 .. Len(e) + 1
      BY <2>3, <1>1, <1>2, <1>9 DEF g
    <3> DEFINE N == RangeAdd(L1, r.base, b - 1)
    <3>2. /\ Good(N, d) /\ n \in Blocks /\ \A i \in 1 .. m : e[i] # n
          /\ N.range = [L1.range EXCEPT ![n] = range_alloc(r.base, b - 1)]
      <4> HIDE DEF N
      <4> QED BY <3>1, <2>5, <2>6, <2>7, <1>1, AddGood, SMTT(60) DEF N
    <3> HIDE DEF N, M, d, n
    <3> QED BY <3>2, <2>4 DEF N, g
  <2> HIDE DEF M, n
  <2>9. /\ Len(d) = m + 2 - 1
        /\ d[k] = n /\ d[k + 1] = e[k]
        /\ \A i \in 1 .. k - 1 : d[i] = e[i] /\ i \in 1 .. m /\ i # k
        /\ \A i \in k + 1 .. m : d[i + 2 - 1] = e[i] /\ i \in 1 .. m /\ i # k
    <3>1. Len(d) \in Nat /\ DOMAIN d = 1 .. Len(d)
      BY <2>8, GoodFact
    <3>2. DOMAIN d = 1 .. m + 1
      BY DEF Inserted
    <3>3. ASSUME NEW i \in k + 1 .. m PROVE d[i + 2 - 1] = e[i] /\ i \in 1 .. m /\ i # k
      <4>1. i + 2 - 1 = i + 1 /\ i + 1 \in 1 .. m + 1 /\ ~(i + 1 < k) /\ i + 1 # k /\ (i + 1) - 1 = i
        BY <1>1
      <4> QED BY <4>1, <1>1 DEF Inserted
    <3>4. ASSUME NEW i \in 1 .. k - 1 PROVE d[i] = e[i] /\ i \in 1 .. m /\ i # k
      BY <1>1, SMTT(60) DEF Inserted
    <3>5. Len(d) = m + 2 - 1
      <4>1. m + 1 \in Nat /\ m + 2 - 1 = m + 1
        BY <1>1
      <4> QED BY <3>1, <3>2, <4>1, IntervalEnd
    <3>6. d[k] = n /\ d[k + 1] = e[k]
      BY <1>1 DEF Inserted
    <3> QED BY <3>3, <3>4, <3>5, <3>6
  <2> HIDE DEF d
  <2>10. /\ M.range[n] = g /\ M.range[e[k]] = f
         /\ \A i \in 1 .. m : i # k => M.range[e[i]] = L.range[e[i]]
    <3>1. L1.range \in [Blocks -> Ranges] /\ \A i \in 1 .. m : e[i] \in Blocks
      BY <2>5, GoodFact
    <3> QED BY <3>1, <2>5, <2>8, <1>1
  <2>11. Replaced(L, e, k, M, d, 2)
    BY <2>8, <2>9, <2>10 DEF Replaced
  <2>12. k .. k + 2 - 1 = {k, k + 1}
    BY <1>1
  <2>13. {M.range[d[i]] : i \in k .. k + 2 - 1} = {f, g}
    BY <2>9, <2>10, <2>12
  <2>14. Result(d, 2)
    <3>1. Splits(r, b, l)
      BY <1>9, <1>1, <1>2 DEF Splits
    <3> HIDE DEF r
    <3> QED BY <2>1, <2>11, <2>13, <3>1
  <2> HIDE DEF Result
  <2>15. \E q \in 0 .. 2 : \E c : Result(c, q)
    BY <2>14
  <2> QED BY <2>15 DEF Result, M
<1> QED BY <1>5, <1>6, <1>7, <1>8, <1>9

-----------------------------------------------------------------------------
(* The ranges in the blocks e.                                             *)
Contents(L, e) == {L.range[e[i]] : i \in 1 .. Len(e)}

(* The loop of range_remove over the blocks e of L has come past i of them: *)
(* p blocks are what remains of those, the others are as they were.         *)
Come(L, e, b, l, i, s, p, d) ==
  /\ Good(s.list, d) /\ Len(d) = p + (Len(e) - i)
  /\ p <= i \/ (p = i + 1 /\ \E j \in 1 .. i : Splits(L.range[e[j]], b, l))
  /\ \A j \in i + 1 .. Len(e) : d[j - i + p] = e[j] /\ s.list.range[e[j]] = L.range[e[j]]
  /\ {s.list.range[d[x]] : x \in 1 .. p} = UNION {Remains(L.range[e[j]], b, l) : j \in 1 .. i}
  /\ s.range = At(e, i + 1)
  /\ i < Len(e) => s.n = At(e, i + 2)

ComeAlong(L, e, b, l, i, s) == \E p \in Nat : \E d : Come(L, e, b, l, i, s, p, d)

(* One pass of that loop, and that it comes past one block more.           *)
Along(s, b, l) ==
  LET cut == Cut(s.list, s.range, b, l)
  IN  IF s.range \notin Blocks \/ s.list.stopped THEN s
      ELSE [list |-> cut, range |-> s.n, n |-> Forward(cut.link, s.n)]

LEMMA PassGood ==
  ASSUME NEW L, NEW e, Good(L, e), Len(e) < MaxBlocks, NEW b, NEW l, PageCut(b, l),
         NEW i \in Nat, i < Len(e), NEW s, ComeAlong(L, e, b, l, i, s)
  PROVE  ComeAlong(L, e, b, l, i + 1, Along(s, b, l))
<1> DEFINE m == Len(e)
           M == Cut(s.list, s.range, b, l)
<1>0. PICK p \in Nat : \E d : Come(L, e, b, l, i, s, p, d)
  BY DEF ComeAlong
<1>1. PICK d : Come(L, e, b, l, i, s, p, d)
  BY <1>0
<1>2. /\ Good(s.list, d) /\ Len(d) = p + (m - i)
      /\ p <= i \/ (p = i + 1 /\ \E j \in 1 .. i : Splits(L.range[e[j]], b, l))
      /\ \A j \in i + 1 .. m : d[j - i + p] = e[j] /\ s.list.range[e[j]] = L.range[e[j]]
      /\ {s.list.range[d[x]] : x \in 1 .. p} = UNION {Remains(L.range[e[j]], b, l) : j \in 1 .. i}
      /\ s.range = At(e, i + 1)
      /\ s.n = At(e, i + 2)
  BY <1>1 DEF Come
<1>3. m \in Nat /\ DOMAIN e = 1 .. m /\ e \in [1 .. m -> Blocks] /\ i + 1 \in 1 .. m
  <2>1. m \in Nat /\ DOMAIN e = 1 .. m /\ e \in [1 .. m -> Blocks]
    BY GoodFact
  <2> HIDE DEF m
  <2>2. i < m
    BY DEF m
  <2> QED BY <2>1, <2>2
<1> DEFINE k == p + 1
           r == L.range[e[i + 1]]
<1>4. k \in 1 .. Len(d) /\ d[k] = e[i + 1] /\ s.list.range[d[k]] = r /\ s.range = d[k]
  <2>1. (i + 1) - i + p = k /\ k \in 1 .. p + (m - i)
    BY <1>3
  <2>2. i + 1 \in i + 1 .. m
    BY <1>3
  <2>3. s.range = e[i + 1]
    BY <1>2, <1>3 DEF At
  <2> QED BY <1>2, <2>1, <2>2, <2>3
<1>5. Splits(r, b, l) => p <= i
  <2>1. ASSUME NEW j \in 1 .. i, Splits(L.range[e[j]], b, l), Splits(r, b, l) PROVE FALSE
    <3>1. j \in 1 .. m /\ j < i + 1
      BY <1>3
    <3>2. /\ L.range[e[j]].limit < r.base /\ L.range[e[j]].limit \in Nat /\ r.base \in Nat
      BY <3>1, <1>3, GoodFact
    <3>3. l < L.range[e[j]].limit /\ r.base < b /\ b < l /\ b \in Nat /\ l \in Nat
      BY <2>1 DEF Splits, PageCut
    <3> QED BY <3>2, <3>3, SMTT(60)
  <2> QED BY <2>1, <1>2
<1>6. Splits(r, b, l) => Len(d) < MaxBlocks
  <2>1. MaxBlocks \in Nat /\ m < MaxBlocks
    BY BlocksAssumption
  <2> QED BY <2>1, <1>2, <1>3, <1>5
<1>6a. PICK q \in 0 .. 2 : \E c :
        /\ Replaced(s.list, d, k, M, c, q)
        /\ {M.range[c[x]] : x \in k .. k + q - 1} = Remains(r, b, l)
        /\ q = 2 => Splits(r, b, l)
  <2> DEFINE N == Cut(s.list, d[k], b, l)
  <2>1. \E q \in 0 .. 2 : \E c :
          /\ Replaced(s.list, d, k, N, c, q)
          /\ {N.range[c[x]] : x \in k .. k + q - 1} = Remains(s.list.range[d[k]], b, l)
          /\ q = 2 => Splits(s.list.range[d[k]], b, l)
    <3>1. Splits(s.list.range[d[k]], b, l) => Len(d) < MaxBlocks
      BY <1>4, <1>6
    <3> HIDE DEF k
    <3> QED BY <1>2, <1>4, <3>1, CutGood
  <2>2. M = N
    BY <1>4
  <2> HIDE DEF M, N, k, r
  <2> QED BY <2>1, <2>2, <1>4
<1>7. PICK c :
        /\ Replaced(s.list, d, k, M, c, q)
        /\ {M.range[c[x]] : x \in k .. k + q - 1} = Remains(r, b, l)
        /\ q = 2 => Splits(r, b, l)
  BY <1>6a
<1>8. /\ Good(M, c) /\ Len(c) = Len(d) + q - 1
      /\ \A x \in 1 .. k - 1 : c[x] = d[x] /\ M.range[d[x]] = s.list.range[d[x]]
      /\ \A x \in k + 1 .. Len(d) : c[x + q - 1] = d[x] /\ M.range[d[x]] = s.list.range[d[x]]
  BY <1>7 DEF Replaced
<1>9. Along(s, b, l) = [list |-> M, range |-> s.n, n |-> Forward(M.link, s.n)]
  <2>1. s.range \in Blocks /\ s.list.stopped = FALSE
    <3>1. e[i + 1] \in Blocks
      BY <1>3
    <3>2. s.list.stopped = FALSE
      BY <1>2, GoodFact
    <3> QED BY <3>1, <3>2, <1>4
  <2> QED BY <2>1 DEF Along
<1> HIDE DEF M
<1>10. Len(c) = (p + q) + (m - (i + 1)) /\ p + q \in Nat
  BY <1>2, <1>3, <1>8
<1>11. p + q <= i + 1 \/ (p + q = (i + 1) + 1 /\ \E j \in 1 .. i + 1 : Splits(L.range[e[j]], b, l))
  <2>1. CASE p <= i /\ q < 2
    BY <2>1, <1>3
  <2>2. CASE q = 2
    <3>1. Splits(r, b, l) /\ p <= i /\ i + 1 \in 1 .. i + 1
      BY <2>2, <1>5, <1>7, <1>3
    <3> QED BY <3>1, <2>2
  <2>3. CASE ~(p <= i) /\ q < 2
    <3>1. p = i + 1 /\ \E j \in 1 .. i + 1 : Splits(L.range[e[j]], b, l)
      BY <2>3, <1>2
    <3> QED BY <3>1, <2>3
  <2> QED BY <2>1, <2>2, <2>3
<1>12. ASSUME NEW j \in (i + 1) + 1 .. m
       PROVE  c[j - (i + 1) + (p + q)] = e[j] /\ M.range[e[j]] = L.range[e[j]]
  <2> DEFINE x == j - i + p
  <2>1. x \in k + 1 .. Len(d) /\ x + q - 1 = j - (i + 1) + (p + q) /\ j \in i + 1 .. m
    <3>1. j \in Int /\ m \in Nat /\ q \in Int /\ (i + 1) + 1 <= j /\ j <= m
      BY <1>3
    <3>2. Len(d) = p + (m - i)
      BY <1>2
    <3> HIDE DEF m
    <3> QED BY <3>1, <3>2
  <2>2. d[x] = e[j] /\ s.list.range[e[j]] = L.range[e[j]]
    BY <1>2, <2>1
  <2>3. c[x + q - 1] = d[x] /\ M.range[d[x]] = s.list.range[d[x]]
    BY <1>8, <2>1
  <2> HIDE DEF x
  <2> QED BY <2>1, <2>2, <2>3
<1>13. {M.range[c[x]] : x \in 1 .. p + q} = UNION {Remains(L.range[e[j]], b, l) : j \in 1 .. i + 1}
  <2>1. 1 .. p + q = (1 .. p) \cup (k .. k + q - 1)
    OBVIOUS
  <2>2. {M.range[c[x]] : x \in 1 .. p} = {s.list.range[d[x]] : x \in 1 .. p}
    <3>1. ASSUME NEW x \in 1 .. p PROVE M.range[c[x]] = s.list.range[d[x]]
      <4>1. x \in 1 .. k - 1
        OBVIOUS
      <4> QED BY <4>1, <1>8
    <3> QED BY <3>1
  <2>3. 1 .. i + 1 = (1 .. i) \cup {i + 1}
    OBVIOUS
  <2>4. {M.range[c[x]] : x \in 1 .. p + q}
          = {M.range[c[x]] : x \in 1 .. p} \cup {M.range[c[x]] : x \in k .. k + q - 1}
    <3> HIDE DEF k
    <3> QED BY <2>1
  <2>5. UNION {Remains(L.range[e[j]], b, l) : j \in 1 .. i + 1}
          = (UNION {Remains(L.range[e[j]], b, l) : j \in 1 .. i}) \cup Remains(r, b, l)
    <3> DEFINE Rem(j) == Remains(L.range[e[j]], b, l)
    <3> HIDE DEF Rem
    <3>1. UNION {Rem(j) : j \in 1 .. i + 1} = (UNION {Rem(j) : j \in 1 .. i}) \cup Rem(i + 1)
      BY <2>3
    <3> QED BY <3>1 DEF Rem
  <2> HIDE DEF k, r
  <2> QED BY <2>2, <2>4, <2>5, <1>2, <1>7
<1>14. i + 1 < m => Forward(M.link, s.n) = At(e, (i + 1) + 2)
  <2>1. SUFFICES ASSUME i + 1 < m PROVE Forward(M.link, s.n) = At(e, (i + 1) + 2)
    OBVIOUS
  <2> DEFINE x == p + q + 1
  <2>2. Chain(M.link, c) /\ DOMAIN c = 1 .. Len(c) /\ c \in [1 .. Len(c) -> Blocks]
        /\ M.link \in [Nodes -> Links]
    BY <1>8, GoodFact
  <2>3. x \in 1 .. Len(c) /\ i + 2 \in (i + 1) + 1 .. m /\ (i + 2) - (i + 1) + (p + q) = x
    BY <2>1, <1>3, <1>10
  <2>4. At(c, x) = s.n
    <3>1. c[x] = e[i + 2]
      BY <1>12, <2>3
    <3>2. s.n = e[i + 2]
      <4>1. i + 2 \in 1 .. m
        BY <2>1, <1>3
      <4> QED BY <4>1, <1>2, <1>3 DEF At
    <3> QED BY <3>1, <3>2, <2>2, <2>3 DEF At
  <2>5. M.link[At(c, x)].next = At(c, x + 1) /\ At(c, x) \in DOMAIN M.link
    <3>1. x \in 0 .. Len(c)
      BY <2>3
    <3>2. At(c, x) \in Nodes
      BY <2>2, <2>3 DEF At, Nodes
    <3> QED BY <3>1, <3>2, <2>2 DEF Chain, Linked
  <2>6. At(c, x + 1) = At(e, i + 3)
    <3>1. CASE i + 3 <= m
      <4>1. i + 3 \in (i + 1) + 1 .. m /\ (i + 3) - (i + 1) + (p + q) = x + 1
            /\ x + 1 \in 1 .. Len(c) /\ i + 3 \in 1 .. m
        BY <3>1, <1>3, <1>10
      <4>2. c[x + 1] = e[i + 3]
        BY <4>1, <1>12
      <4> QED BY <4>1, <4>2, <2>2, <1>3 DEF At
    <3>2. CASE ~(i + 3 <= m)
      <4>1. x + 1 \notin 1 .. Len(c) /\ i + 3 \notin 1 .. m
        BY <3>2, <2>1, <1>3, <1>10
      <4> QED BY <4>1, <2>2, <1>3 DEF At
    <3> QED BY <3>1, <3>2
  <2>7. (i + 1) + 2 = i + 3
    OBVIOUS
  <2> QED BY <2>4, <2>5, <2>6, <2>7 DEF Forward
<1>15. s.n = At(e, (i + 1) + 1)
  <2>1. (i + 1) + 1 = i + 2
    OBVIOUS
  <2> QED BY <2>1, <1>2
<1> DEFINE t == Along(s, b, l)
<1>16. t.list = M /\ t.range = s.n /\ t.n = Forward(M.link, s.n)
  BY <1>9
<1> HIDE DEF t
<1>17. Come(L, e, b, l, i + 1, t, p + q, c)
  <2>1. \A j \in (i + 1) + 1 .. m :
          c[j - (i + 1) + (p + q)] = e[j] /\ t.list.range[e[j]] = L.range[e[j]]
    BY <1>12, <1>16
  <2>2. {t.list.range[c[x]] : x \in 1 .. p + q} = UNION {Remains(L.range[e[j]], b, l) : j \in 1 .. i + 1}
    BY <1>13, <1>16
  <2>3. t.range = At(e, (i + 1) + 1) /\ (i + 1 < m => t.n = At(e, (i + 1) + 2))
    BY <1>14, <1>15, <1>16
  <2>4. Good(t.list, c)
    BY <1>8, <1>16
  <2> HIDE DEF k, r
  <2> QED BY <2>1, <2>2, <2>3, <2>4, <1>10, <1>11 DEF Come
<1> QED BY <1>10, <1>17 DEF ComeAlong, t

(* Where the loop starts, and the function of its first n passes.          *)
Start(L) == [list |-> L, range |-> L.link[HEAD].next, n |-> Forward(L.link, L.link[HEAD].next)]

IsLoop(f, L, b, l, n) ==
  f = [i \in 0 .. n |-> IF i = 0 THEN Start(L) ELSE Along(f[i - 1], b, l)]

(* The recursive function in RangeRemove is one.                           *)
LEMMA LoopExists ==
  ASSUME NEW L, NEW b, NEW l, NEW n \in Nat
  PROVE  \E f : IsLoop(f, L, b, l, n)
<1> DEFINE S == {x \in Nat : \E f : IsLoop(f, L, b, l, x)}
<1>1. 0 \in S
  <2> DEFINE f == [i \in 0 .. 0 |-> Start(L)]
  <2>1. IsLoop(f, L, b, l, 0)
    BY DEF IsLoop
  <2> QED BY <2>1
<1>2. ASSUME NEW x \in Nat, x \in S PROVE x + 1 \in S
  <2>1. PICK f : IsLoop(f, L, b, l, x)
    BY <1>2
  <2>2. \A i \in 0 .. x : f[i] = IF i = 0 THEN Start(L) ELSE Along(f[i - 1], b, l)
    BY <2>1 DEF IsLoop
  <2> DEFINE g == [i \in 0 .. x + 1 |-> IF i = x + 1 THEN Along(f[x], b, l) ELSE f[i]]
  <2>3. ASSUME NEW i \in 0 .. x + 1
        PROVE  g[i] = IF i = 0 THEN Start(L) ELSE Along(g[i - 1], b, l)
    <3>1. CASE i = x + 1
      <4>1. i - 1 = x /\ x \in 0 .. x + 1 /\ x # x + 1 /\ i # 0
        BY <3>1
      <4>2. g[i - 1] = f[x]
        BY <4>1
      <4> QED BY <3>1, <4>1, <4>2
    <3>2. CASE i # x + 1 /\ i # 0
      <4>1. i \in 0 .. x /\ i - 1 \in 0 .. x + 1 /\ i - 1 # x + 1
        BY <3>2
      <4>2. g[i - 1] = f[i - 1] /\ g[i] = f[i]
        BY <3>2, <4>1
      <4> QED BY <3>2, <4>1, <4>2, <2>2
    <3>3. CASE i # x + 1 /\ i = 0
      <4>1. g[i] = f[i] /\ i \in 0 .. x
        BY <3>3
      <4> QED BY <3>3, <4>1, <2>2
    <3> QED BY <3>1, <3>2, <3>3
  <2>4. IsLoop(g, L, b, l, x + 1)
    <3>1. [i \in 0 .. x + 1 |-> g[i]]
            = [i \in 0 .. x + 1 |-> IF i = 0 THEN Start(L) ELSE Along(g[i - 1], b, l)]
      BY <2>3, Zenon
    <3>2. g = [i \in 0 .. x + 1 |-> g[i]]
      OBVIOUS
    <3> HIDE DEF g
    <3> QED BY <3>1, <3>2, Zenon DEF IsLoop
  <2> HIDE DEF g
  <2> QED BY <2>4
<1> HIDE DEF S
<1>3. Nat \subseteq S
  BY <1>1, <1>2, SetInduction
<1> QED BY <1>3 DEF S

(* range_remove leaves a list, of the ranges range_remove of Ranges says.  *)
LEMMA RemoveGood ==
  ASSUME NEW L, NEW e, Good(L, e), Len(e) < MaxBlocks, NEW b, NEW l, PageCut(b, l),
         NEW M, M = RangeRemove(L, b, l)
  PROVE  \E d : /\ Good(M, d) /\ Len(d) <= Len(e) + 1
                /\ Contents(M, d) = range_remove(Contents(L, e), b, l)
<1> DEFINE m == Len(e)
           f == CHOOSE f : IsLoop(f, L, b, l, MaxBlocks)
<1>1. m \in Nat /\ MaxBlocks \in Nat /\ m < MaxBlocks /\ DOMAIN e = 1 .. m
  BY GoodFact, BlocksAssumption
<1>2. IsLoop(f, L, b, l, MaxBlocks)
  BY <1>1, LoopExists, SMTT(60)
<1>3. M = f[MaxBlocks].list
  <2>1. ~(b >= l)
    BY DEF PageCut
  <2> QED BY <2>1 DEF RangeRemove, IsLoop, Along, Start
<1> HIDE DEF f, m
<1>4. f[0] = Start(L) /\ \A i \in Nat : i < MaxBlocks => f[i + 1] = Along(f[i], b, l)
  <2>1. \A i \in 0 .. MaxBlocks : f[i] = IF i = 0 THEN Start(L) ELSE Along(f[i - 1], b, l)
    BY <1>2 DEF IsLoop
  <2>2. 0 \in 0 .. MaxBlocks
    BY <1>1
  <2>3. ASSUME NEW i \in Nat, i < MaxBlocks PROVE f[i + 1] = Along(f[i], b, l)
    <3>1. i + 1 \in 0 .. MaxBlocks /\ i + 1 # 0 /\ (i + 1) - 1 = i
      BY <2>3, <1>1
    <3> QED BY <3>1, <2>1
  <2> QED BY <2>1, <2>2, <2>3
<1>5. ComeAlong(L, e, b, l, 0, f[0])
  <2> DEFINE s == f[0]
  <2>1. s.list = L /\ s.range = L.link[HEAD].next /\ s.n = Forward(L.link, s.range)
    BY <1>4 DEF Start
  <2>2. Chain(L.link, e) /\ L.link \in [Nodes -> Links] /\ e \in [1 .. m -> Blocks]
    BY GoodFact DEF m
  <2>3. s.range = At(e, 1)
    <3>1. 0 \in 0 .. Len(e) /\ At(e, 0) = HEAD /\ 0 + 1 = 1
      BY <1>1 DEF At, m
    <3> QED BY <3>1, <2>1, <2>2 DEF Chain, Linked
  <2>4. 0 < Len(e) => s.n = At(e, 2)
    <3>1. SUFFICES ASSUME 0 < Len(e) PROVE s.n = At(e, 2)
      OBVIOUS
    <3>2. 1 \in 0 .. Len(e) /\ 1 + 1 = 2 /\ 1 \in 1 .. m
      BY <3>1, <1>1 DEF m
    <3>3. At(e, 1) \in DOMAIN L.link
      BY <3>2, <2>2, <1>1 DEF At, Nodes
    <3>4. L.link[At(e, 1)].next = At(e, 2)
      BY <3>2, <2>2 DEF Chain, Linked
    <3> QED BY <3>3, <3>4, <2>1, <2>3 DEF Forward
  <2> HIDE DEF s
  <2>5. Come(L, e, b, l, 0, s, 0, e)
    <3>1. \A j \in 0 + 1 .. Len(e) : e[j - 0 + 0] = e[j] /\ s.list.range[e[j]] = L.range[e[j]]
      <4>1. \A j \in 0 + 1 .. Len(e) : j - 0 + 0 = j
        BY <1>1 DEF m
      <4> QED BY <4>1, <2>1
    <3>2. 1 .. 0 = {}
      OBVIOUS
    <3>3. {s.list.range[e[x]] : x \in 1 .. 0} = UNION {Remains(L.range[e[j]], b, l) : j \in 1 .. 0}
      BY <3>2
    <3>4. Len(e) = 0 + (Len(e) - 0) /\ 0 + 1 = 1 /\ 0 + 2 = 2
      BY <1>1 DEF m
    <3>5. Good(s.list, e)
      BY <2>1
    <3> QED BY <3>1, <3>3, <3>4, <3>5, <2>3, <2>4 DEF Come
  <2> QED BY <2>5 DEF ComeAlong, s
<1>6. ComeAlong(L, e, b, l, m, f[m])
  <2> DEFINE S == {i \in Nat : i <= m => ComeAlong(L, e, b, l, i, f[i])}
  <2>1. 0 \in S
    BY <1>5
  <2>2. ASSUME NEW i \in Nat, i \in S PROVE i + 1 \in S
    <3>1. SUFFICES ASSUME i + 1 <= m PROVE ComeAlong(L, e, b, l, i + 1, f[i + 1])
      OBVIOUS
    <3>2. i < Len(e) /\ i < MaxBlocks /\ ComeAlong(L, e, b, l, i, f[i])
      BY <3>1, <2>2, <1>1 DEF m
    <3>3. ComeAlong(L, e, b, l, i + 1, Along(f[i], b, l))
      BY <3>2, PassGood
    <3> QED BY <3>2, <3>3, <1>4
  <2> HIDE DEF S
  <2>3. Nat \subseteq S
    BY <2>1, <2>2, SetInduction
  <2> QED BY <2>3, <1>1 DEF S
<1>6a. PICK p \in Nat : \E d : Come(L, e, b, l, m, f[m], p, d)
  BY <1>6 DEF ComeAlong
<1>7. PICK d : Come(L, e, b, l, m, f[m], p, d)
  BY <1>6a
<1> DEFINE s == f[m]
<1>8. /\ Good(s.list, d) /\ Len(d) = p /\ p <= m + 1 /\ s.range \notin Blocks
      /\ {s.list.range[d[x]] : x \in 1 .. p} = UNION {Remains(L.range[e[j]], b, l) : j \in 1 .. m}
  <2>1. Len(d) = p + (m - m) /\ (p <= m \/ p = m + 1) /\ s.range = At(e, m + 1)
        /\ Good(s.list, d)
        /\ {s.list.range[d[x]] : x \in 1 .. p} = UNION {Remains(L.range[e[j]], b, l) : j \in 1 .. m}
    BY <1>7 DEF Come, m
  <2>2. m + 1 \notin 1 .. m
    BY <1>1
  <2>3. At(e, m + 1) = HEAD /\ HEAD \notin Blocks
    BY <2>2, <1>1 DEF At, HEAD, Blocks
  <2>4. p + (m - m) = p /\ (p <= m \/ p = m + 1 => p <= m + 1)
    BY <1>1
  <2>5. Len(d) = p /\ p <= m + 1
    BY <2>1, <2>4
  <2> HIDE DEF s
  <2> QED BY <2>1, <2>3, <2>5
<1>9. f[MaxBlocks] = f[m]
  <2> DEFINE S == {i \in Nat : m <= i /\ i <= MaxBlocks => f[i] = f[m]}
  <2>1. 0 \in S
    BY <1>1
  <2>2. ASSUME NEW i \in Nat, i \in S PROVE i + 1 \in S
    <3>1. SUFFICES ASSUME m <= i + 1, i + 1 <= MaxBlocks PROVE f[i + 1] = f[m]
      OBVIOUS
    <3>2. CASE m = i + 1
      BY <3>2
    <3>3. CASE m # i + 1
      <4>1. m <= i /\ i < MaxBlocks /\ i <= MaxBlocks
        BY <3>1, <3>3, <1>1
      <4>2. f[i] = f[m] /\ f[i + 1] = Along(f[i], b, l)
        BY <4>1, <2>2, <1>4
      <4>3. Along(f[m], b, l) = f[m]
        BY <1>8 DEF Along
      <4> QED BY <4>2, <4>3
    <3> QED BY <3>2, <3>3
  <2> HIDE DEF S
  <2>3. Nat \subseteq S
    BY <2>1, <2>2, SetInduction
  <2> QED BY <2>3, <1>1 DEF S
<1>10. M = s.list
  BY <1>3, <1>9
<1> HIDE DEF s
<1>11. Contents(M, d) = range_remove(Contents(L, e), b, l)
  <2>1. {Remains(L.range[e[j]], b, l) : j \in 1 .. m} = {Remains(r, b, l) : r \in Contents(L, e)}
    BY DEF Contents, m
  <2> QED BY <2>1, <1>8, <1>10 DEF Contents, range_remove
<1> QED BY <1>8, <1>10, <1>11 DEF m

-----------------------------------------------------------------------------
(* A sorted list shows as many ranges as it has blocks.                    *)
LEMMA LenContents ==
  ASSUME NEW L, NEW e, Good(L, e)
  PROVE  IsFiniteSet(Contents(L, e)) /\ Cardinality(Contents(L, e)) = Len(e)
<1> DEFINE m == Len(e)
           f == [i \in 1 .. m |-> L.range[e[i]]]
           C == Contents(L, e)
<1>1. m \in Nat
  BY GoodFact
<1>2. IsFiniteSet(1 .. m) /\ Cardinality(1 .. m) = m
  BY <1>1, FS_Interval, SMTT(60)
<1>3. f \in [1 .. m -> C]
  BY DEF Contents
<1>4. \A i, j \in 1 .. m : f[i] = f[j] => i = j
  <2>1. SUFFICES ASSUME NEW i \in 1 .. m, NEW j \in 1 .. m, f[i] = f[j], i < j PROVE FALSE
    BY <1>1
  <2>2. L.range[e[i]].limit < L.range[e[j]].base /\ L.range[e[i]] = L.range[e[j]]
    BY <2>1, GoodFact
  <2>3. /\ L.range[e[i]].base \in Nat /\ L.range[e[i]].limit \in Nat
        /\ L.range[e[i]].base < L.range[e[i]].limit
    BY GoodFact
  <2> QED BY <2>2, <2>3
<1>5. \A r \in C : \E i \in 1 .. m : f[i] = r
  BY DEF Contents
<1>6. f \in Bijection(1 .. m, C)
  <2> HIDE DEF f, C
  <2> QED BY <1>3, <1>4, <1>5 DEF Bijection, Injection, Surjection, IsInjective
<1> HIDE DEF f, C, m
<1>7. IsFiniteSet(C) /\ Cardinality(C) = Cardinality(1 .. m)
  <2>1. ExistsBijection(1 .. m, C)
    BY <1>6 DEF ExistsBijection
  <2> QED BY <2>1, <1>2, FS_Bijection
<1> QED BY <1>7, <1>2 DEF C, m

(* The list of some blocks, no more than n, holds the ranges R.            *)
Holds(L, R, n) == \E e : Good(L, e) /\ Contents(L, e) = R /\ Len(e) <= n

(* Nothing that was granted is left in R.                                  *)
CutAway(R, G) ==
  \A g \in G : /\ PageCut(FirstByte(g.out), LastByte(g.out, g.size))
               /\ \A r \in R : r.base > LastByte(g.out, g.size) \/ r.limit < FirstByte(g.out)

(* What was granted finds nothing to remove; what is granted is removed.   *)
LEMMA CutNothing ==
  ASSUME NEW R, NEW G, CutAway(R, G), NEW g \in G
  PROVE  range_remove(R, FirstByte(g.out), LastByte(g.out, g.size)) = R
<1>1. \A r \in R : Remains(r, FirstByte(g.out), LastByte(g.out, g.size)) = {r}
  BY DEF CutAway, Remains
<1> QED BY <1>1 DEF range_remove

LEMMA CutMore ==
  ASSUME NEW R, WellFormed(R), NEW G, CutAway(R, G), NEW g,
         PageCut(FirstByte(g.out), LastByte(g.out, g.size))
  PROVE  CutAway(range_remove(R, FirstByte(g.out), LastByte(g.out, g.size)), G \cup {g})
<1> DEFINE b == FirstByte(g.out)
           l == LastByte(g.out, g.size)
<1>1. b \in Nat /\ l \in Nat /\ b < l
  BY DEF PageCut
<1>2. ASSUME NEW r \in R, NEW q \in Remains(r, b, l)
      PROVE  /\ r.base \in Nat /\ r.limit \in Nat /\ q.base \in Nat /\ q.limit \in Nat
             /\ r.base <= q.base /\ q.limit <= r.limit
             /\ q.limit < b \/ l < q.base
  <2>1. r \in Ranges /\ r.base \in Nat /\ r.limit \in Nat /\ r.base <= r.limit
    BY DEF WellFormed, PageRange, Ranges
  <2> HIDE DEF b, l
  <2>2. b <= l
    BY <1>1
  <2>3. q \in Ranges /\ r.base <= q.base /\ q.limit <= r.limit /\ (q.limit < b \/ l < q.base)
    BY <1>1, <2>1, <2>2, RemainsInside
  <2> QED BY <2>1, <2>3 DEF Ranges
<1>3. ASSUME NEW h \in G \cup {g}, NEW r \in R, NEW q \in Remains(r, b, l)
      PROVE  q.base > LastByte(h.out, h.size) \/ q.limit < FirstByte(h.out)
  <2>1. CASE h = g
    BY <2>1, <1>1, <1>2
  <2>2. CASE h # g
    <3> DEFINE hb == FirstByte(h.out)
               hl == LastByte(h.out, h.size)
    <3>1. hb \in Nat /\ hl \in Nat /\ (r.base > hl \/ r.limit < hb)
      BY <2>2 DEF CutAway, PageCut
    <3> HIDE DEF hb, hl, b, l
    <3>2. q.base > hl \/ q.limit < hb
      BY <3>1, <1>2
    <3> QED BY <3>2 DEF hb, hl
  <2> QED BY <2>1, <2>2
<1>4. \A h \in G \cup {g} : PageCut(FirstByte(h.out), LastByte(h.out, h.size))
  BY DEF CutAway
<1>5. \A q \in range_remove(R, b, l) : \E r \in R : q \in Remains(r, b, l)
  BY DEF range_remove
<1> QED BY <1>3, <1>4, <1>5 DEF CutAway

(* One claim, on the list as on the set: a claim more allows a range more. *)
LEMMA GrantHolds ==
  ASSUME NEW L, NEW R, WellFormed(R), NEW G, IsFiniteSet(G), CutAway(R, G),
         Holds(L, R, Cardinality(G) + 1), Cardinality(G) < MaxClaims + 3,
         NEW g, PageCut(FirstByte(g.out), LastByte(g.out, g.size)),
         NEW Q, Q = range_remove(R, FirstByte(g.out), LastByte(g.out, g.size))
  PROVE  /\ IsFiniteSet(G \cup {g}) /\ CutAway(Q, G \cup {g})
         /\ Holds(RemoveGrant(L, g.out, g.size), Q, Cardinality(G \cup {g}) + 1)
<1> DEFINE b == FirstByte(g.out)
           l == LastByte(g.out, g.size)
           n == Cardinality(G)
<1>1. PICK e : Good(L, e) /\ Contents(L, e) = R /\ Len(e) <= n + 1
  BY DEF Holds
<1>2. /\ n \in Nat /\ IsFiniteSet(G \cup {g})
      /\ Cardinality(G \cup {g}) = IF g \in G THEN n ELSE n + 1
  BY FS_CardinalityType, FS_AddElement
<1>3. CutAway(Q, G \cup {g})
  BY CutMore
<1>4. Len(e) < MaxBlocks /\ Len(e) \in Nat
  <2>1. Len(e) \in Nat /\ n < MaxClaims + 3
    BY <1>1, GoodFact
  <2> HIDE DEF n
  <2> QED BY <2>1, <1>1, <1>2, BlocksAssumption
<1>5. PICK M : M = RemoveGrant(L, g.out, g.size) /\ M = RangeRemove(L, b, l)
  BY DEF RemoveGrant
<1>6. PICK d : Good(M, d) /\ Len(d) <= Len(e) + 1 /\ Contents(M, d) = Q
  <2> HIDE DEF b, l
  <2>1. PageCut(b, l) /\ Q = range_remove(R, b, l)
    BY DEF b, l
  <2>2. \E d : Good(M, d) /\ Len(d) <= Len(e) + 1
               /\ Contents(M, d) = range_remove(Contents(L, e), b, l)
    BY <1>1, <1>4, <1>5, <2>1, RemoveGood
  <2> QED BY <2>1, <2>2, <1>1
<1>7. Len(d) \in Nat
  BY <1>6, GoodFact
<1>8. Len(d) <= Cardinality(G \cup {g}) + 1
  <2>1. CASE g \in G
    <3>1. Q = R
      BY <2>1, CutNothing
    <3>2. Len(d) = Len(e)
      BY <3>1, <1>1, <1>6, LenContents
    <3> HIDE DEF n
    <3> QED BY <3>2, <2>1, <1>1, <1>2
  <2>2. CASE g \notin G
    <3> HIDE DEF n
    <3> QED BY <2>2, <1>1, <1>2, <1>4, <1>6, <1>7
  <2> QED BY <2>1, <2>2
<1> QED BY <1>2, <1>3, <1>5, <1>6, <1>8 DEF Holds

(* The one block of rom_init.                                              *)
LEMMA WholeHolds == Holds(RangeAdd(Empty, 0, PmemSize - 1), WholeMemory, 1)
<1> DEFINE e == << >>
           L == Empty
           b == malloc(L)
           d == Inserted(e, 1, b)
           M == RangeAdd(L, 0, PmemSize - 1)
<1>1. Len(e) = 0 /\ DOMAIN e = {} /\ e \in Seq(Blocks) /\ DOMAIN e = 1 .. 0
  OBVIOUS
<1>2. Good(L, e)
  <2>1. L \in [link : [Nodes -> Links], range : [Blocks -> Ranges], stopped : {FALSE}]
    <3>1. \A x \in Nodes : LIST_HEAD_INIT(x) \in Links
      BY DEF LIST_HEAD_INIT, Links
    <3>2. Free \in Ranges
      BY DEF Free, range_alloc, Ranges
    <3> QED BY <3>1, <3>2 DEF Empty, Nodes
  <2>2. \A x \in Blocks : L.range[x] = Free
    BY DEF Empty
  <2>3. Chain(L.link, e)
    <3>1. \A i \in Int : At(e, i) = HEAD
      BY <1>1 DEF At
    <3>2. L.link[HEAD] = [next |-> HEAD, prev |-> HEAD]
      BY DEF Empty, LIST_HEAD_INIT
    <3>3. Linked(L.link, e)
      BY <3>1, <3>2, <1>1 DEF Linked
    <3> QED BY <2>1, <3>3, <1>1 DEF Chain
  <2> QED BY <1>1, <2>1, <2>2, <2>3 DEF Good
<1>3. 0 \in Nat /\ PmemSize - 1 \in Nat /\ PageRange(range_alloc(0, PmemSize - 1))
  BY WholeWellFormed, RomInBounds, MemoryAssumption DEF WellFormed, WholeMemory
<1>4. Len(e) < MaxBlocks /\ 1 \in 1 .. Len(e) + 1 /\ 1 .. Len(e) = {}
  BY <1>1, BlocksAssumption
<1>5. /\ Good(M, d) /\ b \in Blocks
      /\ M.range = [L.range EXCEPT ![b] = range_alloc(0, PmemSize - 1)]
  <2> HIDE DEF L, e
  <2> QED BY <1>2, <1>3, <1>4, AddGood
<1>6. Len(d) = 1 /\ d[1] = b
  <2>1. DOMAIN d = 1 .. 1 /\ d[1] = b
    BY <1>1 DEF Inserted
  <2>2. Len(d) \in Nat /\ DOMAIN d = 1 .. Len(d)
    BY <1>5, GoodFact
  <2> HIDE DEF d
  <2> QED BY <2>1, <2>2, IntervalEnd
<1>7. M.range[b] = range_alloc(0, PmemSize - 1)
  <2>1. L.range \in [Blocks -> Ranges]
    BY <1>2, GoodFact
  <2> QED BY <2>1, <1>5
<1>8. Contents(M, d) = WholeMemory
  <2> HIDE DEF d, M, b
  <2> QED BY <1>6, <1>7 DEF Contents, WholeMemory
<1>9. \E c : Good(M, c) /\ Contents(M, c) = WholeMemory /\ Len(c) <= 1
  <2> HIDE DEF d, M, b
  <2>1. Len(d) <= 1
    BY <1>6
  <2> QED BY <2>1, <1>5, <1>8
<1> QED BY <1>9 DEF Holds

-----------------------------------------------------------------------------
(* The list's part of the invariant: as long as the program is alive it    *)
(* holds the ranges of avail, no more than one more than claims granted,   *)
(* which is why malloc has a block left for the next one.                  *)
ListPart ==
  /\ IsFiniteSet(granted)
  /\ list.stopped <=> ~alive
  /\ alive => CutAway(avail, granted) /\ Holds(list, avail, Cardinality(granted) + 1)

ListInv == WideInv /\ ListPart

(* GrantHolds, for a region of rom_init.                                   *)
LEMMA RegionHolds ==
  ASSUME NEW L, NEW R, WellFormed(R), NEW G, IsFiniteSet(G), CutAway(R, G),
         Holds(L, R, Cardinality(G) + 1), Cardinality(G) < MaxClaims + 3,
         NEW out \in Nat, NEW size \in Nat, size > 0, out + size <= PmemSize, NEW how,
         NEW g, g = Grant(out, size, how), NEW Q, Q = Without(R, g)
  PROVE  /\ IsFiniteSet(G \cup {g}) /\ CutAway(Q, G \cup {g}) /\ WellFormed(Q)
         /\ Holds(RemoveGrant(L, out, size), Q, Cardinality(G \cup {g}) + 1)
         /\ Cardinality(G \cup {g}) <= Cardinality(G) + 1
<1>1. g.out = out /\ g.size = size
  BY DEF Grant
<1>2. out \in 0 .. WordMod - 1 /\ size \in 0 .. WordMod - 1
  BY WordAssumption, MemoryAssumption
<1>3. PageCut(FirstByte(out), LastByte(out, size))
  BY <1>2, TakenInBounds, TakenPages
<1>4. Q = range_remove(R, FirstByte(g.out), LastByte(g.out, g.size)) /\ WellFormed(Q)
  BY <1>1, <1>3, RemoveWellFormed DEF Without
<1>5. /\ IsFiniteSet(G \cup {g}) /\ CutAway(Q, G \cup {g})
      /\ Holds(RemoveGrant(L, g.out, g.size), Q, Cardinality(G \cup {g}) + 1)
  BY <1>1, <1>3, <1>4, GrantHolds
<1>6. Cardinality(G \cup {g}) <= Cardinality(G) + 1
  BY FS_CardinalityType, FS_AddElement
<1> QED BY <1>1, <1>4, <1>5, <1>6

(* rom_init's list, and then every step.                                   *)
LEMMA ListInvInit == ListInit => ListInv
<1> SUFFICES ASSUME ListInit PROVE ListInv
  OBVIOUS
<1> DEFINE g1 == Grant(LoaderBase, LoaderLength, "rom")
           g2 == Grant(4, 4, "rom")
           g3 == Grant(claim_arena_start - StackSize, StackSize, "rom")
           R1 == Without(WholeMemory, g1)
           R2 == Without(R1, g2)
           R3 == Without(R2, g3)
           L0 == RangeAdd(Empty, 0, PmemSize - 1)
           L1 == RemoveGrant(L0, LoaderBase, LoaderLength)
           L2 == RemoveGrant(L1, 4, 4)
           L3 == RemoveGrant(L2, claim_arena_start - StackSize, StackSize)
           G1 == {} \cup {g1}
           G2 == G1 \cup {g2}
           G3 == G2 \cup {g3}
<1>1. /\ list = L3 /\ avail = R3 /\ granted = G3 /\ alive = TRUE /\ Init
  BY DEF ListInit, Init, RomRegions, WholeMemory
<1>2. /\ WellFormed(WholeMemory) /\ IsFiniteSet({}) /\ Cardinality({}) = 0
      /\ CutAway(WholeMemory, {}) /\ Holds(L0, WholeMemory, Cardinality({}) + 1)
  BY WholeWellFormed, WholeHolds, FS_EmptySet DEF CutAway
<1>3. MaxClaims \in Nat
  BY BlocksAssumption
<1> HIDE DEF L0, L1, L2, L3, R1, R2, R3, g1, g2, g3, G1, G2, G3
<1>4. /\ IsFiniteSet(G1) /\ CutAway(R1, G1) /\ WellFormed(R1)
      /\ Holds(L1, R1, Cardinality(G1) + 1) /\ Cardinality(G1) <= 1 /\ Cardinality(G1) \in Nat
  <2>1. /\ IsFiniteSet(G1) /\ CutAway(R1, G1) /\ WellFormed(R1)
        /\ Holds(L1, R1, Cardinality(G1) + 1) /\ Cardinality(G1) <= Cardinality({}) + 1
    BY <1>2, <1>3, RomInBounds, RegionHolds DEF L1, R1, G1, g1
  <2> QED BY <2>1, <1>2, FS_CardinalityType
<1>5. /\ IsFiniteSet(G2) /\ CutAway(R2, G2) /\ WellFormed(R2)
      /\ Holds(L2, R2, Cardinality(G2) + 1) /\ Cardinality(G2) <= 2 /\ Cardinality(G2) \in Nat
  <2>1. /\ IsFiniteSet(G2) /\ CutAway(R2, G2) /\ WellFormed(R2)
        /\ Holds(L2, R2, Cardinality(G2) + 1) /\ Cardinality(G2) <= Cardinality(G1) + 1
    <3>1. Cardinality(G1) < MaxClaims + 3
      BY <1>3, <1>4
    <3> QED BY <1>4, <3>1, RomInBounds, RegionHolds DEF L2, R2, G2, g2
  <2> QED BY <2>1, <1>4, FS_CardinalityType
<1>6. IsFiniteSet(G3) /\ CutAway(R3, G3) /\ Holds(L3, R3, Cardinality(G3) + 1)
  <2>1. Cardinality(G2) < MaxClaims + 3
    BY <1>3, <1>5
  <2> QED BY <1>5, <2>1, RomInBounds, RegionHolds DEF L3, R3, G3, g3
<1>7. L3.stopped = FALSE
  BY <1>6, GoodFact DEF Holds
<1> QED BY <1>1, <1>6, <1>7, WideInit DEF ListInv, ListPart

(* The list after a claim that was refused, stopped the program, or was     *)
(* granted, perhaps for the second time.                                    *)
LEMMA WalkHolds ==
  ASSUME ListInv, alive, Cardinality(granted) < MaxClaims + 3,
         NEW out \in 0 .. WordMod - 1, NEW size \in 0 .. WordMod - 1,
         NEW how \in {"fixed", "arena"}, Refuse \/ Take(out, size, how), Walk(out, size)
  PROVE  ListPart'
<1> DEFINE b == FirstByte(out)
           l == LastByte(out, size)
           Now == RemoveGrant(list, out, size)
<1>1. /\ WellFormed(avail) /\ IsFiniteSet(granted) /\ list.stopped = FALSE /\ alive = TRUE
      /\ CutAway(avail, granted) /\ Holds(list, avail, Cardinality(granted) + 1)
  <2>1. /\ WellFormed(avail) /\ IsFiniteSet(granted) /\ alive = TRUE
        /\ CutAway(avail, granted) /\ Holds(list, avail, Cardinality(granted) + 1)
    BY DEF ListInv, ListPart, WideInv, TypeOK, AvailWellFormed, WellFormed
  <2> QED BY <2>1, GoodFact DEF Holds
<1>2. ASSUME NEW g, g.out = out, g.size = size, PageCut(b, l),
             avail' = range_remove(avail, b, l), granted' = granted \cup {g}, alive' = alive,
             list' = Now
      PROVE  ListPart'
  <2>1. /\ IsFiniteSet(granted') /\ CutAway(avail', granted')
        /\ Holds(list', avail', Cardinality(granted') + 1)
    BY <1>1, <1>2, GrantHolds
  <2>2. list'.stopped = FALSE
    BY <2>1, GoodFact DEF Holds
  <2> QED BY <1>1, <1>2, <2>1, <2>2 DEF ListPart
<1>3. CASE Refuse
  <2>1. avail' = avail /\ granted' = granted /\ alive' = alive
    BY <1>3 DEF Refuse
  <2>2. CASE \E h \in {"fixed", "arena"} : Grant(out, size, h) \in granted'
    <3>1. PICK h \in {"fixed", "arena"} : Grant(out, size, h) \in granted
      BY <2>1, <2>2
    <3>2. PICK g : g = Grant(out, size, h) /\ g \in granted /\ g.out = out /\ g.size = size
      BY <3>1 DEF Grant
    <3>3. PageCut(b, l) /\ avail = range_remove(avail, b, l)
      BY <1>1, <3>2, CutNothing DEF CutAway
    <3>4. list' = Now
      BY <2>2 DEF Walk
    <3>5. granted' = granted \cup {g}
      BY <2>1, <3>2
    <3> HIDE DEF b, l, Now
    <3> QED BY <1>2, <2>1, <3>2, <3>3, <3>4, <3>5
  <2>3. CASE ~\E h \in {"fixed", "arena"} : Grant(out, size, h) \in granted'
    <3>1. list' = list
      BY <1>1, <2>1, <2>3 DEF Walk
    <3> QED BY <1>1, <2>1, <3>1 DEF ListPart
  <2> QED BY <2>2, <2>3
<1>4. CASE Take(out, size, how) /\ RemoveStops(avail, b, l)
  <2>1. alive' = FALSE /\ avail' = avail /\ granted' = granted
    BY <1>4 DEF Take
  <2>2. b >= l
    <3>1. b \in Nat /\ l \in Nat
      BY LastByteEndsPage, AlignPage DEF FirstByte
    <3>2. ~(b < l)
      BY <1>1, <1>4, TakenPages, RemoveGoesOn
    <3> QED BY <3>1, <3>2
  <2>3. list' = [list EXCEPT !.stopped = TRUE]
    BY <2>1, <2>2 DEF Walk, RemoveGrant, RangeRemove
  <2>4. list'.stopped = TRUE
    <3>1. list \in [link : [Nodes -> Links], range : [Blocks -> Ranges], stopped : {FALSE}]
      BY <1>1, GoodFact DEF Holds
    <3> QED BY <2>3, <3>1
  <2> QED BY <1>1, <2>1, <2>4 DEF ListPart
<1>5. CASE Take(out, size, how) /\ ~RemoveStops(avail, b, l)
  <2>1. /\ avail' = range_remove(avail, b, l)
        /\ granted' = granted \cup {Grant(out, size, how)} /\ alive' = alive
    BY <1>5 DEF Take
  <2>2. b < l
    <3>1. b \in Nat /\ l \in Nat
      BY LastByteEndsPage, AlignPage DEF FirstByte
    <3>2. ~(b >= l)
      BY <1>5 DEF RemoveStops
    <3> QED BY <3>1, <3>2
  <2>3. PageCut(b, l)
    BY <2>2, TakenPages
  <2>4. list' = Now
    BY <2>1 DEF Walk
  <2>5. PICK g : g = Grant(out, size, how)
    OBVIOUS
  <2>6. g.out = out /\ g.size = size
    BY <2>5 DEF Grant
  <2> HIDE DEF b, l, Now
  <2> QED BY <1>2, <2>1, <2>3, <2>4, <2>5, <2>6
<1> QED BY <1>3, <1>4, <1>5

LEMMA ListInvNext == ListInv /\ [ListNext]_listVars => ListInv'
<1> SUFFICES ASSUME ListInv, [ListNext]_listVars PROVE ListInv'
  OBVIOUS
<1>1. [Next]_vars
  BY DEF ListNext, ListClaim, Walk, Next, Claim, listVars, vars
<1>2. WideInv /\ WideInv'
  BY <1>1, WideNext DEF ListInv
<1>3. CASE UNCHANGED listVars
  <2>1. UNCHANGED <<avail, granted, alive, list>>
    BY <1>3 DEF listVars, vars
  <2> QED BY <2>1, <1>2 DEF ListInv, ListPart
<1>4. ASSUME alive, Cardinality(granted) < MaxClaims + 3, NEW size \in Sizes, NEW addr \in Addrs,
             ClaimFixed(addr, size), Walk(addr, size)
      PROVE  ListPart'
  <2>1. addr \in 0 .. WordMod - 1 /\ size \in 0 .. WordMod - 1
    BY RequestAssumption
  <2>2. Refuse \/ Take(addr, size, "fixed")
    BY <1>4 DEF ClaimFixed
  <2> QED BY <1>4, <2>1, <2>2, WalkHolds
<1>5. ASSUME alive, Cardinality(granted) < MaxClaims + 3, NEW size \in Sizes, NEW align \in Aligns,
             ClaimArena(size, align), Walk(ALIGN_UP(claim_arena_ptr, align), size)
      PROVE  ListPart'
  <2> DEFINE out == ALIGN_UP(claim_arena_ptr, align)
  <2>1. out \in 0 .. WordMod - 1 /\ size \in 0 .. WordMod - 1
    <3>1. /\ claim_arena_ptr \in 0 .. WordMod - 1 /\ align \in 1 .. WordMod
          /\ WordMod \in Nat /\ IsMultiple(WordMod, align)
      BY <1>2, RequestAssumption, WordAssumption DEF WideInv, TypeOK
    <3> QED BY <3>1, RequestAssumption, AlignUpWord
  <2>2. Refuse \/ Take(out, size, "arena")
    BY <1>5 DEF ClaimArena
  <2> HIDE DEF out
  <2>3. Walk(out, size)
    BY <1>5 DEF out
  <2> QED BY <1>5, <2>1, <2>2, <2>3, WalkHolds
<1>6. CASE GetAvailable /\ UNCHANGED list
  <2>1. UNCHANGED <<avail, granted, list>> /\ alive /\ alive'
    BY <1>2, <1>6, GetAvailableGoesOn DEF GetAvailable
  <2>2. alive \in BOOLEAN /\ alive' \in BOOLEAN
    BY <1>2 DEF WideInv, TypeOK
  <2> QED BY <1>2, <2>1, <2>2 DEF ListInv, ListPart
<1>7. CASE ListClaim
  <2>1. ListPart'
    BY <1>4, <1>5, <1>7 DEF ListClaim
  <2> QED BY <1>2, <2>1 DEF ListInv
<1> QED BY <1>3, <1>6, <1>7 DEF ListNext

(* What the chain shows.                                                   *)
LEMMA ListShown == ListInv => ListIsAvail
<1> SUFFICES ASSUME ListInv, alive
             PROVE  /\ WellLinked(list.link, HEAD)
                    /\ {list_for_each(list.link, HEAD)[i] : i \in DOMAIN Held(list)}
                         = {b \in Blocks : list.range[b] # Free}
                    /\ \A i \in 1 .. Len(Held(list)) - 1 :
                         Held(list)[i].limit < Held(list)[i + 1].base
                    /\ {Held(list)[i] : i \in DOMAIN Held(list)} = avail
  BY DEF ListIsAvail, ListInv, ListPart
<1>1. PICK e : Good(list, e) /\ Contents(list, e) = avail
  BY DEF ListInv, ListPart, Holds
<1>2. /\ Chain(list.link, e) /\ Len(e) \in Nat /\ DOMAIN e = 1 .. Len(e)
      /\ e \in [1 .. Len(e) -> Blocks] /\ list.link \in [Nodes -> Links]
      /\ \A i, j \in 1 .. Len(e) : i < j => list.range[e[i]].limit < list.range[e[j]].base
  BY <1>1, GoodFact
<1>3. list_for_each(list.link, HEAD) = e
  BY <1>2, ListWalk
<1> DEFINE H == Held(list)
<1>4. H = [i \in DOMAIN e |-> list.range[e[i]]]
  BY <1>3 DEF Held
<1>5. DOMAIN H = 1 .. Len(e) /\ \A i \in 1 .. Len(e) : H[i] = list.range[e[i]]
  BY <1>2, <1>4
<1> HIDE DEF H
<1>6. Len(H) = Len(e)
  BY <1>2, <1>5, IntervalEnd
<1>7. WellLinked(list.link, HEAD)
  <2> DEFINE at(i) == IF i \in DOMAIN e THEN e[i] ELSE HEAD
  <2>1. \A i \in 0 .. Len(e) : /\ at(i) \in DOMAIN list.link /\ at(i + 1) \in DOMAIN list.link
                               /\ list.link[at(i)].next = at(i + 1)
                               /\ list.link[at(i + 1)].prev = at(i)
    BY <1>2 DEF Chain, Linked, At, Nodes
  <2> QED BY <1>3, <2>1 DEF WellLinked
<1>8. {e[i] : i \in 1 .. Len(e)} = {b \in Blocks : list.range[b] # Free}
  BY <1>1, <1>2 DEF Good
<1>9. \A i \in 1 .. Len(H) - 1 : H[i].limit < H[i + 1].base
  <2>1. ASSUME NEW i \in 1 .. Len(H) - 1 PROVE H[i].limit < H[i + 1].base
    <3>1. i \in 1 .. Len(e) /\ i + 1 \in 1 .. Len(e) /\ i < i + 1
      BY <1>2, <1>6
    <3> QED BY <3>1, <1>2, <1>5
  <2> QED BY <2>1
<1>10. {H[i] : i \in 1 .. Len(e)} = avail
  BY <1>1, <1>5 DEF Contents
<1> QED BY <1>3, <1>5, <1>7, <1>8, <1>9, <1>10 DEF H

(* Whatever is claimed, the blocks that range_remove deletes, trims and     *)
(* splits while it walks them stay linked both ways and sorted, and hold    *)
(* the ranges of RomClaims.                                                 *)
THEOREM ListStaysAvail == ListSpec => []ListIsAvail
<1> QED BY ListInvInit, ListInvNext, ListShown, PTL DEF ListSpec
=============================================================================
