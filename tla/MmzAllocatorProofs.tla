------------------------- MODULE MmzAllocatorProofs -------------------------
(***************************************************************************)
(* Proofs about MmzAllocator: for any zones that meet the conditions the     *)
(* allocator relies on, any sizes and alignments, and any width of a word.   *)
(***************************************************************************)
EXTENDS MmzAllocator, SequenceTheorems, WellFoundedInduction, TLAPS

(***************************************************************************)
(* Arithmetic and lists.                                                    *)
(***************************************************************************)
LEMMA DivIs == ASSUME NEW n \in Nat, NEW g \in Nat \ {0}
               PROVE  /\ n \div g \in Nat
                      /\ (n \div g) * g <= n /\ n < (n \div g) * g + g
  OBVIOUS

LEMMA AlignUpIs == ASSUME NEW x \in Nat, NEW g \in Nat \ {0}, x + g <= Word
                   PROVE  /\ AlignUp(x, g) \in Nat
                          /\ x <= AlignUp(x, g) /\ AlignUp(x, g) < x + g
<1>1. Add(x, g - 1) = x + (g - 1) /\ x + (g - 1) \in Nat
  BY WordAssumption DEF Add
<1> DEFINE n == x + (g - 1)
<1>2. /\ (n \div g) * g \in Nat
      /\ (n \div g) * g <= n /\ n < (n \div g) * g + g
  BY <1>1, DivIs
<1>3. AlignUp(x, g) = (n \div g) * g
  BY <1>1 DEF AlignUp
<1> HIDE DEF n
<1>4. n = x + (g - 1)
  BY DEF n
<1> DEFINE m == (n \div g) * g
<1>5. m \in Nat /\ m <= n /\ n < m + g /\ AlignUp(x, g) = m
  BY <1>2, <1>3 DEF n
<1> HIDE DEF m
<1> QED
  BY <1>4, <1>5

LEMMA MultipleIs == ASSUME NEW a \in Nat, NEW g \in Nat \ {0}, a % g = 0
                    PROVE  a = (a \div g) * g
  OBVIOUS

\* AlignUp goes no further than the next multiple.
LEMMA AlignUpLeast ==
    ASSUME NEW x \in Nat, NEW g \in Nat \ {0}, x + g <= Word,
           NEW a \in Nat, a % g = 0, x <= a
    PROVE  AlignUp(x, g) <= a
<1> DEFINE n == x + (g - 1)
           m == n \div g
           k == a \div g
<1>1. AlignUp(x, g) = m * g
  BY WordAssumption DEF AlignUp, Add
<1>2. m \in Nat /\ m * g <= n
  BY DivIs
<1>3. k \in Nat /\ a = k * g
  BY DivIs, MultipleIs
<1>4. n = x + (g - 1)
  OBVIOUS
<1> HIDE DEF n, m, k
<1>5. m <= k
  <2>1. CASE m >= k + 1
    <3>1. m * g >= (k + 1) * g
      BY <1>2, <1>3, <2>1
    <3>2. (k + 1) * g = k * g + g
      BY <1>3
    <3> QED
      BY <1>2, <1>3, <1>4, <3>1, <3>2
  <2> QED
    BY <1>2, <1>3, <2>1
<1>6. m * g <= k * g
  BY <1>2, <1>3, <1>5
<1> QED
  BY <1>1, <1>3, <1>6

\* a set of numbers has a least one
LEMMA LeastExists ==
    ASSUME NEW T \in SUBSET Nat, T # {}
    PROVE  \E x \in T : \A y \in T : x <= y
<1> DEFINE R == {ss \in Nat \X Nat : ss[1] < ss[2]}
<1>1. IsWellFoundedOn(R, Nat)
  BY NatLessThanWellFounded DEF OpToRel
<1>2. \A x, y \in Nat : y < x => <<y, x>> \in R
  OBVIOUS
<1> HIDE DEF R
<1>3. PICK x \in T : \A y \in T : ~(<<y, x>> \in R)
  BY <1>1, WFMin
<1>4. ASSUME NEW y \in T PROVE x <= y
  <2>1. x \in Nat /\ y \in Nat
    OBVIOUS
  <2>2. ~(y < x)
    BY <1>2, <1>3, <2>1
  <2> QED
    BY <2>1, <2>2
<1> QED
  BY <1>4

LEMMA InsertedIs ==
    ASSUME NEW S, NEW s \in Seq(S), NEW i \in 1 .. Len(s) + 1, NEW b \in S
    PROVE  /\ InsertAt(s, i, b) \in Seq(S)
           /\ Len(InsertAt(s, i, b)) = Len(s) + 1
           /\ \A j \in 1 .. Len(s) + 1 :
                 InsertAt(s, i, b)[j] = IF j < i THEN s[j]
                                        ELSE IF j = i THEN b ELSE s[j - 1]
<1> DEFINE u == SubSeq(s, 1, i - 1)
           v == <<b>>
           w == SubSeq(s, i, Len(s))
<1>1. u \in Seq(S) /\ Len(u) = i - 1 /\ \A j \in 1 .. i - 1 : u[j] = s[j]
  OBVIOUS
<1>2. w \in Seq(S) /\ Len(w) = Len(s) - i + 1
      /\ \A j \in 1 .. Len(s) - i + 1 : w[j] = s[i + j - 1]
  OBVIOUS
<1>3. v \in Seq(S) /\ Len(v) = 1 /\ v[1] = b
  OBVIOUS
<1>4. Len(s) \in Nat
  OBVIOUS
<1> HIDE DEF u, v, w
<1>5. (u \o v) \in Seq(S) /\ Len(u \o v) = i
      /\ \A j \in 1 .. i : (u \o v)[j] = IF j < i THEN s[j] ELSE b
  <2>1. (u \o v) \in Seq(S) /\ Len(u \o v) = Len(u) + Len(v)
        /\ \A j \in 1 .. Len(u) + Len(v) :
              (u \o v)[j] = IF j <= Len(u) THEN u[j] ELSE v[j - Len(u)]
    BY <1>1, <1>3, ConcatProperties
  <2>2. Len(u) + Len(v) = i
    BY <1>1, <1>3
  <2>3. ASSUME NEW j \in 1 .. i PROVE (u \o v)[j] = IF j < i THEN s[j] ELSE b
    <3>1. CASE j < i
      BY <1>1, <2>1, <2>2, <3>1
    <3>2. CASE j = i
      <4>1. (u \o v)[j] = v[j - (i - 1)] /\ j - (i - 1) = 1
        BY <1>1, <2>1, <2>2, <3>2
      <4> QED
        BY <1>3, <3>2, <4>1
    <3>3. j < i \/ j = i
      BY <1>4
    <3> QED
      BY <3>1, <3>2, <3>3, Zenon
  <2> QED
    BY <2>1, <2>2, <2>3
<1> DEFINE x == u \o v
<1>6. x \in Seq(S) /\ Len(x) = i /\ \A j \in 1 .. i : x[j] = IF j < i THEN s[j] ELSE b
  BY <1>5
<1> HIDE DEF x
<1>7. (x \o w) \in Seq(S) /\ Len(x \o w) = Len(x) + Len(w)
      /\ \A j \in 1 .. Len(x) + Len(w) :
            (x \o w)[j] = IF j <= Len(x) THEN x[j] ELSE w[j - Len(x)]
  BY <1>2, <1>6, ConcatProperties
<1>8. Len(x) + Len(w) = Len(s) + 1
  BY <1>2, <1>4, <1>6
<1>9. ASSUME NEW j \in 1 .. Len(s) + 1
      PROVE  (x \o w)[j] = IF j < i THEN s[j] ELSE IF j = i THEN b ELSE s[j - 1]
  <2>1. CASE j <= i
    <3>1. (x \o w)[j] = x[j] /\ j \in 1 .. i
      BY <1>6, <1>7, <1>8, <2>1
    <3>2. x[j] = IF j < i THEN s[j] ELSE b
      BY <1>6, <3>1
    <3> QED
      BY <2>1, <3>1, <3>2
  <2>2. CASE j > i
    <3>1. (x \o w)[j] = w[j - i] /\ j - i \in 1 .. Len(s) - i + 1
      BY <1>4, <1>6, <1>7, <1>8, <2>2
    <3>2. i + (j - i) - 1 = j - 1
      OBVIOUS
    <3> QED
      BY <1>2, <2>2, <3>1, <3>2
  <2>3. j <= i \/ j > i
    BY <1>4
  <2> QED
    BY <2>1, <2>2, <2>3, Zenon
<1> QED
  BY <1>7, <1>8, <1>9 DEF InsertAt, x, u, v, w

LEMMA RemovedIs ==
    ASSUME NEW S, NEW s \in Seq(S), NEW i \in 1 .. Len(s)
    PROVE  /\ RemoveAt(s, i) \in Seq(S)
           /\ Len(RemoveAt(s, i)) = Len(s) - 1
           /\ \A j \in 1 .. Len(s) - 1 :
                 RemoveAt(s, i)[j] = IF j < i THEN s[j] ELSE s[j + 1]
<1> DEFINE a == SubSeq(s, 1, i - 1)
           b == SubSeq(s, i + 1, Len(s))
<1>1. a \in Seq(S) /\ Len(a) = i - 1 /\ \A j \in 1 .. i - 1 : a[j] = s[j]
  OBVIOUS
<1>2. b \in Seq(S) /\ Len(b) = Len(s) - i /\ \A j \in 1 .. Len(s) - i : b[j] = s[i + j]
  OBVIOUS
<1>3. Len(s) \in Nat
  OBVIOUS
<1> HIDE DEF a, b
<1>4. a \o b \in Seq(S) /\ Len(a \o b) = Len(a) + Len(b)
      /\ \A j \in 1 .. Len(a) + Len(b) :
            (a \o b)[j] = IF j <= Len(a) THEN a[j] ELSE b[j - Len(a)]
  BY <1>1, <1>2, ConcatProperties
<1>5. Len(a) + Len(b) = Len(s) - 1
  BY <1>1, <1>2, <1>3
<1>6. ASSUME NEW j \in 1 .. Len(s) - 1
      PROVE  (a \o b)[j] = IF j < i THEN s[j] ELSE s[j + 1]
  <2>1. CASE j < i
    BY <1>1, <1>4, <1>5, <2>1
  <2>2. CASE ~(j < i)
    <3>1. (a \o b)[j] = b[j - (i - 1)] /\ j - (i - 1) \in 1 .. Len(s) - i
      BY <1>1, <1>3, <1>4, <1>5, <2>2
    <3>2. i + (j - (i - 1)) = j + 1
      OBVIOUS
    <3> QED
      BY <1>2, <2>2, <3>1, <3>2
  <2> QED
    BY <2>1, <2>2
<1> QED
  BY <1>4, <1>5, <1>6 DEF RemoveAt, a, b
-----------------------------------------------------------------------------
(***************************************************************************)
(* One zone: a list in address order, a region found beside it, the list     *)
(* with a block there and the list without a block.                         *)
(***************************************************************************)
InZone(z, b) == Zones[z].phys_start <= b.phys_addr /\ Behind(b) <= ZoneEnd(z)

InOrder(z, s) ==
    /\ \A i, j \in 1 .. Len(s) : i < j => Behind(s[i]) <= s[j].phys_addr
    /\ \A i \in 1 .. Len(s) : InZone(z, s[i])

\* memory that may be given to a new block
FreeOf(z, s, b) ==
    /\ InZone(z, b)
    /\ \A i \in 1 .. Len(s) : Behind(s[i]) <= b.phys_addr \/ Behind(b) <= s[i].phys_addr

LEMMA ZoneIs == ASSUME NEW z \in ZoneIds
                PROVE  /\ Zones[z] \in Zone /\ Zones[z].phys_start \in Nat
                       /\ ZoneEnd(z) \in Nat /\ ZoneEnd(z) < Word
                       /\ Zones[z].phys_start <= ZoneEnd(z)
<1>1. Zones[z] \in Zone
  BY ZonesAssumption DEF ZoneIds
<1>2. Zones[z].phys_start \in Nat /\ Zones[z].nbytes \in Nat
  BY <1>1 DEF Zone
<1> QED
  BY <1>1, <1>2, ZonesAssumption DEF ZoneEnd

LEMMA BlockIs == ASSUME NEW b \in Block
                 PROVE  /\ b.phys_addr \in Nat /\ b.length \in Nat \ {0}
                        /\ Behind(b) \in Nat /\ b.phys_addr < Behind(b)
  BY DEF Block, Behind

\* a zone and a request that do not wrap around
Suits(z, len, align) ==
    /\ AlignUp(Zones[z].phys_start, align) = Zones[z].phys_start
    /\ ZoneEnd(z) + len + align <= Word

LEMMA BlocksAre ==
    ASSUME NEW z \in ZoneIds, NEW s \in Seq(Block), InOrder(z, s), NEW j \in 1 .. Len(s)
    PROVE  /\ s[j].phys_addr \in Nat /\ Behind(s[j]) \in Nat
           /\ s[j].phys_addr < Behind(s[j])
           /\ Zones[z].phys_start <= s[j].phys_addr /\ Behind(s[j]) <= ZoneEnd(z)
           /\ End(s[j]) = Behind(s[j])
<1>1. /\ s[j].phys_addr \in Nat /\ Behind(s[j]) \in Nat
      /\ s[j].phys_addr < Behind(s[j])
  BY BlockIs
<1>2. Zones[z].phys_start <= s[j].phys_addr /\ Behind(s[j]) <= ZoneEnd(z)
  BY DEF InOrder, InZone
<1>3. Behind(s[j]) = s[j].phys_addr + s[j].length
  BY DEF Behind
<1>4. End(s[j]) = Behind(s[j])
  BY <1>1, <1>2, <1>3, ZoneIs, WordAssumption DEF End, Add
<1> QED
  BY <1>1, <1>2, <1>4

\* where a gap begins: at the first multiple behind the block before it
LEMMA GapStartIs ==
    ASSUME NEW z \in ZoneIds, NEW s \in Seq(Block), InOrder(z, s),
           NEW len \in Nat, NEW align \in Nat \ {0}, Suits(z, len, align),
           NEW i \in 0 .. Len(s)
    PROVE  /\ GapStart(z, s, align, i) \in Nat
           /\ Zones[z].phys_start <= GapStart(z, s, align, i)
           /\ GapStart(z, s, align, i) < ZoneEnd(z) + align
           /\ i # 0 => Behind(s[i]) <= GapStart(z, s, align, i)
           /\ i = 0 => GapStart(z, s, align, i) = Zones[z].phys_start
           /\ \A a \in Nat : /\ a % align = 0 /\ Zones[z].phys_start <= a
                             /\ i # 0 => Behind(s[i]) <= a
                             => GapStart(z, s, align, i) <= a
<1> DEFINE first == Zones[z].phys_start
           end == ZoneEnd(z)
           a == GapStart(z, s, align, i)
<1>1. /\ first \in Nat /\ end \in Nat /\ first <= end /\ Word \in Nat /\ Len(s) \in Nat
      /\ end + len + align <= Word
  BY ZoneIs, WordAssumption DEF Suits
<1>2. CASE i = 0
  <2>1. a = first
    BY <1>2 DEF GapStart, Suits
  <2> HIDE DEF a
  <2> QED
    BY <1>1, <1>2, <2>1 DEF a
<1>3. CASE i # 0
  <2>1. i \in 1 .. Len(s)
    BY <1>1, <1>3
  <2>2. /\ s[i].phys_addr \in Nat /\ Behind(s[i]) \in Nat /\ s[i].phys_addr < Behind(s[i])
        /\ first <= s[i].phys_addr /\ Behind(s[i]) <= end /\ End(s[i]) = Behind(s[i])
    BY <2>1, BlocksAre
  <2>3. a = AlignUp(Behind(s[i]), align)
    BY <1>3, <2>2 DEF GapStart
  <2>4. Behind(s[i]) + align <= Word
    BY <1>1, <2>2
  <2>5. a \in Nat /\ Behind(s[i]) <= a /\ a < Behind(s[i]) + align
    BY <2>2, <2>3, <2>4, AlignUpIs
  <2>6. \A c \in Nat : c % align = 0 /\ Behind(s[i]) <= c => a <= c
    BY <2>2, <2>3, <2>4, AlignUpLeast
  <2>7. first <= a /\ a < end + align
    <3> HIDE DEF a, first, end
    <3> QED
      BY <1>1, <2>2, <2>5
  <2>8. \A c \in Nat : c % align = 0 /\ first <= c /\ (i # 0 => Behind(s[i]) <= c) => a <= c
    BY <1>3, <2>6, Zenon
  <2> QED
    BY <1>3, <2>5, <2>7, <2>8, Zenon
<1> QED
  BY <1>2, <1>3

\* Whatever gap is chosen, what find_fixed_region returns of it is free.
LEMMA RegionIsFree ==
    ASSUME NEW z \in ZoneIds, NEW s \in Seq(Block), InOrder(z, s),
           NEW len \in Nat \ {0}, NEW align \in Nat \ {0}, Suits(z, len, align),
           NEW a \in FindFixedRegion(z, s, len, align)
    PROVE  /\ [phys_addr |-> a, length |-> len] \in Block
           /\ FreeOf(z, s, [phys_addr |-> a, length |-> len])
<1> DEFINE b == [phys_addr |-> a, length |-> len]
           first == Zones[z].phys_start
           end == ZoneEnd(z)
<1>1. /\ first \in Nat /\ end \in Nat /\ end < Word /\ first <= end /\ Word \in Nat
      /\ Len(s) \in Nat /\ end + len + align <= Word
  BY ZoneIs, WordAssumption DEF Suits
<1>2. PICK i \in 0 .. Len(s) :
          /\ a = GapStart(z, s, align, i)
          /\ i = Len(s) => CheckLast(z, a, len)
          /\ s # <<>> => Fits(z, s, len, align, i)
  BY DEF FindFixedRegion, BestGap
<1>3. \A j \in 1 .. Len(s) : /\ s[j].phys_addr \in Nat /\ Behind(s[j]) \in Nat
                             /\ s[j].phys_addr < Behind(s[j])
                             /\ first <= s[j].phys_addr /\ Behind(s[j]) <= end
  BY BlocksAre
<1> DEFINE limit == GapLimit(z, s, i)
<1>4. /\ a \in Nat /\ first <= a /\ a < end + align
      /\ i # 0 => Behind(s[i]) <= a
      /\ i = 0 => a = first
  BY <1>2, GapStartIs
<1>5. a + len <= end /\ (i # Len(s) => a + len <= s[i + 1].phys_addr)
  <2>1. CASE i = Len(s)
    <3>1. Add(a, len) <= end /\ a < end
      BY <1>2, <2>1 DEF CheckLast
    <3>2. a + len < Word
      BY <1>1, <1>4, <3>1
    <3> QED
      BY <1>1, <1>4, <2>1, <3>1, <3>2 DEF Add
  <2>2. CASE i # Len(s)
    <3>1. i + 1 \in 1 .. Len(s) /\ s # <<>> /\ limit = s[i + 1].phys_addr
      BY <1>1, <2>2 DEF GapLimit
    <3>2. s[i + 1].phys_addr \in Nat /\ s[i + 1].phys_addr < end /\ first <= s[i + 1].phys_addr
      BY <1>1, <1>3, <3>1
    <3>3. Fits(z, s, len, align, i)
      BY <1>2, <3>1
    <3>4. CASE i = 0
      <4>1. Sub(limit, a) >= len
        BY <1>2, <3>3 DEF Fits, BlankLen
      <4>2. a <= limit /\ limit \in Nat /\ limit < end
        BY <1>4, <3>1, <3>2, <3>4
      <4> HIDE DEF limit, first, end, b
      <4>3. a + len <= limit
        BY <1>1, <1>4, <4>1, <4>2 DEF Sub
      <4> QED
        BY <1>1, <1>4, <3>1, <4>2, <4>3
    <3>5. CASE i # 0
      <4>1. Add(a, len) <= limit
        BY <1>1, <1>2, <2>2, <3>3, <3>5 DEF Fits
      <4>2. a + len < Word
        BY <1>1, <1>4
      <4> QED
        BY <1>1, <1>4, <3>1, <3>2, <4>1, <4>2 DEF Add
    <3> QED
      BY <3>4, <3>5
  <2> QED
    BY <2>1, <2>2
<1>6. b \in Block
  BY <1>4 DEF Block
<1>7. b.phys_addr = a /\ Behind(b) = a + len
  BY DEF Behind
<1>8. InZone(z, b)
  BY <1>4, <1>5, <1>7 DEF InZone
<1>9. ASSUME NEW j \in 1 .. Len(s)
      PROVE  Behind(s[j]) <= a \/ a + len <= s[j].phys_addr
  <2>1. CASE j <= i
    <3>1. i \in 1 .. Len(s) /\ Behind(s[i]) <= a
      BY <1>1, <1>4, <2>1
    <3>2. j = i \/ Behind(s[j]) <= s[i].phys_addr
      BY <2>1, <3>1 DEF InOrder
    <3> QED
      BY <1>3, <1>4, <3>1, <3>2
  <2>2. CASE j > i
    <3>1. i + 1 \in 1 .. Len(s) /\ a + len <= s[i + 1].phys_addr
      BY <1>1, <1>5, <2>2
    <3>2. j = i + 1 \/ Behind(s[i + 1]) <= s[j].phys_addr
      BY <2>2, <3>1 DEF InOrder
    <3>3. /\ s[i + 1].phys_addr \in Nat /\ Behind(s[i + 1]) \in Nat
          /\ s[i + 1].phys_addr < Behind(s[i + 1]) /\ s[j].phys_addr \in Nat
      BY <1>3, <3>1
    <3> HIDE DEF b, limit, first, end
    <3> QED
      BY <1>4, <3>1, <3>2, <3>3
  <2>3. j <= i \/ j > i
    BY <1>1
  <2> QED
    BY <2>1, <2>2, <2>3, Zenon
<1> HIDE DEF b
<1>10. FreeOf(z, s, b)
  BY <1>7, <1>8, <1>9 DEF FreeOf
<1> QED
  BY <1>6, <1>10 DEF b

\* One of the gaps that fit is the best one.
LEMMA BestExists ==
    ASSUME NEW F \in SUBSET Nat, F # {}, NEW f \in [F -> Nat]
    PROVE  \E i \in F : \A j \in F : f[i] < f[j] \/ (f[i] = f[j] /\ i <= j)
<1> DEFINE B == {f[i] : i \in F}
<1>1. B \in SUBSET Nat /\ B # {}
  OBVIOUS
<1>2. PICK v \in B : \A w \in B : v <= w
  <2> HIDE DEF B
  <2> QED
    BY <1>1, LeastExists
<1>3. v \in Nat /\ \A j \in F : v <= f[j]
  BY <1>1, <1>2
<1> DEFINE T == {i \in F : f[i] = v}
<1>4. T \in SUBSET Nat /\ T # {}
  BY <1>2
<1>5. PICK i \in T : \A j \in T : i <= j
  <2> HIDE DEF T
  <2> QED
    BY <1>4, LeastExists
<1>6. i \in F /\ f[i] = v
  BY <1>5
<1>7. ASSUME NEW j \in F PROVE f[i] < f[j] \/ (f[i] = f[j] /\ i <= j)
  <2>1. f[j] \in Nat /\ v <= f[j]
    BY <1>3
  <2>2. f[j] = v => i <= j
    BY <1>5
  <2> QED
    BY <1>3, <1>6, <2>1, <2>2
<1> QED
  BY <1>6, <1>7

\* A hole lies in one gap, which fits.
LEMMA HoleIsInGap ==
    ASSUME NEW z \in ZoneIds, NEW s \in Seq(Block), InOrder(z, s), s # <<>>,
           NEW len \in Nat \ {0}, NEW align \in Nat \ {0}, Suits(z, len, align),
           NEW a \in Nat, a % align = 0,
           Zones[z].phys_start <= a, a + len <= ZoneEnd(z),
           \A i \in 1 .. Len(s) : Behind(s[i]) <= a \/ a + len <= s[i].phys_addr
    PROVE  \E i \in 0 .. Len(s) :
              /\ Fits(z, s, len, align, i)
              /\ BlankLen(z, s, align, i) <= ZoneEnd(z)
<1> DEFINE first == Zones[z].phys_start
           end == ZoneEnd(z)
           T == {j \in 1 .. Len(s) + 1 : j <= Len(s) => a + len <= s[j].phys_addr}
<1>1. /\ first \in Nat /\ end \in Nat /\ end < Word /\ Word \in Nat
      /\ Len(s) \in Nat /\ end + len + align <= Word
  BY ZoneIs, WordAssumption DEF Suits
<1>2. T \in SUBSET Nat /\ Len(s) + 1 \in T
  BY <1>1
<1>3. PICK n \in T : \A j \in T : n <= j
  <2> HIDE DEF T
  <2> QED
    BY <1>2, LeastExists
<1>4. /\ n \in 1 .. Len(s) + 1 /\ (n <= Len(s) => a + len <= s[n].phys_addr)
      /\ \A j \in 1 .. Len(s) : j < n => ~(a + len <= s[j].phys_addr)
  <2>1. n \in 1 .. Len(s) + 1 /\ (n <= Len(s) => a + len <= s[n].phys_addr)
    BY <1>3
  <2>2. ASSUME NEW j \in 1 .. Len(s), j < n, a + len <= s[j].phys_addr
        PROVE  FALSE
    <3>1. j \in T
      BY <1>1, <2>2
    <3> QED
      BY <1>1, <1>3, <2>1, <2>2, <3>1
  <2> QED
    BY <2>1, <2>2
<1> HIDE DEF T
<1> DEFINE i == n - 1
           start == GapStart(z, s, align, i)
           limit == GapLimit(z, s, i)
<1>5. i \in 0 .. Len(s) /\ n = i + 1
  BY <1>1, <1>4
<1>6. i # 0 => Behind(s[i]) <= a
  <2> SUFFICES ASSUME i # 0 PROVE Behind(s[i]) <= a
    OBVIOUS
  <2>1. i \in 1 .. Len(s) /\ i < n
    BY <1>1, <1>5
  <2> QED
    BY <1>4, <2>1
<1> HIDE DEF i
<1>7. start \in Nat /\ start <= a
  BY <1>5, <1>6, GapStartIs
<1>8. limit \in Nat /\ a + len <= limit /\ limit <= end
  <2>1. CASE i = Len(s)
    BY <1>1, <2>1 DEF GapLimit
  <2>2. CASE i # Len(s)
    <3>1. n \in 1 .. Len(s) /\ limit = s[n].phys_addr /\ a + len <= s[n].phys_addr
      BY <1>1, <1>4, <1>5, <2>2 DEF GapLimit
    <3>2. /\ s[n].phys_addr \in Nat /\ Behind(s[n]) \in Nat
          /\ s[n].phys_addr < Behind(s[n]) /\ Behind(s[n]) <= end
      BY <3>1, BlocksAre
    <3> HIDE DEF limit
    <3> QED
      BY <1>1, <3>1, <3>2
  <2> QED
    BY <2>1, <2>2
<1> HIDE DEF start, limit
<1>9. Add(start, len) = start + len /\ Sub(limit, start) = limit - start
  BY <1>1, <1>7, <1>8 DEF Add, Sub
<1>10. BlankLen(z, s, align, i) = limit - start
  BY <1>9 DEF BlankLen, start, limit
<1>11. Fits(z, s, len, align, i)
  <2>1. start + len <= limit /\ limit - start >= len
    BY <1>7, <1>8
  <2> QED
    BY <1>9, <1>10, <2>1 DEF Fits, start, limit
<1>12. BlankLen(z, s, align, i) <= end
  BY <1>1, <1>7, <1>8, <1>10
<1> QED
  BY <1>5, <1>11, <1>12

\* find_fixed_region finds a region if there is a hole.
LEMMA HoleIsFound ==
    ASSUME NEW z \in ZoneIds, NEW s \in Seq(Block), InOrder(z, s),
           Zones[z].phys_start # 0,
           NEW len \in Nat \ {0}, NEW align \in Nat \ {0}, Suits(z, len, align),
           NEW a \in Nat, a % align = 0,
           Zones[z].phys_start <= a, a + len <= ZoneEnd(z),
           \A i \in 1 .. Len(s) : Behind(s[i]) <= a \/ a + len <= s[i].phys_addr
    PROVE  FindFixedRegion(z, s, len, align) # {}
<1> DEFINE first == Zones[z].phys_start
           end == ZoneEnd(z)
           start(i) == GapStart(z, s, align, i)
           blank(i) == BlankLen(z, s, align, i)
           fit == {i \in 0 .. Len(s) : s # <<>> => Fits(z, s, len, align, i)}
<1>1. /\ first \in Nat \ {0} /\ end \in Nat /\ end < Word /\ Word \in Nat
      /\ Len(s) \in Nat /\ end + len + align <= Word
  BY ZoneIs, WordAssumption DEF Suits
<1>2. ASSUME NEW i \in 0 .. Len(s)
      PROVE  /\ start(i) \in Nat /\ first <= start(i) /\ start(i) < end + align
             /\ i = 0 => start(i) = first
  <2> DEFINE from == GapStart(z, s, align, i)
  <2>1. /\ from \in Nat /\ Zones[z].phys_start <= from /\ from < ZoneEnd(z) + align
        /\ i = 0 => from = Zones[z].phys_start
    <3> HIDE DEF fit, first, end, start, blank
    <3> QED
      BY GapStartIs
  <2> QED
    BY <2>1, Zenon
<1>3. ASSUME NEW i \in 0 .. Len(s) PROVE blank(i) \in Nat
  <2>1. GapLimit(z, s, i) \in Nat
    <3>1. CASE i = Len(s)
      BY <1>1, <3>1 DEF GapLimit
    <3>2. CASE i # Len(s)
      <4>1. i + 1 \in 1 .. Len(s) /\ GapLimit(z, s, i) = s[i + 1].phys_addr
        BY <1>1, <3>2 DEF GapLimit
      <4> QED
        BY <4>1, BlocksAre
    <3> QED
      BY <3>1, <3>2
  <2>2. start(i) \in Nat /\ start(i) < Word
    BY <1>1, <1>2
  <2> DEFINE limit == GapLimit(z, s, i)
             from == start(i)
  <2>3. limit \in Nat /\ from \in Nat /\ from < Word
    BY <2>1, <2>2
  <2>4. blank(i) = Sub(limit, from)
    BY DEF BlankLen
  <2>5. Sub(limit, from) \in Nat
    <3> HIDE DEF limit, from, blank, fit, first, end
    <3> QED
      BY <1>1, <2>3 DEF Sub
  <2> QED
    BY <2>4, <2>5, Zenon
<1>4. PICK g \in BestGap(z, s, len, align) : g \in 0 .. Len(s) /\ (g = Len(s) => CheckLast(z, start(g), len))
  <2>1. CASE s = <<>>
    <3>1. Len(s) = 0
      BY <2>1
    <3>2. 0 \in BestGap(z, s, len, align)
      <4>1. fit = {0}
        BY <2>1, <3>1
      <4> QED
        BY <4>1 DEF BestGap
    <3>3. start(0) = first
      BY <1>1, <1>2
    <3>4. CheckLast(z, first, len)
      BY <1>1 DEF CheckLast, Add
    <3> QED
      BY <3>1, <3>2, <3>3, <3>4
  <2>2. CASE s # <<>>
    <3>1. PICK h \in 0 .. Len(s) : Fits(z, s, len, align, h) /\ blank(h) <= end
      BY <2>2, HoleIsInGap
    <3> DEFINE f == [i \in fit |-> blank(i)]
    <3>2. fit \in SUBSET Nat /\ fit # {} /\ f \in [fit -> Nat]
      BY <1>3, <3>1
    <3>3. PICK g \in fit : \A j \in fit : f[g] < f[j] \/ (f[g] = f[j] /\ g <= j)
      <4> HIDE DEF fit, f
      <4> QED
        BY <3>2, BestExists
    <3>4. g \in BestGap(z, s, len, align)
      BY <3>3 DEF BestGap
    <3>5. g \in 0 .. Len(s) /\ Fits(z, s, len, align, g)
      BY <2>2
    <3>6. blank(g) <= end
      <4>1. h \in fit /\ f[g] = blank(g) /\ f[h] = blank(h)
        BY <3>1
      <4>2. blank(g) < blank(h) \/ blank(g) = blank(h)
        BY <3>3, <4>1
      <4>3. blank(g) \in Nat /\ blank(h) \in Nat
        BY <1>3, <3>5
      <4> HIDE DEF blank
      <4> QED
        BY <1>1, <3>1, <4>2, <4>3
    <3>7. ASSUME g = Len(s) PROVE CheckLast(z, start(g), len)
      <4>1. blank(g) = Sub(end, start(g)) /\ blank(g) >= len
        BY <3>5, <3>7 DEF Fits, BlankLen, GapLimit
      <4>2. start(g) \in Nat /\ first <= start(g) /\ start(g) < end + align
        BY <1>2, <3>5
      <4> HIDE DEF start, blank, end, first
      <4>3. start(g) <= end
        BY <1>1, <3>6, <4>1, <4>2 DEF Sub
      <4>4. start(g) + len <= end
        BY <1>1, <4>1, <4>2, <4>3 DEF Sub
      <4>5. Add(start(g), len) <= end /\ start(g) >= first /\ start(g) < end
        BY <1>1, <4>2, <4>4 DEF Add
      <4> QED
        BY <4>5 DEF CheckLast, first, end
    <3> QED
      BY <3>4, <3>5, <3>7
  <2> QED
    BY <2>1, <2>2
<1>5. start(g) \in FindFixedRegion(z, s, len, align)
  <2>1. start(g) # 0
    BY <1>1, <1>2, <1>4
  <2> QED
    BY <1>4, <2>1 DEF FindFixedRegion
<1> QED
  BY <1>5

\* The place InsertSorted finds keeps the list in address order.
LEMMA InsertKeepsOrder ==
    ASSUME NEW z \in ZoneIds, NEW s \in Seq(Block), InOrder(z, s),
           NEW b \in Block, FreeOf(z, s, b), NEW t \in InsertSorted(s, b)
    PROVE  t \in Seq(Block) /\ InOrder(z, t)
<1>1. PICK i \in 1 .. Len(s) + 1 :
          /\ t = InsertAt(s, i, b)
          /\ \A j \in 1 .. i - 1 : s[j].phys_addr <= b.phys_addr
          /\ i <= Len(s) => b.phys_addr < s[i].phys_addr
  BY DEF InsertSorted
<1>2. /\ t \in Seq(Block) /\ Len(t) = Len(s) + 1
      /\ \A j \in 1 .. Len(s) + 1 :
            t[j] = IF j < i THEN s[j] ELSE IF j = i THEN b ELSE s[j - 1]
  <2>1. /\ InsertAt(s, i, b) \in Seq(Block) /\ Len(InsertAt(s, i, b)) = Len(s) + 1
        /\ \A j \in 1 .. Len(s) + 1 :
              InsertAt(s, i, b)[j] = IF j < i THEN s[j]
                                     ELSE IF j = i THEN b ELSE s[j - 1]
    BY InsertedIs
  <2>2. t = InsertAt(s, i, b)
    BY <1>1, Zenon
  <2> QED
    BY <2>1, <2>2, Zenon
<1>3. Len(s) \in Nat /\ \A j \in 1 .. Len(s) : s[j] \in Block
  OBVIOUS
<1> DEFINE lo(j) == s[j].phys_addr
           hi(j) == Behind(s[j])
<1>4. /\ \A j \in 1 .. Len(s) : lo(j) \in Nat /\ hi(j) \in Nat /\ lo(j) < hi(j)
      /\ b.phys_addr \in Nat /\ Behind(b) \in Nat /\ b.phys_addr < Behind(b)
  BY <1>3, BlockIs
<1>5. \A j, k \in 1 .. Len(s) : j < k => hi(j) <= lo(k)
  BY DEF InOrder
<1>6. \A j \in 1 .. Len(s) : hi(j) <= b.phys_addr \/ Behind(b) <= lo(j)
  BY DEF FreeOf
<1> HIDE DEF lo, hi
<1>7. ASSUME NEW j \in 1 .. Len(s), j < i
      PROVE  hi(j) <= b.phys_addr
  <2>1. lo(j) <= b.phys_addr
    BY <1>1, <1>3, <1>7 DEF lo
  <2> QED
    BY <1>4, <1>6, <2>1
<1>8. ASSUME NEW j \in 1 .. Len(s), j >= i
      PROVE  Behind(b) <= lo(j)
  <2>1. i \in 1 .. Len(s) /\ b.phys_addr < lo(i)
    BY <1>1, <1>3, <1>8 DEF lo
  <2>2. b.phys_addr < lo(j)
    <3>1. i = j \/ hi(i) <= lo(j)
      BY <1>5, <1>8, <2>1
    <3> QED
      BY <1>4, <2>1, <3>1
  <2> QED
    BY <1>4, <1>6, <2>2
<1>9. ASSUME NEW j \in 1 .. Len(t), NEW k \in 1 .. Len(t), j < k
      PROVE  Behind(t[j]) <= t[k].phys_addr
  <2>1. CASE k < i
    <3>1. j \in 1 .. Len(s) /\ k \in 1 .. Len(s) /\ t[j] = s[j] /\ t[k] = s[k]
      BY <1>2, <1>3, <1>9, <2>1
    <3> QED
      BY <1>5, <1>9, <3>1 DEF lo, hi
  <2>2. CASE k = i
    <3>1. j \in 1 .. Len(s) /\ j < i /\ t[j] = s[j] /\ t[k] = b
      BY <1>2, <1>3, <1>9, <2>2
    <3> QED
      BY <1>7, <3>1 DEF hi
  <2>3. CASE k > i
    <3>1. k - 1 \in 1 .. Len(s) /\ k - 1 >= i /\ t[k] = s[k - 1]
      BY <1>2, <1>3, <2>3
    <3>2. CASE j < i
      <4>1. j \in 1 .. Len(s) /\ j < k - 1 /\ t[j] = s[j]
        BY <1>2, <1>3, <3>1, <3>2
      <4> QED
        BY <1>5, <3>1, <4>1 DEF lo, hi
    <3>3. CASE j = i
      <4>1. t[j] = b
        BY <1>2, <1>3, <3>3
      <4> QED
        BY <1>8, <3>1, <4>1 DEF lo
    <3>4. CASE j > i
      <4>1. j - 1 \in 1 .. Len(s) /\ j - 1 < k - 1 /\ t[j] = s[j - 1]
        BY <1>2, <1>3, <1>9, <3>4
      <4> QED
        BY <1>5, <3>1, <4>1 DEF lo, hi
    <3>5. j < i \/ j = i \/ j > i
      BY <1>3
    <3> QED
      BY <3>2, <3>3, <3>4, <3>5, Zenon
  <2>4. k < i \/ k = i \/ k > i
    BY <1>3
  <2> QED
    BY <2>1, <2>2, <2>3, <2>4, Zenon
<1>10. ASSUME NEW j \in 1 .. Len(t) PROVE InZone(z, t[j])
  <2>1. t[j] = b \/ \E k \in 1 .. Len(s) : t[j] = s[k]
    <3>1. j < i => j \in 1 .. Len(s) /\ t[j] = s[j]
      BY <1>2, <1>3
    <3>2. j = i => t[j] = b
      BY <1>2, <1>3
    <3>3. j > i => j - 1 \in 1 .. Len(s) /\ t[j] = s[j - 1]
      BY <1>2, <1>3
    <3>4. j < i \/ j = i \/ j > i
      BY <1>3
    <3> QED
      BY <3>1, <3>2, <3>3, <3>4, Zenon
  <2> QED
    BY <2>1 DEF FreeOf, InOrder
<1> QED
  BY <1>2, <1>9, <1>10 DEF InOrder

LEMMA RemoveKeepsOrder ==
    ASSUME NEW z \in ZoneIds, NEW s \in Seq(Block), InOrder(z, s), NEW i \in 1 .. Len(s)
    PROVE  RemoveAt(s, i) \in Seq(Block) /\ InOrder(z, RemoveAt(s, i))
<1> DEFINE t == RemoveAt(s, i)
<1>1. /\ t \in Seq(Block) /\ Len(t) = Len(s) - 1 /\ Len(s) \in Nat
      /\ \A j \in 1 .. Len(t) : t[j] = IF j < i THEN s[j] ELSE s[j + 1]
  BY RemovedIs
<1> HIDE DEF t
<1> DEFINE at(j) == IF j < i THEN j ELSE j + 1
<1>2. \A j \in 1 .. Len(t) : at(j) \in 1 .. Len(s) /\ t[j] = s[at(j)]
  <2> SUFFICES ASSUME NEW j \in 1 .. Len(t)
               PROVE  at(j) \in 1 .. Len(s) /\ t[j] = s[at(j)]
    OBVIOUS
  <2>1. CASE j < i
    BY <1>1, <2>1
  <2>2. CASE ~(j < i)
    <3>1. at(j) = j + 1 /\ j + 1 \in 1 .. Len(s)
      BY <1>1, <2>2
    <3>2. t[j] = s[j + 1]
      BY <1>1, <2>2
    <3> QED
      BY <3>1, <3>2
  <2> QED
    BY <2>1, <2>2
<1>3. \A j, k \in 1 .. Len(t) : j < k => at(j) < at(k)
  BY <1>1
<1> HIDE DEF at
<1>4. \A j, k \in 1 .. Len(t) : j < k => Behind(t[j]) <= t[k].phys_addr
  BY <1>2, <1>3 DEF InOrder
<1>5. \A j \in 1 .. Len(t) : InZone(z, t[j])
  BY <1>2 DEF InOrder
<1> QED
  BY <1>1, <1>4, <1>5 DEF InOrder, t
-----------------------------------------------------------------------------
(***************************************************************************)
(* The inductive invariant.                                                 *)
(***************************************************************************)
IInv == TypeOK /\ \A z \in ZoneIds : InOrder(z, mmbs[z])

\* one zone gets another list
LEMMA ZoneStep ==
    ASSUME IInv, NEW z \in ZoneIds, NEW t \in Seq(Block), InOrder(z, t),
           mmbs' = [mmbs EXCEPT ![z] = t]
    PROVE  IInv'
<1>1. mmbs \in [ZoneIds -> Seq(Block)]
  BY DEF IInv, TypeOK
<1>2. mmbs' \in [ZoneIds -> Seq(Block)]
  BY <1>1
<1>3. ASSUME NEW y \in ZoneIds PROVE InOrder(y, mmbs'[y])
  <2>1. CASE y = z
    BY <1>1, <2>1
  <2>2. CASE y # z
    BY <1>1, <2>2 DEF IInv
  <2> QED
    BY <2>1, <2>2
<1>4. IInv' <=> TypeOK' /\ \A y \in ZoneIds : InOrder(y, mmbs'[y])
  BY DEF IInv, InOrder, InZone, Behind, ZoneEnd
<1> QED
  BY <1>2, <1>3, <1>4 DEF TypeOK

LEMMA PlaceInv ==
    ASSUME IInv, NEW z \in ZoneIds, NEW len \in Nat \ {0}, NEW align \in Nat \ {0},
           Suits(z, len, align), NEW addr \in FindFixedRegion(z, mmbs[z], len, align),
           Place(z, addr, len)
    PROVE  IInv'
<1> DEFINE b == [phys_addr |-> addr, length |-> len]
<1>1. mmbs[z] \in Seq(Block) /\ InOrder(z, mmbs[z])
  BY DEF IInv, TypeOK
<1>2. b \in Block /\ FreeOf(z, mmbs[z], b)
  BY <1>1, RegionIsFree
<1>3. PICK t \in InsertSorted(mmbs[z], b) : mmbs' = [mmbs EXCEPT ![z] = t]
  BY DEF Place
<1> HIDE DEF b
<1>4. t \in Seq(Block) /\ InOrder(z, t)
  BY <1>1, <1>2, <1>3, InsertKeepsOrder
<1> QED
  BY <1>3, <1>4, ZoneStep

LEMMA AllocInv ==
    ASSUME AlignedZones, IInv, NEW gfp, NEW name, NEW size \in Sizes,
           NEW align \in Aligns, MmbAlloc(gfp, name, size, align)
    PROVE  IInv'
<1>1. PICK z \in ZoneIds :
        \E addr \in FindFixedRegion(z, mmbs[z], size, align) : Place(z, addr, size)
  BY DEF MmbAlloc
<1>2. size \in Nat \ {0} /\ align \in Nat \ {0}
  BY RequestAssumption
<1>3. Suits(z, size, align)
  BY DEF AlignedZones, Suits
<1> QED
  BY <1>1, <1>2, <1>3, PlaceInv

LEMMA AllocV2Inv ==
    ASSUME AlignedZones, RoundingStable, IInv, NEW gfp \in Gfps, NEW name \in Names,
           NEW size \in Sizes, NEW align \in Aligns, MmbAllocV2(gfp, name, size, align)
    PROVE  IInv'
<1> DEFINE at == SizeAt(gfp, name, size)
           len == at[Len(Zones)]
<1>1. PICK z \in ZoneIds :
        /\ Matches(z, gfp, name)
        /\ \E addr \in FindFixedRegion(z, mmbs[z], at[z], align) : Place(z, addr, len)
  BY DEF MmbAllocV2, FirstZone
<1>2. /\ len \in Nat \ {0} /\ ZoneEnd(z) + len + align <= Word
      /\ Matches(z, gfp, name) => at[z] = len
  BY DEF RoundingStable
<1>3. align \in Nat \ {0}
  BY RequestAssumption
<1>4. Suits(z, len, align)
  BY <1>2 DEF AlignedZones, Suits
<1> HIDE DEF at, len
<1> QED
  BY <1>1, <1>2, <1>3, <1>4, PlaceInv

LEMMA FreeInv == ASSUME IInv, Free PROVE IInv'
<1>0. PICK z \in ZoneIds : \E i \in DOMAIN mmbs[z] : MmbFree(z, i)
  BY DEF Free
<1>1. PICK i \in DOMAIN mmbs[z] : mmbs' = [mmbs EXCEPT ![z] = RemoveAt(@, i)]
  BY <1>0 DEF MmbFree
<1>2. mmbs[z] \in Seq(Block) /\ InOrder(z, mmbs[z]) /\ i \in 1 .. Len(mmbs[z])
  BY DEF IInv, TypeOK
<1>3. RemoveAt(mmbs[z], i) \in Seq(Block) /\ InOrder(z, RemoveAt(mmbs[z], i))
  BY <1>2, RemoveKeepsOrder
<1> QED
  BY <1>1, <1>3, ZoneStep

(* Whatever is allocated and freed, by either function and in any order, the  *)
(* blocks of a zone stay in it and in address order, each behind the one      *)
(* before, if the zones are aligned and a request's size is rounded alike.    *)
THEOREM Inductive == ASSUME AlignedZones, RoundingStable PROVE Spec => []IInv
<1>1. Init => IInv
  <2> SUFFICES ASSUME Init PROVE IInv
    OBVIOUS
  <2>1. mmbs \in [ZoneIds -> Seq(Block)] /\ \A z \in ZoneIds : Len(mmbs[z]) = 0
    BY DEF Init
  <2> QED
    BY <2>1 DEF IInv, TypeOK, InOrder
<1>2. IInv /\ [Next]_vars => IInv'
  <2> SUFFICES ASSUME IInv, [Next]_vars PROVE IInv'
    OBVIOUS
  <2>1. CASE Alloc
    BY <2>1, AllocInv DEF Alloc
  <2>2. CASE AllocV2
    BY <2>2, AllocV2Inv DEF AllocV2
  <2>3. CASE Free
    BY <2>3, FreeInv
  <2>4. CASE UNCHANGED vars
    BY <2>4 DEF vars, IInv, TypeOK, InOrder, InZone, Behind, ZoneEnd
  <2> QED
    BY <2>1, <2>2, <2>3, <2>4 DEF Next
<1> QED
  BY <1>1, <1>2, PTL DEF Spec

(* A block has an address and at least one page (TypeOK).                    *)
THEOREM TypeCorrect == ASSUME AlignedZones, RoundingStable PROVE Spec => []TypeOK
<1>1. IInv => TypeOK
  BY DEF IInv
<1> QED
  BY <1>1, Inductive, PTL

(* No memory is handed out twice, also by different zones, if the zones do    *)
(* not overlap.                                                             *)
THEOREM BlocksStayDisjoint ==
    ASSUME AlignedZones, RoundingStable, DisjointZones PROVE Spec => []NoOverlap
<1>1. IInv => NoOverlap
  <2> SUFFICES ASSUME IInv PROVE NoOverlap
    OBVIOUS
  <2>1. \A z \in ZoneIds : /\ mmbs[z] \in Seq(Block) /\ DOMAIN mmbs[z] = 1 .. Len(mmbs[z])
                           /\ InOrder(z, mmbs[z])
    BY DEF IInv, TypeOK
  <2>2. \A z \in ZoneIds : \A i, j \in DOMAIN mmbs[z] :
          i < j => Behind(mmbs[z][i]) <= mmbs[z][j].phys_addr
    BY <2>1 DEF InOrder
  <2>3. \A z \in ZoneIds : \A i \in DOMAIN mmbs[z] :
          /\ Zones[z].phys_start <= mmbs[z][i].phys_addr
          /\ Behind(mmbs[z][i]) <= ZoneEnd(z)
    BY <2>1 DEF InOrder, InZone
  <2>4. ASSUME NEW y \in ZoneIds, NEW z \in ZoneIds, y # z,
               NEW i \in DOMAIN mmbs[y], NEW j \in DOMAIN mmbs[z]
        PROVE  \/ Behind(mmbs[y][i]) <= mmbs[z][j].phys_addr
               \/ Behind(mmbs[z][j]) <= mmbs[y][i].phys_addr
    <3> DEFINE p == mmbs[y][i]
               q == mmbs[z][j]
    <3>1. p \in Block /\ q \in Block
      BY <2>1
    <3>2. /\ Zones[y].phys_start <= p.phys_addr /\ Behind(p) <= ZoneEnd(y)
          /\ Zones[z].phys_start <= q.phys_addr /\ Behind(q) <= ZoneEnd(z)
      BY <2>3
    <3>3. ZoneEnd(y) <= Zones[z].phys_start \/ ZoneEnd(z) <= Zones[y].phys_start
      <4>1. y \in Nat /\ z \in Nat
        BY ZonesAssumption DEF ZoneIds
      <4>2. y < z \/ z < y
        BY <2>4, <4>1
      <4> QED
        BY <4>2 DEF DisjointZones
    <3>4. /\ p.phys_addr \in Nat /\ Behind(p) \in Nat /\ q.phys_addr \in Nat /\ Behind(q) \in Nat
          /\ Zones[y].phys_start \in Nat /\ ZoneEnd(y) \in Nat
          /\ Zones[z].phys_start \in Nat /\ ZoneEnd(z) \in Nat
      BY <3>1, BlockIs, ZoneIs
    <3> HIDE DEF p, q
    <3>5. Behind(p) <= q.phys_addr \/ Behind(q) <= p.phys_addr
      BY <3>2, <3>3, <3>4
    <3> QED
      BY <3>5 DEF p, q
  <2> QED
    BY <2>2, <2>3, <2>4 DEF NoOverlap
<1> QED
  BY <1>1, Inductive, PTL

(* An allocation that fails found no aligned hole of that size in the zone:    *)
(* where find_fixed_region wraps around it never hides one that fits.        *)
THEOREM HolesAreFound ==
    ASSUME AlignedZones, RoundingStable, NoZoneAtZero PROVE Spec => []FindsHole
<1>1. IInv => FindsHole
  <2> SUFFICES ASSUME IInv, NEW z \in ZoneIds, NEW size \in Sizes, NEW align \in Aligns,
                      NEW a \in Zones[z].phys_start .. ZoneEnd(z) - size,
                      a # 0, a % align = 0,
                      \A i \in DOMAIN mmbs[z] :
                         Behind(mmbs[z][i]) <= a \/ a + size <= mmbs[z][i].phys_addr
               PROVE  FindFixedRegion(z, mmbs[z], size, align) # {}
    BY DEF FindsHole
  <2>1. /\ mmbs[z] \in Seq(Block) /\ DOMAIN mmbs[z] = 1 .. Len(mmbs[z])
        /\ InOrder(z, mmbs[z])
    BY DEF IInv, TypeOK
  <2>2. size \in Nat \ {0} /\ align \in Nat \ {0}
    BY RequestAssumption
  <2>3. Suits(z, size, align) /\ Zones[z].phys_start # 0
    BY DEF AlignedZones, Suits, NoZoneAtZero
  <2>4. a \in Nat /\ Zones[z].phys_start <= a /\ a + size <= ZoneEnd(z)
    BY <2>2, ZoneIs
  <2> QED
    BY <2>1, <2>2, <2>3, <2>4, HoleIsFound
<1> QED
  BY <1>1, Inductive, PTL

(* "ERROR: media-mem allocator bad" (hisi_allocator.c) is never printed for   *)
(* such zones: the run of AllocatorNotBad needs a zone that is not aligned.   *)
THEOREM NeverBad == ASSUME AlignedZones, RoundingStable PROVE Spec => []AllocatorNotBad
<1>1. IInv => AllocatorNotBad
  <2> SUFFICES ASSUME IInv, NEW z \in ZoneIds, NEW i \in DOMAIN mmbs[z],
                      NEW j \in DOMAIN mmbs[z], i # j
               PROVE  mmbs[z][i].phys_addr # mmbs[z][j].phys_addr
    BY DEF AllocatorNotBad
  <2>1. /\ InOrder(z, mmbs[z]) /\ DOMAIN mmbs[z] = 1 .. Len(mmbs[z])
        /\ mmbs[z][i] \in Block /\ mmbs[z][j] \in Block
    BY DEF IInv, TypeOK
  <2>2. /\ i < j => Behind(mmbs[z][i]) <= mmbs[z][j].phys_addr
        /\ j < i => Behind(mmbs[z][j]) <= mmbs[z][i].phys_addr
    BY <2>1 DEF InOrder
  <2>3. i < j \/ j < i
    BY <2>1
  <2>4. /\ mmbs[z][i].phys_addr \in Nat /\ mmbs[z][i].phys_addr < Behind(mmbs[z][i])
        /\ mmbs[z][j].phys_addr \in Nat /\ mmbs[z][j].phys_addr < Behind(mmbs[z][j])
        /\ Behind(mmbs[z][i]) \in Nat /\ Behind(mmbs[z][j]) \in Nat
    BY <2>1, BlockIs
  <2> QED
    BY <2>2, <2>3, <2>4
<1> QED
  BY <1>1, Inductive, PTL
=============================================================================
