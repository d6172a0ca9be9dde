----------------------------- MODULE MmzAllocator -----------------------------
(***************************************************************************)
(* The address allocator of the media memory zones:                         *)
(* drivers/hi_osal/mmz/hisi_allocator.c, called under mmz_lock, so every    *)
(* allocation and every free is one step.                                   *)
(*                                                                          *)
(* Addresses and lengths are counted in MMZ_GRAIN units (pages): a size is   *)
(* already what mmz_grain_align makes of it.  An unsigned long is a number   *)
(* below Word, and its subtraction wraps around as in the code.             *)
(***************************************************************************)
EXTENDS Integers, Sequences, SequencesExt, FiniteSetsExt

CONSTANTS
  Zones,       \* mmz_list: a sequence of zones, first in the list first
  Word,        \* an unsigned long wraps around at this value
  OneGB,       \* 0x40000000 in grains, the limit on one allocation
  Sizes,       \* the sizes clients ask for
  Aligns,      \* the alignments they ask for
  MaxMmbs      \* bound on the number of blocks of a zone

VARIABLE mmbs  \* the mmb_list of each zone

vars == <<mmbs>>

ZoneIds == DOMAIN Zones

DEFAULT_ALLOC == 0
SLAB_ALLOC == 1
EQ_BLOCK_ALLOC == 2

Zone == [name : STRING, gfp : Nat, phys_start : Nat, nbytes : Nat,
         alloc_type : {DEFAULT_ALLOC, SLAB_ALLOC, EQ_BLOCK_ALLOC},
         block_align : Nat \ {0}]

ASSUME WordAssumption == Word \in Nat \ {0}
(* __allocator_init refuses a zone that wraps around.                        *)
ASSUME ZonesAssumption ==
  /\ Zones \in Seq(Zone)
  /\ \A z \in ZoneIds : Zones[z].phys_start + Zones[z].nbytes < Word
ASSUME RequestAssumption ==
  Sizes \subseteq Nat \ {0} /\ Aligns \subseteq Nat \ {0}

Block == [phys_addr : Nat, length : Nat \ {0}]

TypeOK == mmbs \in [ZoneIds -> Seq(Block)]

Init == mmbs = [z \in ZoneIds |-> <<>>]

-----------------------------------------------------------------------------
(* Arithmetic on unsigned long. *)

Add(a, b) == IF a + b < Word THEN a + b ELSE a + b - Word
Sub(a, b) == IF a >= b THEN a - b ELSE a - b + Word
AlignUp(x, g) == (Add(x, g - 1) \div g) * g

End(b) == Add(b.phys_addr, b.length)
ZoneEnd(z) == Zones[z].phys_start + Zones[z].nbytes

-----------------------------------------------------------------------------
(* find_fixed_region *)

(* The gaps the loop looks at: gap i follows the i-th block of the list,    *)
(* gap 0 is the one before the first.                                       *)
GapStart(z, s, align, i) ==
  AlignUp(IF i = 0 THEN Zones[z].phys_start ELSE End(s[i]), align)

GapLimit(z, s, i) == IF i < Len(s) THEN s[i + 1].phys_addr ELSE ZoneEnd(z)

BlankLen(z, s, align, i) == Sub(GapLimit(z, s, i), GapStart(z, s, align, i))

(* Deviation: a gap of exactly the size asked for is passed over. *)
FitsLoosely(z, s, len, align, i) ==
  /\ i \in 1 .. Len(s) - 1 =>
       Add(GapStart(z, s, align, i), len) <= GapLimit(z, s, i)
  /\ BlankLen(z, s, align, i) > len

(* Only a gap between two blocks is checked for start + len before the       *)
(* subtraction that may wrap around.                                        *)
Fits(z, s, len, align, i) ==
  /\ i \in 1 .. Len(s) - 1 =>
       Add(GapStart(z, s, align, i), len) <= GapLimit(z, s, i)
  /\ BlankLen(z, s, align, i) >= len

(* The first of the smallest gaps that fit; without blocks the loop is not    *)
(* entered and the zone itself is the gap.                                  *)
BestGap(z, s, len, align) ==
  LET fit == {i \in 0 .. Len(s) : s # <<>> => Fits(z, s, len, align, i)}
      blank(i) == BlankLen(z, s, align, i)
  IN  {i \in fit :
         \A j \in fit : blank(i) < blank(j) \/ (blank(i) = blank(j) /\ i <= j)}

(* The check behind the loop, which an empty list and the last gap come to.   *)
CheckLast(z, start, len) ==
  /\ Add(start, len) <= ZoneEnd(z)
  /\ start >= Zones[z].phys_start
  /\ start < ZoneEnd(z)

(* The address found, if any: 0 says that there is none. *)
FindFixedRegion(z, s, len, align) ==
  LET start(i) == GapStart(z, s, align, i)
  IN  {start(i) : i \in {i \in BestGap(z, s, len, align) :
                           i = Len(s) => CheckLast(z, start(i), len)}} \ {0}

-----------------------------------------------------------------------------
(* begin_list_for_each_mmz with anony = 1, as media_mem_init demands: gfp 0   *)
(* stands for any, no name for "anonymous".                                  *)
Matches(z, gfp, name) ==
  /\ gfp = 0 \/ Zones[z].gfp = gfp
  /\ Zones[z].name = IF name = "" THEN "anonymous" ELSE name

(* Deviation: a new block goes to the end of the list. *)
InsertLast(s, b) == {Append(s, b)}

(* do_mmb_alloc: the block goes before the first one with a higher address.  *)
InsertSorted(s, b) ==
  {InsertAt(s, i, b) : i \in {i \in 1 .. Len(s) + 1 :
     /\ \A j \in 1 .. i - 1 : s[j].phys_addr <= b.phys_addr
     /\ i <= Len(s) => b.phys_addr < s[i].phys_addr}}

(* Deviation: a block records the offset of its last grain, not its length. *)
PlaceLast(z, addr, length) ==
  \E s \in InsertSorted(mmbs[z], [phys_addr |-> addr, length |-> length - 1]) :
    mmbs' = [mmbs EXCEPT ![z] = s]

Place(z, addr, length) ==
  \E s \in InsertSorted(mmbs[z], [phys_addr |-> addr, length |-> length]) :
    mmbs' = [mmbs EXCEPT ![z] = s]

(* The first zone in the list where a region was found: all regions found    *)
(* have the length asked for, so a later one is never better.               *)
FirstZone(z, gfp, name, region) ==
  /\ Matches(z, gfp, name) /\ region[z] # {}
  /\ \A y \in ZoneIds :
       Matches(y, gfp, name) /\ region[y] # {} => z <= y

(* hi_max_malloc_size *)
MaxMallocSize == Max({OneGB} \cup {Zones[z].nbytes : z \in ZoneIds})

(* __mmb_alloc *)
MmbAlloc(gfp, name, size, align) ==
  LET region == [z \in ZoneIds |-> FindFixedRegion(z, mmbs[z], size, align)] IN
  /\ size <= MaxMallocSize
  /\ \E z \in ZoneIds :
       /\ FirstZone(z, gfp, name, region)
       /\ Len(mmbs[z]) < MaxMmbs
       /\ \E addr \in region[z] : Place(z, addr, size)

(* What a zone's allocation type makes of a size: the next power of two, or  *)
(* a multiple of the block size.                                            *)
RoundSize(z, size) ==
  CASE Zones[z].alloc_type = SLAB_ALLOC ->
         2 ^ (CHOOSE k \in 0 .. size : 2 ^ k >= size /\ (k = 0 \/ 2 ^ (k - 1) < size))
    [] Zones[z].alloc_type = EQ_BLOCK_ALLOC -> AlignUp(size, Zones[z].block_align)
    [] OTHER -> size

(* __mmb_alloc_v2 overwrites size in every zone it goes through.             *)
SizeAt(gfp, name, size) ==
  LET at[z \in 0 .. Len(Zones)] ==
        IF z = 0 THEN size
        ELSE IF Matches(z, gfp, name) THEN RoundSize(z, at[z - 1])
        ELSE at[z - 1]
  IN  at

(* __mmb_alloc_v2 with order LOW_TO_HIGH: the block gets the size left at the *)
(* end of the loop. *)
MmbAllocV2(gfp, name, size, align) ==
  LET at == SizeAt(gfp, name, size)
      region == [z \in ZoneIds |-> FindFixedRegion(z, mmbs[z], at[z], align)] IN
  /\ size <= OneGB
  /\ \E z \in ZoneIds :
       /\ FirstZone(z, gfp, name, region)
       /\ Len(mmbs[z]) < MaxMmbs
       /\ \E addr \in region[z] : Place(z, addr, at[Len(Zones)])

(* __mmb_free *)
MmbFree(z, i) ==
  /\ i \in DOMAIN mmbs[z]
  /\ mmbs' = [mmbs EXCEPT ![z] = RemoveAt(@, i)]

Gfps == {0} \cup {Zones[z].gfp : z \in ZoneIds}
Names == {""} \cup {Zones[z].name : z \in ZoneIds}

Alloc ==
  \E gfp \in Gfps, name \in Names, size \in Sizes, align \in Aligns :
    MmbAlloc(gfp, name, size, align)

AllocV2 ==
  \E gfp \in Gfps, name \in Names, size \in Sizes, align \in Aligns :
    MmbAllocV2(gfp, name, size, align)

Free == \E z \in ZoneIds : \E i \in DOMAIN mmbs[z] : MmbFree(z, i)

Next == Alloc \/ AllocV2 \/ Free

Spec == Init /\ [][Next]_vars

-----------------------------------------------------------------------------
(* What the zones of a board look like.  __allocator_init takes any; these    *)
(* are the conditions the allocator turns out to rely on.                    *)

(* Every zone starts at a multiple of every alignment asked for, and an      *)
(* alignment and a size added behind it do not wrap around.                  *)
AlignedZones ==
  \A z \in ZoneIds, align \in Aligns :
    /\ AlignUp(Zones[z].phys_start, align) = Zones[z].phys_start
    /\ \A size \in Sizes : ZoneEnd(z) + size + align <= Word

(* No zone begins at address 0, which find_fixed_region returns for none.     *)
NoZoneAtZero == \A z \in ZoneIds : Zones[z].phys_start # 0

(* The zones one request goes through do not round its size differently.     *)
RoundingStable ==
  \A gfp \in Gfps, name \in Names, size \in Sizes :
    LET at == SizeAt(gfp, name, size) IN
    /\ at[Len(Zones)] \in Nat \ {0}
    /\ \A z \in ZoneIds :
         /\ \A align \in Aligns : ZoneEnd(z) + at[Len(Zones)] + align <= Word
         /\ Matches(z, gfp, name) => at[z] = at[Len(Zones)]

(* Zones do not overlap: _check_mmz.                                         *)
DisjointZones ==
  \A y, z \in ZoneIds :
    y < z => \/ ZoneEnd(y) <= Zones[z].phys_start
             \/ ZoneEnd(z) <= Zones[y].phys_start

-----------------------------------------------------------------------------
(* The first address behind block b. *)
Behind(b) == b.phys_addr + b.length

(* No allocation, whatever was freed before, hands out memory in use: the      *)
(* list of each zone is in address order, its blocks stay in the zone, and an *)
(* address belongs to at most one block of all zones, which is what           *)
(* hil_mmb_getby_phys_2 needs to find the right one.                         *)
NoOverlap ==
  /\ \A z \in ZoneIds : \A i, j \in DOMAIN mmbs[z] :
       i < j => Behind(mmbs[z][i]) <= mmbs[z][j].phys_addr
  /\ \A z \in ZoneIds : \A i \in DOMAIN mmbs[z] :
       /\ Zones[z].phys_start <= mmbs[z][i].phys_addr
       /\ Behind(mmbs[z][i]) <= ZoneEnd(z)
  /\ \A y, z \in ZoneIds : \A i \in DOMAIN mmbs[y], j \in DOMAIN mmbs[z] :
       y # z => \/ Behind(mmbs[y][i]) <= mmbs[z][j].phys_addr
                \/ Behind(mmbs[z][j]) <= mmbs[y][i].phys_addr

(* An allocation fails only when the zone has no aligned hole of that size.  *)
FindsHole ==
  \A z \in ZoneIds, size \in Sizes, align \in Aligns :
    (\E a \in Zones[z].phys_start .. ZoneEnd(z) - size :
       /\ a # 0 /\ a % align = 0
       /\ \A i \in DOMAIN mmbs[z] :
            Behind(mmbs[z][i]) <= a \/ a + size <= mmbs[z][i].phys_addr)
      => FindFixedRegion(z, mmbs[z], size, align) # {}

(* "ERROR: media-mem allocator bad" (hisi_allocator.c:221) is never printed:  *)
(* no two blocks of a zone start at the same address.                        *)
AllocatorNotBad ==
  \A z \in ZoneIds : \A i, j \in DOMAIN mmbs[z] :
    mmbs[z][i].phys_addr = mmbs[z][j].phys_addr => i = j
=============================================================================
