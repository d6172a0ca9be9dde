--------------------------- MODULE MCMmzAllocator ---------------------------
(* Model checking of MmzAllocator: the zone layouts of the runs. *)
EXTENDS MmzAllocator

zone(name, gfp, start, nbytes, type, block) ==
  [name |-> name, gfp |-> gfp, phys_start |-> start, nbytes |-> nbytes,
   alloc_type |-> type, block_align |-> block]

(* Two aligned zones of the same name behind each other and a third one that *)
(* allocates in blocks of two.                                               *)
AlignedLayout ==
  << zone("anonymous", 0, 12, 2, DEFAULT_ALLOC, 1),
     zone("anonymous", 1, 4, 6, DEFAULT_ALLOC, 1),
     zone("vb", 0, 16, 2, EQ_BLOCK_ALLOC, 2) >>

(* One zone that starts at an odd page. *)
OddLayout == << zone("anonymous", 0, 1, 4, DEFAULT_ALLOC, 1) >>
=============================================================================
