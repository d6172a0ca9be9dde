------------------------ MODULE MCMmzAllocatorAligned ------------------------
(* The layout that meets every condition the allocator relies on. *)
EXTENDS MCMmzAllocator

ASSUME LayoutAssumption == AlignedZones /\ NoZoneAtZero /\ RoundingStable /\ DisjointZones
=============================================================================
