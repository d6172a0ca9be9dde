---------------------------- MODULE MCMmzUserdev ----------------------------
(* Model checking of MmzUserdev: what callers leave in the mmb_info of an    *)
(* allocation, and the symmetry of files and blocks.                        *)
EXTENDS MmzUserdev, TLC

Symmetry == Permutations(Fds) \cup Permutations(Mmbs)

(* Cleared, or with a mapping and its reference left from an earlier use;    *)
GivenCounts ==
  {NoInfo, [NoInfo EXCEPT !.mapped = TRUE, !.map_ref = 1, !.mmb_ref = 1]}

(* also with a negative count, a delayed free, a mapping nobody has a        *)
(* reference for, or a reference without a mapping.                         *)
GivenAny ==
  GivenCounts \cup
  {[NoInfo EXCEPT !.mmb_ref = -1],
   [NoInfo EXCEPT !.delayed_free = TRUE],
   [NoInfo EXCEPT !.map_ref = 1],
   [NoInfo EXCEPT !.mmb_ref = 1]}
=============================================================================
