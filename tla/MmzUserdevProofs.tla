--------------------------- MODULE MmzUserdevProofs ---------------------------
(***************************************************************************)
(* Proofs about MmzUserdev, for every set of files and blocks and every     *)
(* bound: type correctness, and the ownership and reference-count           *)
(* invariants through one inductive invariant.                              *)
(***************************************************************************)
EXTENDS MmzUserdev, TLAPS

(* What the code relies on between two hil_mmb_* calls of one ioctl.         *)
MidCall ==
  \A f \in Fds :
    /\ fd[f].pc \in {"alloc", "free"} =>
         fd[f].m \in Mmbs /\ ~info[f][fd[f].m].listed
    /\ fd[f].pc = "alloc" => mmb[fd[f].m].given = 0
    /\ fd[f].pc = "put" =>
         /\ fd[f].m \in Mmbs
         /\ info[f][fd[f].m].listed
         /\ info[f][fd[f].m].mmb_ref <= 0

(* Blocks of kernel clients are live; a block off its zone's list has no     *)
(* kernel mapping.                                                          *)
KernelBlocks ==
  \A m \in Mmbs :
    /\ m \in kernel => mmb[m].live /\ ~mmb[m].released /\ mmb[m].given = 0
    /\ mmb[m].map_ref > 0 => mmb[m].live
    /\ ~mmb[m].live => mmb[m].given = 0

(* A count that started at zero is never taken below it. *)
Counted ==
  \A f \in Fds, m \in Mmbs :
    info[f][m].listed /\ mmb[m].given = 0 => info[f][m].mmb_ref >= 0

IInv ==
  /\ TypeOK
  /\ NoUseAfterFree
  /\ OneOwner
  /\ RefAccounting
  /\ ReleasedIsMapped
  /\ NoLeak
  /\ MidCall
  /\ KernelBlocks
  /\ Counted

(* The initial state satisfies the inductive invariant. *)
LEMMA InitIInv == Init => IInv
  BY NoMmbAssumption DEF Init, IInv, TypeOK, NoUseAfterFree, OneOwner,
     RefAccounting, ReleasedIsMapped, NoLeak, MidCall, KernelBlocks, Counted,
     Holds, RefsOf, Mmb, FreedMmb, Info, NoInfo, Pcs

-----------------------------------------------------------------------------
(* A step of a file is about one block m: it makes b of the block, i of the  *)
(* file's entry for it and d of the thread.                                  *)

Thread == [pc : Pcs, m : Mmbs \cup {NoMmb}, closing : BOOLEAN]

MidPcs == {"alloc", "put", "free"}

(* The part of the inductive invariant about one block and its one file.     *)
Consistent(b, i, pc) ==
  /\ i.listed \/ pc \in MidPcs => b.live /\ ~b.released
  /\ i.listed => b.phy_ref = 1 + i.mmb_ref - b.given
  /\ ~i.listed /\ b.given = 0 => b.phy_ref = 0
  /\ i.listed /\ b.given = 0 => i.mmb_ref >= 0
  /\ b.live => b.released \/ i.listed \/ pc \in MidPcs
  /\ b.released /\ b.given = 0 => b.map_ref > 0
  /\ b.map2kern <=> b.map_ref > 0
  /\ b.map_ref > 0 => b.live
  /\ ~b.live => b.given = 0
  /\ pc \in {"alloc", "free"} => ~i.listed
  /\ pc = "alloc" => b.given = 0
  /\ pc = "put" => i.listed /\ i.mmb_ref <= 0

(* The thread's place in calls on m: anywhere else it is as good as idle.    *)
PcOn(f, m) == IF fd[f].m = m THEN fd[f].pc ELSE "idle"

Alone(f, m) == m \notin kernel /\ \A g \in Fds \ {f} : ~Holds(g, m)

(* What the invariant says of a block the file lists or is in a call on.     *)
LEMMA HeldBlock ==
  ASSUME IInv, NEW f \in Fds, NEW m \in Mmbs, Holds(f, m)
  PROVE  Alone(f, m) /\ Consistent(mmb[m], info[f][m], PcOn(f, m))
<1> DEFINE b == mmb[m]
           i == info[f][m]
           pc == PcOn(f, m)
<1>1. Alone(f, m)
  BY DEF IInv, OneOwner, Alone
<1>2. i.listed \/ pc \in MidPcs
  BY DEF Holds, PcOn, MidPcs
<1>3. b.live /\ ~b.released
  BY DEF IInv, NoUseAfterFree
<1>4. i.listed => b.phy_ref = 1 + i.mmb_ref - b.given
  <2>1. i.listed => b.phy_ref = RefsOf(f, m) - b.given
    BY DEF IInv, RefAccounting
  <2>2. i.listed => RefsOf(f, m) = 1 + i.mmb_ref
    BY DEF RefsOf
  <2>3. i.mmb_ref \in Int /\ b.given \in Int
    BY DEF IInv, TypeOK, Info, Mmb
  <2> HIDE DEF b, i
  <2>4. QED
    BY <2>1, <2>2, <2>3
<1>5. ~i.listed /\ b.given = 0 => b.phy_ref = 0
  BY <1>1 DEF IInv, RefAccounting, Alone, Holds
<1>6. i.listed /\ b.given = 0 => i.mmb_ref >= 0
  BY DEF IInv, Counted
<1>7. b.map2kern <=> b.map_ref > 0
  BY DEF IInv, ReleasedIsMapped
<1>8. /\ pc \in {"alloc", "free"} => ~i.listed
      /\ pc = "alloc" => b.given = 0
      /\ pc = "put" => i.listed /\ i.mmb_ref <= 0
  BY DEF IInv, MidCall, PcOn
<1> HIDE DEF b, i, pc
<1>9. Consistent(b, i, pc)
  BY <1>2, <1>3, <1>4, <1>5, <1>6, <1>7, <1>8 DEF Consistent
<1>10. QED
  BY <1>1, <1>9 DEF b, i, pc

(* A block off its zone's list is nobody's.                                  *)
LEMMA FreeBlock ==
  ASSUME IInv, NEW f \in Fds, NEW m \in Mmbs, ~mmb[m].live
  PROVE  /\ Alone(f, m)
         /\ ~Holds(f, m)
         /\ ~info[f][m].listed
  BY SMT DEF IInv, OneOwner, NoUseAfterFree, KernelBlocks, Holds, Alone

LEMMA ThreadType == ASSUME TypeOK, NEW f \in Fds
                    PROVE  fd[f] \in Thread
  BY DEF TypeOK, Thread

(* A step of one file on a block nobody else has preserves the inductive     *)
(* invariant as soon as it is right about that block.                        *)
LEMMA FileStep ==
  ASSUME IInv, NEW f \in Fds, NEW m \in Mmbs, Alone(f, m),
         NEW b \in Mmb, NEW i \in Info, NEW d \in Thread,
         mmb' = [mmb EXCEPT ![m] = b],
         info' = [info EXCEPT ![f] = [info[f] EXCEPT ![m] = i]],
         fd' = [fd EXCEPT ![f] = d],
         kernel' = kernel,
         fd[f].pc \in MidPcs => fd[f].m = m,
         d.pc \in MidPcs => d.m = m,
         Consistent(b, i, d.pc)
  PROVE  IInv'
<1>1. TypeOK'
  <2>1. info[f] \in [Mmbs -> Info]
    BY DEF IInv, TypeOK
  <2>2. info' \in [Fds -> [Mmbs -> Info]]
    BY <2>1 DEF IInv, TypeOK
  <2>3. mmb' \in [Mmbs -> Mmb] /\ fd' \in [Fds -> Thread]
    BY DEF IInv, TypeOK, Thread
  <2>4. b.given = 0 => b.phy_ref >= 0
    BY DEF Consistent, Mmb, Info
  <2>5. \A x \in Mmbs : mmb'[x].given = 0 => mmb'[x].phy_ref >= 0
    BY <2>4 DEF IInv, TypeOK
  <2>6. QED
    BY <2>2, <2>3, <2>5 DEF IInv, TypeOK, Thread
<1>2. mmb'[m] = b /\ info'[f][m] = i /\ fd'[f] = d
  BY DEF IInv, TypeOK
<1>3. \A x \in Mmbs \ {m} : mmb'[x] = mmb[x] /\ info'[f][x] = info[f][x]
  BY DEF IInv, TypeOK
<1>4. \A g \in Fds \ {f} : fd'[g] = fd[g] /\ info'[g] = info[g]
  BY DEF IInv, TypeOK
<1>5. \A g \in Fds \ {f}, x \in Mmbs : Holds(g, x)' <=> Holds(g, x)
  BY <1>4 DEF Holds
<1>6. \A x \in Mmbs \ {m} : Holds(f, x)' <=> Holds(f, x)
  BY <1>2, <1>3 DEF Holds, MidPcs
<1>7. Holds(f, m)' <=> i.listed \/ d.pc \in MidPcs
  BY <1>2 DEF Holds, MidPcs
<1>8. NoUseAfterFree'
  BY <1>2, <1>3, <1>5, <1>6, <1>7 DEF IInv, NoUseAfterFree, Consistent, Alone
<1>9. OneOwner'
  <2>1. ASSUME NEW g \in Fds, NEW h \in Fds, NEW x \in Mmbs,
               Holds(g, x)', Holds(h, x)'
        PROVE  g = h
    <3>1. CASE x = m
      BY <1>5, <2>1, <3>1 DEF Alone
    <3>2. CASE x # m
      BY <1>5, <1>6, <2>1, <3>2 DEF IInv, OneOwner
    <3>3. QED
      BY <3>1, <3>2
  <2>2. ASSUME NEW g \in Fds, NEW x \in kernel
        PROVE  ~Holds(g, x)'
    BY <1>5, <1>6, <2>2 DEF IInv, OneOwner, Alone, TypeOK
  <2>3. QED
    BY <2>1, <2>2 DEF OneOwner
<1>10. RefAccounting'
  <2>1. \A g \in Fds \ {f} : \A x \in Mmbs : RefsOf(g, x)' = RefsOf(g, x)
    BY <1>4 DEF RefsOf
  <2>2. \A x \in Mmbs \ {m} : RefsOf(f, x)' = RefsOf(f, x)
    BY <1>3 DEF RefsOf
  <2>3. RefsOf(f, m)' = IF i.listed THEN 1 + i.mmb_ref ELSE 0
    BY <1>2 DEF RefsOf
  <2>4. \A g \in Fds \ {f} : ~info[g][m].listed /\ ~info'[g][m].listed
    BY <1>4 DEF Alone, Holds
  <2>5. \A g \in Fds :
          info'[g][m].listed => mmb'[m].phy_ref = RefsOf(g, m)' - mmb'[m].given
    <3>1. info'[f][m].listed => mmb'[m].phy_ref = RefsOf(f, m)' - mmb'[m].given
      BY <1>2, <2>3 DEF Consistent, Info, Mmb
    <3>2. QED
      BY <2>4, <3>1
  <2>6. mmb'[m].given = 0 /\ (\A g \in Fds : ~info'[g][m].listed)
          => mmb'[m].phy_ref = 0
    BY <1>2 DEF Consistent
  <2>7. \A g \in Fds, x \in Mmbs \ {m} : info'[g][x].listed <=> info[g][x].listed
    BY <1>3, <1>4
  <2>8. \A g \in Fds, x \in Mmbs \ {m} : RefsOf(g, x)' = RefsOf(g, x)
    BY <2>1, <2>2
  <2>9. ASSUME NEW x \in Mmbs \ {m}
        PROVE  /\ \A g \in Fds :
                    info'[g][x].listed => mmb'[x].phy_ref = RefsOf(g, x)' - mmb'[x].given
               /\ mmb'[x].given = 0 /\ (\A g \in Fds : ~info'[g][x].listed)
                    => mmb'[x].phy_ref = 0
    BY <1>3, <2>7, <2>8 DEF IInv, RefAccounting
  <2>10. QED
    BY <2>5, <2>6, <2>9 DEF RefAccounting
<1>11. ReleasedIsMapped'
  BY <1>2, <1>3 DEF IInv, ReleasedIsMapped, Consistent, Alone
<1>12. MidCall'
  <2>1. ASSUME NEW g \in Fds \ {f}, fd'[g].pc \in MidPcs
        PROVE  fd'[g].m \in Mmbs \ {m}
    BY <1>4, <2>1 DEF IInv, MidCall, Alone, Holds, MidPcs
  <2>2. \A g \in Fds \ {f} :
          /\ fd'[g].pc \in {"alloc", "free"} =>
               fd'[g].m \in Mmbs /\ ~info'[g][fd'[g].m].listed
          /\ fd'[g].pc = "alloc" => mmb'[fd'[g].m].given = 0
          /\ fd'[g].pc = "put" =>
               /\ fd'[g].m \in Mmbs
               /\ info'[g][fd'[g].m].listed
               /\ info'[g][fd'[g].m].mmb_ref <= 0
    BY <1>3, <1>4, <2>1 DEF IInv, MidCall, MidPcs
  <2>3. QED
    BY <1>2, <2>2 DEF MidCall, Consistent, MidPcs
<1>13. KernelBlocks'
  BY <1>2, <1>3 DEF IInv, KernelBlocks, Consistent, Alone
<1>14. NoLeak'
  BY <1>2, <1>3, <1>5, <1>6, <1>7 DEF IInv, NoLeak, Consistent
<1>15. Counted'
  <2>1. \A g \in Fds \ {f} : ~info'[g][m].listed
    BY <1>4 DEF Alone, Holds
  <2>2. QED
    BY <1>2, <1>3, <1>4, <2>1 DEF IInv, Counted, Consistent
<1>16. QED
  BY <1>1, <1>8, <1>9, <1>10, <1>11, <1>12, <1>13, <1>14, <1>15 DEF IInv

(* A step that leaves a block, an entry or a thread as it is.                *)
LEMMA SameValues ==
  ASSUME TypeOK, NEW f \in Fds, NEW m \in Mmbs
  PROVE  /\ mmb = [mmb EXCEPT ![m] = mmb[m]] /\ mmb[m] \in Mmb
         /\ info = [info EXCEPT ![f] = [info[f] EXCEPT ![m] = info[f][m]]]
         /\ info[f][m] \in Info
         /\ fd = [fd EXCEPT ![f] = fd[f]] /\ fd[f] \in Thread
<1>1. info[f] \in [Mmbs -> Info]
  BY DEF TypeOK
<1>2. info[f] = [info[f] EXCEPT ![m] = info[f][m]]
  BY <1>1
<1>3. QED
  BY <1>1, <1>2 DEF TypeOK, Thread

LEMMA SetInfoIs ==
  ASSUME TypeOK, NEW f \in Fds, NEW m \in Mmbs, NEW i, SetInfo(f, m, i)
  PROVE  info' = [info EXCEPT ![f] = [info[f] EXCEPT ![m] = i]]
  BY DEF SetInfo, TypeOK

LEMMA GotoIs ==
  ASSUME TypeOK, NEW f \in Fds, NEW pc \in Pcs, NEW m \in Mmbs \cup {NoMmb},
         Goto(f, pc, m)
  PROVE  /\ fd' = [fd EXCEPT ![f] = [fd[f] EXCEPT !.pc = pc, !.m = m]]
         /\ [fd[f] EXCEPT !.pc = pc, !.m = m] \in Thread
  BY DEF Goto, TypeOK, Thread

(* Blocks as the allocator hands them out and takes them back.               *)
LEMMA BlockValues ==
  /\ FreedMmb \in Mmb /\ NewMmb \in Mmb
  /\ FreedMmb.phy_ref = 0 /\ FreedMmb.given = 0 /\ FreedMmb.map_ref = 0
  /\ ~FreedMmb.live /\ ~FreedMmb.released /\ ~FreedMmb.map2kern
  /\ NewMmb.phy_ref = 0 /\ NewMmb.given = 0 /\ NewMmb.map_ref = 0
  /\ NewMmb.live /\ ~NewMmb.released /\ ~NewMmb.map2kern
<1>1. FreedMmb \in Mmb
  BY DEF FreedMmb, Mmb
<1>2. NewMmb \in Mmb
  BY <1>1, Zenon DEF NewMmb, Mmb
<1>3. QED
  BY <1>1, <1>2 DEF NewMmb, FreedMmb

(* What a caller's mmb_info is once listed, and its block with it.           *)
LEMMA GivenIs ==
  ASSUME NEW g \in Given
  PROVE  /\ g \in Info /\ g.mmb_ref \in Int /\ ~g.noted
         /\ [g EXCEPT !.listed = TRUE] \in Info
         /\ [g EXCEPT !.listed = TRUE].listed
         /\ [g EXCEPT !.listed = TRUE].noted = g.noted
         /\ [g EXCEPT !.listed = TRUE].mmb_ref = g.mmb_ref
<1>1. g \in Info /\ ~g.noted
  BY GivenAssumption
<1>2. [g EXCEPT !.listed = TRUE] \in Info
  BY <1>1, Zenon DEF Info
<1>3. QED
  BY <1>1, <1>2 DEF Info

LEMMA GetIs ==
  ASSUME NEW b \in Mmb, NEW n \in Int
  PROVE  LET c == [MmbGet(b) EXCEPT !.given = n] IN
         /\ c \in Mmb /\ c.phy_ref = b.phy_ref + 1 /\ c.given = n
         /\ c.live = b.live /\ c.released = b.released
         /\ c.map2kern = b.map2kern /\ c.map_ref = b.map_ref
<1> DEFINE c == [MmbGet(b) EXCEPT !.given = n]
<1>1. b.phy_ref + 1 \in Int
  BY DEF Mmb
<1>2. c \in Mmb
  BY <1>1, Zenon DEF Mmb, MmbGet
<1>3. QED
  BY <1>2 DEF Mmb, MmbGet

-----------------------------------------------------------------------------
(* One lemma per action of a file. *)

(* Open and close move a thread between states outside any call.             *)
LEMMA ThreadOnlyStep ==
  ASSUME IInv, NEW f \in Fds, NEW d \in Thread, fd' = [fd EXCEPT ![f] = d],
         fd[f].pc \notin MidPcs, d.pc \notin MidPcs,
         UNCHANGED <<mmb, info, kernel>>
  PROVE  IInv'
<1>1. fd'[f] = d /\ \A g \in Fds \ {f} : fd'[g] = fd[g]
  BY DEF IInv, TypeOK
<1>2. \A g \in Fds, x \in Mmbs : Holds(g, x)' <=> Holds(g, x)
  BY <1>1 DEF Holds, MidPcs
<1>3. TypeOK'
  BY DEF IInv, TypeOK, Thread
<1>4. NoUseAfterFree' /\ ReleasedIsMapped' /\ KernelBlocks'
  BY <1>2 DEF IInv, NoUseAfterFree, ReleasedIsMapped, KernelBlocks
<1>5. OneOwner'
  BY <1>2 DEF IInv, OneOwner, TypeOK
<1>6. RefAccounting'
  BY <1>2 DEF IInv, RefAccounting, RefsOf
<1>7. MidCall' /\ Counted'
  BY <1>1 DEF IInv, MidCall, MidPcs, Counted
<1>8. NoLeak'
  BY <1>2 DEF IInv, NoLeak
<1>9. QED
  BY <1>3, <1>4, <1>5, <1>6, <1>7, <1>8 DEF IInv

LEMMA OpenStep ==
  ASSUME IInv, NEW f \in Fds, FdOpen(f)
  PROVE  IInv'
<1> DEFINE d == [fd[f] EXCEPT !.pc = "idle", !.closing = FALSE]
<1>1. fd' = [fd EXCEPT ![f] = d] /\ d \in Thread /\ d.pc = "idle"
  BY DEF FdOpen, IInv, TypeOK, Thread, Pcs
<1>2. QED
  BY <1>1, ThreadOnlyStep DEF FdOpen, MidPcs

LEMMA AllocStep ==
  ASSUME IInv, NEW f \in Fds, NEW m \in Mmbs, FdAlloc(f, m)
  PROVE  IInv'
<1> DEFINE d == [fd[f] EXCEPT !.pc = "alloc", !.m = m]
           i == info[f][m]
<1>1. TypeOK /\ "alloc" \in Pcs /\ fd[f].pc \notin MidPcs
  BY DEF IInv, Pcs, MidPcs, FdAlloc, Idle
<1>2. fd' = [fd EXCEPT ![f] = d] /\ d \in Thread
  BY <1>1, GotoIs DEF FdAlloc
<1>3. d.pc = "alloc" /\ d.m = m
  BY <1>1 DEF TypeOK
<1>4. NewMmb \in Mmb /\ mmb' = [mmb EXCEPT ![m] = NewMmb]
  BY BlockValues DEF FdAlloc, SetMmb
<1>5. Alone(f, m) /\ Consistent(NewMmb, i, "alloc")
  BY FreeBlock, BlockValues DEF FdAlloc, Consistent, MidPcs
<1>6. info' = [info EXCEPT ![f] = [info[f] EXCEPT ![m] = i]]
      /\ i \in Info /\ kernel' = kernel
  BY <1>1, SameValues DEF FdAlloc
<1> HIDE DEF d, i
<1>7. Consistent(NewMmb, i, d.pc)
  BY <1>3, <1>5
<1>8. QED
  BY <1>1, <1>2, <1>3, <1>4, <1>5, <1>6, <1>7, FileStep

LEMMA AllocGetStep ==
  ASSUME IInv, NEW f \in Fds, FdAllocGet(f)
  PROVE  IInv'
<1> DEFINE m == fd[f].m
           d == [fd[f] EXCEPT !.pc = "idle", !.m = NoMmb]
<1>1. TypeOK /\ m \in Mmbs /\ Holds(f, m) /\ PcOn(f, m) = "alloc"
  BY DEF IInv, MidCall, FdAllocGet, Holds, PcOn
<1>2. PICK g \in Given :
        /\ SetInfo(f, m, [g EXCEPT !.listed = TRUE])
        /\ SetMmb(m, [MmbGet(mmb[m]) EXCEPT !.given = g.mmb_ref])
  BY DEF FdAllocGet
<1> DEFINE b == [MmbGet(mmb[m]) EXCEPT !.given = g.mmb_ref]
           i == [g EXCEPT !.listed = TRUE]
<1>a. /\ SetInfo(f, m, i) /\ mmb' = [mmb EXCEPT ![m] = b]
      /\ Goto(f, "idle", NoMmb) /\ kernel' = kernel
  BY <1>2 DEF FdAllocGet, SetMmb
<1>b. m = fd[f].m
  OBVIOUS
<1>c. i \in Info /\ i.listed /\ i.mmb_ref = g.mmb_ref /\ g.mmb_ref \in Int
  BY GivenIs
<1>4. mmb[m] \in Mmb
  BY <1>1 DEF TypeOK
<1>d. /\ b \in Mmb /\ b.phy_ref = mmb[m].phy_ref + 1 /\ b.given = g.mmb_ref
      /\ b.live = mmb[m].live /\ b.released = mmb[m].released
      /\ b.map2kern = mmb[m].map2kern /\ b.map_ref = mmb[m].map_ref
  BY <1>4, <1>c, GetIs
<1> HIDE DEF m, b, d, i
<1>5. fd' = [fd EXCEPT ![f] = d] /\ d \in Thread
  BY <1>1, <1>a, GotoIs DEF Pcs, d
<1>3. d.pc = "idle"
  BY <1>1 DEF TypeOK, d
<1>6. info' = [info EXCEPT ![f] = [info[f] EXCEPT ![m] = i]]
  BY <1>1, <1>a, SetInfoIs
<1>7. Consistent(mmb[m], info[f][m], "alloc") /\ Alone(f, m)
  BY <1>1, HeldBlock
<1>e. /\ mmb[m].live /\ ~mmb[m].released /\ mmb[m].phy_ref = 0
      /\ mmb[m].map2kern <=> mmb[m].map_ref > 0
  BY <1>7 DEF Consistent, MidPcs
<1>8. Consistent(b, i, "idle")
  <2>1. /\ b.live /\ ~b.released
        /\ b.phy_ref = 1 + i.mmb_ref - b.given
        /\ b.given = i.mmb_ref
        /\ b.map2kern <=> b.map_ref > 0
    BY <1>c, <1>d, <1>e
  <2>2. QED
    BY <1>c, <2>1 DEF Consistent, MidPcs
<1>9. d.pc \notin MidPcs /\ Consistent(b, i, d.pc)
  BY <1>3, <1>8 DEF MidPcs
<1>10. QED
  BY <1>1, <1>a, <1>b, <1>c, <1>d, <1>5, <1>6, <1>7, <1>9, FileStep

(* A file outside any call: its listed blocks.                               *)
LEMMA ListedBlock ==
  ASSUME IInv, NEW f \in Fds, NEW m \in Mmbs, fd[f].pc \notin MidPcs,
         info[f][m].listed
  PROVE  /\ Alone(f, m)
         /\ Consistent(mmb[m], info[f][m], "idle")
         /\ mmb[m] \in Mmb /\ info[f][m] \in Info
<1>1. Holds(f, m) /\ TypeOK
  BY DEF Holds, IInv
<1>2. Alone(f, m) /\ Consistent(mmb[m], info[f][m], PcOn(f, m))
  BY <1>1, HeldBlock
<1>3. PcOn(f, m) \notin MidPcs
  BY DEF PcOn, MidPcs
<1>4. QED
  BY <1>1, <1>2, <1>3, SameValues DEF Consistent, MidPcs

(* An action of such a file on a listed block either leaves the thread where *)
(* it is or sends it into _usrdev_mmb_free.                                  *)
LEMMA EntryStep ==
  ASSUME IInv, NEW f \in Fds, NEW m \in Mmbs, fd[f].pc \notin MidPcs,
         info[f][m].listed, NEW b \in Mmb, NEW i \in Info,
         mmb' = [mmb EXCEPT ![m] = b], SetInfo(f, m, i), kernel' = kernel,
         \/ UNCHANGED fd /\ Consistent(b, i, "idle")
         \/ Goto(f, "put", m) /\ Consistent(b, i, "put")
  PROVE  IInv'
<1>1. TypeOK /\ Alone(f, m)
  BY ListedBlock DEF IInv
<1>2. info' = [info EXCEPT ![f] = [info[f] EXCEPT ![m] = i]]
  BY <1>1, SetInfoIs
<1>3. CASE UNCHANGED fd /\ Consistent(b, i, "idle")
  <2>1. fd' = [fd EXCEPT ![f] = fd[f]] /\ fd[f] \in Thread
    BY <1>1, <1>3, SameValues
  <2>2. Consistent(b, i, fd[f].pc)
    BY <1>3 DEF Consistent, MidPcs
  <2>3. QED
    BY <1>1, <1>2, <2>1, <2>2, FileStep
<1>4. CASE Goto(f, "put", m) /\ Consistent(b, i, "put")
  <2> DEFINE d == [fd[f] EXCEPT !.pc = "put", !.m = m]
  <2>1. fd' = [fd EXCEPT ![f] = d] /\ d \in Thread
    BY <1>1, <1>4, GotoIs DEF Pcs
  <2>2. d.pc = "put" /\ d.m = m
    BY <1>1 DEF TypeOK
  <2> HIDE DEF d
  <2>3. Consistent(b, i, d.pc)
    BY <1>4, <2>2
  <2>4. QED
    BY <1>1, <1>2, <2>1, <2>2, <2>3, FileStep
<1>5. QED
  BY <1>3, <1>4

(* Taking a reference together with the file's count, ...                    *)
LEMMA GetConsistent ==
  ASSUME NEW b \in Mmb, NEW i \in Info, NEW j \in Info, i.listed, j.listed,
         Consistent(b, i, "idle"), j.mmb_ref = i.mmb_ref + 1
  PROVE  MmbGet(b) \in Mmb /\ Consistent(MmbGet(b), j, "idle")
  BY DEF Mmb, Info, Consistent, MidPcs, MmbGet

(* ... and giving it back: the block never goes while the entry is listed.   *)
LEMMA PutConsistent ==
  ASSUME NEW b \in Mmb, NEW i \in Info, NEW j \in Info, i.listed, j.listed,
         Consistent(b, i, "idle"), i.mmb_ref > 0, j.mmb_ref = i.mmb_ref - 1
  PROVE  /\ MmbPut(b) \in Mmb
         /\ Consistent(MmbPut(b), j, "idle")
         /\ j.mmb_ref <= 0 => Consistent(MmbPut(b), j, "put")
  BY DEF Mmb, Info, Consistent, MidPcs, MmbPut

(* hil_mmb_free: a block nobody has a reference to is freed, or released to  *)
(* its kernel mappings.                                                     *)
LEMMA FreeResult ==
  ASSUME NEW b \in Mmb, b.live, ~b.released, b.given = 0 => b.phy_ref = 0,
         b.map2kern <=> b.map_ref > 0
  PROVE  /\ MmbFree(b) \in Mmb
         /\ MmbFree(b).given = 0 => MmbFree(b).phy_ref = 0
         /\ MmbFree(b).released /\ MmbFree(b).given = 0 => MmbFree(b).map_ref > 0
         /\ MmbFree(b).map2kern <=> MmbFree(b).map_ref > 0
         /\ MmbFree(b).map_ref > 0 => MmbFree(b).live
         /\ MmbFree(b).live => MmbFree(b).released
         /\ ~MmbFree(b).live => MmbFree(b).given = 0
<1> DEFINE c == [b EXCEPT !.released = TRUE]
<1>1. MmbFree(b) = IF b.phy_ref > 0 \/ b.map2kern THEN c ELSE FreedMmb
  BY DEF MmbFree, Mmb
<1>2. c \in Mmb
  BY Zenon DEF Mmb
<1>3. FreedMmb \in Mmb
  BY DEF FreedMmb, Mmb
<1>4. /\ c.phy_ref = b.phy_ref /\ c.given = b.given /\ c.map_ref = b.map_ref
      /\ c.map2kern = b.map2kern /\ c.live = b.live /\ c.released
  BY DEF Mmb
<1> HIDE DEF c
<1>5. CASE b.phy_ref > 0 \/ b.map2kern
  <2>1. b.given = 0 => b.map2kern
    BY <1>5
  <2>2. QED
    BY <1>1, <1>2, <1>4, <1>5, <2>1
<1>6. CASE ~(b.phy_ref > 0 \/ b.map2kern)
  BY <1>1, <1>3, <1>6 DEF FreedMmb
<1>7. QED
  BY <1>5, <1>6

(* hil_mmb_unmap of a mapped block. *)
LEMMA UnmapResult ==
  ASSUME NEW b \in Mmb, b.map_ref > 0, b.live, b.map2kern,
         b.released /\ b.given = 0 => b.phy_ref = 0
  PROVE  /\ MmbUnmap(b) \in Mmb
         /\ MmbUnmap(b).phy_ref = b.phy_ref
         /\ MmbUnmap(b).live => MmbUnmap(b).given = b.given
         /\ ~MmbUnmap(b).live => MmbUnmap(b).given = 0 /\ MmbUnmap(b).phy_ref = 0
         /\ ~b.released => MmbUnmap(b).live /\ ~MmbUnmap(b).released
         /\ MmbUnmap(b).released => b.released
         /\ MmbUnmap(b).released /\ MmbUnmap(b).given = 0 => MmbUnmap(b).map_ref > 0
         /\ MmbUnmap(b).map2kern <=> MmbUnmap(b).map_ref > 0
         /\ MmbUnmap(b).map_ref > 0 => MmbUnmap(b).live
         /\ MmbUnmap(b).live /\ b.released => MmbUnmap(b).released
<1> DEFINE c == [b EXCEPT !.map_ref = @ - 1]
           d == [c EXCEPT !.map2kern = FALSE, !.cached = FALSE]
<1>1. b.map_ref - 1 \in Nat
  BY DEF Mmb
<1>2. c \in Mmb
  BY <1>1 DEF Mmb
<1>3. d \in Mmb
  BY <1>1, Zenon DEF Mmb
<1>4. /\ c.phy_ref = b.phy_ref /\ (c.released <=> b.released)
      /\ c.map2kern /\ c.live /\ c.map_ref = b.map_ref - 1
      /\ c.given = b.given
  BY DEF Mmb
<1>5. /\ d.phy_ref = b.phy_ref /\ (d.released <=> b.released)
      /\ ~d.map2kern /\ d.live /\ d.map_ref = b.map_ref - 1
      /\ d.given = b.given
  BY DEF Mmb
<1>6. MmbUnmap(b) = IF c.map_ref # 0 THEN c
                    ELSE IF c.released /\ c.phy_ref = 0 THEN FreedMmb ELSE d
  BY DEF MmbUnmap
<1> HIDE DEF c, d
<1>7. CASE c.map_ref # 0
  <2>1. MmbUnmap(b) = c
    BY <1>6, <1>7
  <2>2. c.map_ref > 0
    <3>1. c.map_ref \in Nat
      BY <1>2 DEF Mmb
    <3>2. QED
      BY <1>7, <3>1
  <2>3. QED
    BY <1>2, <1>4, <2>1, <2>2
<1>8. CASE c.map_ref = 0 /\ ~(c.released /\ c.phy_ref = 0)
  <2>1. MmbUnmap(b) = d
    BY <1>6, <1>8
  <2>2. ~(d.map_ref > 0) /\ ~(b.released /\ b.given = 0)
    BY <1>1, <1>4, <1>5, <1>8
  <2>3. QED
    BY <1>3, <1>5, <2>1, <2>2
<1>9. CASE c.map_ref = 0 /\ c.released /\ c.phy_ref = 0
  BY <1>4, <1>6, <1>9 DEF FreedMmb, Mmb
<1>10. QED
  BY <1>7, <1>8, <1>9

LEMMA AddRefStep ==
  ASSUME IInv, NEW f \in Fds, NEW m \in Mmbs, FdAddRef(f, m)
  PROVE  IInv'
<1> DEFINE p == info[f][m]
           q == [p EXCEPT !.mmb_ref = @ + 1]
<1>1. fd[f].pc \notin MidPcs /\ p.listed
  BY DEF FdAddRef, Idle, MidPcs
<1>2. mmb[m] \in Mmb /\ p \in Info /\ Consistent(mmb[m], p, "idle")
  BY <1>1, ListedBlock
<1>3. q \in Info /\ q.listed /\ q.mmb_ref = p.mmb_ref + 1
  BY <1>1, <1>2 DEF Info
<1>4. /\ SetInfo(f, m, q) /\ mmb' = [mmb EXCEPT ![m] = MmbGet(mmb[m])]
      /\ UNCHANGED <<fd, kernel>>
  BY DEF FdAddRef, SetMmb
<1> HIDE DEF q
<1>5. QED
  BY <1>1, <1>2, <1>3, <1>4, GetConsistent, EntryStep

LEMMA RemapAgainStep ==
  ASSUME IInv, NEW f \in Fds, NEW m \in Mmbs, NEW cached \in BOOLEAN,
         FdRemapAgain(f, m, cached)
  PROVE  IInv'
<1> DEFINE p == info[f][m]
           q == [p EXCEPT !.map_ref = @ + 1, !.mmb_ref = @ + 1]
<1>1. fd[f].pc \notin MidPcs /\ p.listed
  BY DEF FdRemapAgain, Idle, MidPcs
<1>2. mmb[m] \in Mmb /\ p \in Info /\ Consistent(mmb[m], p, "idle")
  BY <1>1, ListedBlock
<1>3. p.map_ref + 1 \in Int /\ p.mmb_ref + 1 \in Int
  BY <1>2 DEF Info
<1>4. q \in Info
  BY <1>2, <1>3, Zenon DEF Info
<1>5. q.listed /\ q.mmb_ref = p.mmb_ref + 1
  BY <1>1, <1>2 DEF Info
<1>6. /\ SetInfo(f, m, q) /\ mmb' = [mmb EXCEPT ![m] = MmbGet(mmb[m])]
      /\ UNCHANGED <<fd, kernel>>
  BY DEF FdRemapAgain, SetMmb
<1> HIDE DEF q
<1>7. QED
  BY <1>1, <1>2, <1>4, <1>5, <1>6, GetConsistent, EntryStep

LEMMA RemapStep ==
  ASSUME IInv, NEW f \in Fds, NEW m \in Mmbs, NEW cached \in BOOLEAN,
         NEW ok \in BOOLEAN, FdRemap(f, m, cached, ok)
  PROVE  IInv'
<1> DEFINE p == info[f][m]
           q == [p EXCEPT !.map_cached = cached]
           r == [q EXCEPT !.mapped = TRUE, !.map_ref = @ + 1,
                          !.mmb_ref = @ + 1]
<1>1. fd[f].pc \notin MidPcs /\ p.listed
  BY DEF FdRemap, Idle, MidPcs
<1>2. mmb[m] \in Mmb /\ p \in Info /\ Consistent(mmb[m], p, "idle")
  BY <1>1, ListedBlock
<1>3. q \in Info /\ q.listed /\ q.mmb_ref = p.mmb_ref
  BY <1>1, <1>2 DEF Info
<1>4. p.map_ref + 1 \in Int /\ p.mmb_ref + 1 \in Int
  BY <1>2 DEF Info
<1>5. r \in Info
  BY <1>2, <1>4, Zenon DEF Info
<1>6. r.listed /\ r.mmb_ref = p.mmb_ref + 1
  BY <1>1, <1>2 DEF Info
<1>7. /\ \/ SetInfo(f, m, r) /\ mmb' = [mmb EXCEPT ![m] = MmbGet(mmb[m])]
         \/ SetInfo(f, m, q) /\ UNCHANGED mmb
      /\ UNCHANGED <<fd, kernel>>
  BY DEF FdRemap, SetMmb
<1> HIDE DEF r, q
<1>8. CASE SetInfo(f, m, r) /\ mmb' = [mmb EXCEPT ![m] = MmbGet(mmb[m])]
  BY <1>1, <1>2, <1>5, <1>6, <1>7, <1>8, GetConsistent, EntryStep
<1>9. CASE SetInfo(f, m, q) /\ UNCHANGED mmb
  <2>1. mmb' = [mmb EXCEPT ![m] = mmb[m]]
    BY <1>9, SameValues DEF IInv
  <2>2. Consistent(mmb[m], q, "idle")
    BY <1>1, <1>2, <1>3 DEF Consistent
  <2>3. QED
    BY <1>1, <1>2, <1>3, <1>7, <1>9, <2>1, <2>2, EntryStep
<1>10. QED
  BY <1>7, <1>8, <1>9

LEMMA UnmapStep ==
  ASSUME IInv, NEW f \in Fds, NEW m \in Mmbs, NEW vmaOk \in BOOLEAN,
         NEW munmapOk \in BOOLEAN, FdUnmap(f, m, vmaOk, munmapOk)
  PROVE  IInv'
<1> DEFINE p == info[f][m]
           q == [p EXCEPT !.map_ref = @ - 1, !.mmb_ref = @ - 1]
           r == [q EXCEPT !.mapped = ~munmapOk]
<1>1. /\ fd[f].pc \notin MidPcs /\ p.listed
      /\ p.map_ref > 0 /\ p.mmb_ref > 0
  BY DEF FdUnmap, Idle, MidPcs
<1>2. mmb[m] \in Mmb /\ p \in Info /\ Consistent(mmb[m], p, "idle")
  BY <1>1, ListedBlock
<1>3. p.map_ref - 1 \in Int /\ p.mmb_ref - 1 \in Int
  BY <1>1, <1>2 DEF Info
<1>4. q \in Info
  BY <1>2, <1>3, Zenon DEF Info
<1>5. r \in Info
  BY <1>2, <1>3, Zenon DEF Info
<1>6. /\ q.listed /\ q.mmb_ref = p.mmb_ref - 1
      /\ r.listed /\ r.mmb_ref = p.mmb_ref - 1
  BY <1>1, <1>2 DEF Info
<1>7. /\ mmb' = [mmb EXCEPT ![m] = MmbPut(mmb[m])]
      /\ kernel' = kernel
      /\ \/ SetInfo(f, m, q) /\ UNCHANGED fd
         \/ SetInfo(f, m, r) /\ UNCHANGED fd
         \/ SetInfo(f, m, r) /\ FreeNow(r) /\ Goto(f, "put", m)
  BY DEF FdUnmap, SetMmb
<1> HIDE DEF r, q
<1>8. CASE SetInfo(f, m, q) /\ UNCHANGED fd
  BY <1>1, <1>2, <1>4, <1>6, <1>7, <1>8, PutConsistent, EntryStep
<1>9. CASE SetInfo(f, m, r) /\ UNCHANGED fd
  BY <1>1, <1>2, <1>5, <1>6, <1>7, <1>9, PutConsistent, EntryStep
<1>10. CASE SetInfo(f, m, r) /\ FreeNow(r) /\ Goto(f, "put", m)
  <2>1. r.mmb_ref <= 0
    BY <1>10 DEF FreeNow
  <2>2. QED
    BY <1>1, <1>2, <1>5, <1>6, <1>7, <1>10, <2>1, PutConsistent, EntryStep
<1>11. QED
  BY <1>7, <1>8, <1>9, <1>10

LEMMA DecRefStep ==
  ASSUME IInv, NEW f \in Fds, NEW m \in Mmbs, FdDecRef(f, m)
  PROVE  IInv'
<1> DEFINE p == info[f][m]
           q == [p EXCEPT !.mmb_ref = @ - 1]
<1>1. fd[f].pc \notin MidPcs /\ p.listed /\ p.mmb_ref > 0
  BY DEF FdDecRef, Idle, MidPcs
<1>2. mmb[m] \in Mmb /\ p \in Info /\ Consistent(mmb[m], p, "idle")
  BY <1>1, ListedBlock
<1>3. q \in Info /\ q.listed /\ q.mmb_ref = p.mmb_ref - 1
  BY <1>1, <1>2 DEF Info
<1>4. /\ SetInfo(f, m, q) /\ mmb' = [mmb EXCEPT ![m] = MmbPut(mmb[m])]
      /\ kernel' = kernel
      /\ UNCHANGED fd \/ (FreeNow(q) /\ Goto(f, "put", m))
  BY DEF FdDecRef, SetMmb
<1>5. FreeNow(q) => q.mmb_ref <= 0
  BY DEF FreeNow
<1> HIDE DEF q
<1>6. QED
  BY <1>1, <1>2, <1>3, <1>4, <1>5, PutConsistent, EntryStep

LEMMA ReleasePutStep ==
  ASSUME IInv, NEW f \in Fds, NEW m \in Mmbs, FdReleasePut(f, m)
  PROVE  IInv'
<1> DEFINE p == info[f][m]
           q == [p EXCEPT !.mmb_ref = @ - 1]
<1>1. fd[f].pc \notin MidPcs /\ p.listed /\ p.mmb_ref > 0
  BY DEF FdReleasePut, MidPcs
<1>2. mmb[m] \in Mmb /\ p \in Info /\ Consistent(mmb[m], p, "idle")
  BY <1>1, ListedBlock
<1>3. q \in Info /\ q.listed /\ q.mmb_ref = p.mmb_ref - 1
  BY <1>1, <1>2 DEF Info
<1>4. /\ SetInfo(f, m, q) /\ mmb' = [mmb EXCEPT ![m] = MmbPut(mmb[m])]
      /\ UNCHANGED <<fd, kernel>>
  BY DEF FdReleasePut, SetMmb
<1> HIDE DEF q
<1>5. QED
  BY <1>1, <1>2, <1>3, <1>4, PutConsistent, EntryStep

LEMMA FreeBusyStep ==
  ASSUME IInv, NEW f \in Fds, NEW m \in Mmbs, FdFreeBusy(f, m)
  PROVE  IInv'
<1> DEFINE p == info[f][m]
           q == [p EXCEPT !.delayed_free = TRUE, !.noted = TRUE]
<1>1. fd[f].pc \notin MidPcs /\ p.listed
  BY DEF FdFreeBusy, Idle, MidPcs
<1>2. mmb[m] \in Mmb /\ p \in Info /\ Consistent(mmb[m], p, "idle")
  BY <1>1, ListedBlock
<1>3. q \in Info /\ q.listed /\ q.mmb_ref = p.mmb_ref
  BY <1>1, <1>2 DEF Info
<1>4. SetInfo(f, m, q) /\ UNCHANGED <<mmb, fd, kernel>>
  BY DEF FdFreeBusy
<1>5. mmb' = [mmb EXCEPT ![m] = mmb[m]]
  BY <1>4, SameValues DEF IInv
<1> HIDE DEF q
<1>6. Consistent(mmb[m], q, "idle")
  BY <1>1, <1>2, <1>3 DEF Consistent
<1>7. QED
  BY <1>1, <1>2, <1>3, <1>4, <1>5, <1>6, EntryStep

(* Entering _usrdev_mmb_free, from the ioctl or from the close. *)
LEMMA EnterFreeStep ==
  ASSUME IInv, NEW f \in Fds, NEW m \in Mmbs,
         FdFree(f, m) \/ FdReleaseFree(f, m)
  PROVE  IInv'
<1> DEFINE p == info[f][m]
<1>a. fd[f].pc \notin MidPcs /\ p.listed
  BY DEF FdFree, FdReleaseFree, Idle, MidPcs
<1>2. mmb[m] \in Mmb /\ p \in Info /\ Consistent(mmb[m], p, "idle")
  BY <1>a, ListedBlock
<1>b. p.mmb_ref <= 0
  BY <1>2 DEF FdFree, FdReleaseFree, Info
<1>1. fd[f].pc \notin MidPcs /\ p.listed /\ p.mmb_ref <= 0
  BY <1>a, <1>b
<1>3. /\ Goto(f, "put", m) /\ UNCHANGED <<mmb, info, kernel>>
  BY DEF FdFree, FdReleaseFree
<1>4. /\ mmb' = [mmb EXCEPT ![m] = mmb[m]]
      /\ SetInfo(f, m, p)
  BY <1>3, SameValues DEF IInv, SetInfo, TypeOK
<1>5. Consistent(mmb[m], p, "put")
  BY <1>1, <1>2 DEF Consistent, MidPcs
<1>6. QED
  BY <1>1, <1>2, <1>3, <1>4, <1>5, EntryStep

(* Between the calls of one ioctl: the failed allocation, ...                *)
LEMMA AllocFailStep ==
  ASSUME IInv, NEW f \in Fds, FdAllocFail(f)
  PROVE  IInv'
<1> DEFINE m == fd[f].m
           d == [fd[f] EXCEPT !.pc = "free", !.m = m]
           i == info[f][m]
<1>1. TypeOK /\ m \in Mmbs /\ Holds(f, m) /\ PcOn(f, m) = "alloc"
  BY DEF IInv, MidCall, FdAllocFail, Holds, PcOn
<1>2. Goto(f, "free", m) /\ UNCHANGED <<mmb, info, kernel>>
  BY DEF FdAllocFail
<1>3. m = fd[f].m
  OBVIOUS
<1> HIDE DEF m, d, i
<1>4. fd' = [fd EXCEPT ![f] = d] /\ d \in Thread
  BY <1>1, <1>2, GotoIs DEF Pcs, d
<1>5. d.pc = "free" /\ d.m = m
  BY <1>1 DEF TypeOK, d
<1>6. /\ mmb' = [mmb EXCEPT ![m] = mmb[m]] /\ mmb[m] \in Mmb
      /\ info' = [info EXCEPT ![f] = [info[f] EXCEPT ![m] = i]] /\ i \in Info
  BY <1>1, <1>2, SameValues DEF i
<1>7. Alone(f, m) /\ Consistent(mmb[m], i, "alloc")
  BY <1>1, HeldBlock DEF i
<1>8. Consistent(mmb[m], i, d.pc)
  BY <1>5, <1>7 DEF Consistent, MidPcs
<1>9. QED
  BY <1>1, <1>2, <1>3, <1>4, <1>5, <1>6, <1>7, <1>8, FileStep

(* ... osal_list_del and hil_mmb_put, which drops the entry's own reference  *)
(* and so cannot free the block, ...                                        *)
LEMMA FreePutStep ==
  ASSUME IInv, NEW f \in Fds, FdFreePut(f)
  PROVE  IInv'
<1> DEFINE m == fd[f].m
           b == MmbPut(mmb[m])
           d == [fd[f] EXCEPT !.pc = "free", !.m = m]
<1>1. TypeOK /\ m \in Mmbs /\ Holds(f, m) /\ PcOn(f, m) = "put"
  BY DEF IInv, MidCall, FdFreePut, Holds, PcOn
<1>2. /\ SetInfo(f, m, NoInfo) /\ mmb' = [mmb EXCEPT ![m] = b]
      /\ Goto(f, "free", m) /\ kernel' = kernel
  BY DEF FdFreePut, SetMmb
<1>3. m = fd[f].m
  OBVIOUS
<1> HIDE DEF m, b, d
<1>4. fd' = [fd EXCEPT ![f] = d] /\ d \in Thread
  BY <1>1, <1>2, GotoIs DEF Pcs, d
<1>5. d.pc = "free" /\ d.m = m
  BY <1>1 DEF TypeOK, d
<1>6. /\ NoInfo \in Info /\ mmb[m] \in Mmb
      /\ info' = [info EXCEPT ![f] = [info[f] EXCEPT ![m] = NoInfo]]
  BY <1>1, <1>2, SetInfoIs, SameValues DEF Info, NoInfo
<1>7. Alone(f, m) /\ Consistent(mmb[m], info[f][m], "put")
  BY <1>1, HeldBlock
<1>a. /\ b \in Mmb /\ b.phy_ref = mmb[m].phy_ref - 1 /\ b.given = mmb[m].given
      /\ b.live /\ ~b.released /\ (b.map2kern <=> b.map_ref > 0)
  BY <1>6, <1>7 DEF Consistent, MidPcs, Mmb, MmbPut, b
<1>b. b.given = 0 => b.phy_ref = 0
  BY <1>1, <1>7, <1>a, SameValues DEF Consistent, MidPcs, Info
<1>8. b \in Mmb /\ Consistent(b, NoInfo, "free")
  BY <1>a, <1>b DEF Consistent, MidPcs, NoInfo
<1>9. QED
  BY <1>1, <1>2, <1>3, <1>4, <1>5, <1>6, <1>7, <1>8, FileStep

(* ... and hil_mmb_free, which frees it or leaves it to the last unmap.      *)
LEMMA FreeMmbStep ==
  ASSUME IInv, NEW f \in Fds, FdFreeMmb(f)
  PROVE  IInv'
<1> DEFINE m == fd[f].m
           b == MmbFree(mmb[m])
           pc == IF fd[f].closing THEN "release" ELSE "idle"
           d == [fd[f] EXCEPT !.pc = pc, !.m = NoMmb]
           i == info[f][m]
<1>1. TypeOK /\ m \in Mmbs /\ Holds(f, m) /\ PcOn(f, m) = "free"
  BY DEF IInv, MidCall, FdFreeMmb, Holds, PcOn
<1>2. /\ mmb' = [mmb EXCEPT ![m] = b] /\ Goto(f, pc, NoMmb)
      /\ UNCHANGED <<info, kernel>>
  BY DEF FdFreeMmb, SetMmb
<1>3. m = fd[f].m
  OBVIOUS
<1>4. pc \in Pcs \ MidPcs
  BY DEF Pcs, MidPcs
<1> HIDE DEF m, b, d, pc, i
<1>5. fd' = [fd EXCEPT ![f] = d] /\ d \in Thread
  BY <1>1, <1>2, <1>4, GotoIs DEF d
<1>6. d.pc = pc
  BY <1>1 DEF TypeOK, d
<1>7. /\ info' = [info EXCEPT ![f] = [info[f] EXCEPT ![m] = i]]
      /\ i \in Info /\ mmb[m] \in Mmb
  BY <1>1, <1>2, SameValues DEF i
<1>8. Alone(f, m) /\ Consistent(mmb[m], i, "free")
  BY <1>1, HeldBlock DEF i
<1>9. b \in Mmb /\ Consistent(b, i, "idle")
  BY <1>7, <1>8, FreeResult DEF Consistent, MidPcs, b
<1>10. Consistent(b, i, d.pc)
  BY <1>4, <1>6, <1>9 DEF Consistent, MidPcs
<1>11. QED
  BY <1>1, <1>2, <1>3, <1>4, <1>5, <1>6, <1>7, <1>8, <1>9, <1>10, FileStep

LEMMA CloseStep ==
  ASSUME IInv, NEW f \in Fds, FdClose(f) \/ FdReleaseDone(f)
  PROVE  IInv'
<1>1. PICK pc \in {"release", "closed"}, c \in BOOLEAN :
        /\ fd[f].pc \in {"idle", "release"}
        /\ fd' = [fd EXCEPT ![f].pc = pc, ![f].closing = c]
        /\ UNCHANGED <<mmb, info, kernel>>
  BY DEF FdClose, FdReleaseDone, Idle
<1> DEFINE d == [fd[f] EXCEPT !.pc = pc, !.closing = c]
<1>2. fd' = [fd EXCEPT ![f] = d] /\ d \in Thread /\ d.pc = pc
  BY <1>1 DEF IInv, TypeOK, Thread, Pcs
<1> HIDE DEF d
<1>3. QED
  BY <1>1, <1>2, ThreadOnlyStep DEF MidPcs

(* Any step of a file. *)
LEMMA FileNext ==
  ASSUME IInv, NEW f \in Fds, FdStep(f)
  PROVE  IInv'
  BY OpenStep, AllocStep, AllocGetStep, AllocFailStep, RemapAgainStep,
     RemapStep, UnmapStep, AddRefStep, DecRefStep, FreeBusyStep,
     EnterFreeStep, FreePutStep, FreeMmbStep, ReleasePutStep, CloseStep
     DEF FdStep, FdRelease

-----------------------------------------------------------------------------
(* Kernel clients. *)

(* A step on block m that keeps the references the files account for.        *)
LEMMA KernelBlockStep ==
  ASSUME IInv, NEW m \in Mmbs, NEW b \in Mmb,
         mmb' = [mmb EXCEPT ![m] = b], UNCHANGED <<info, fd>>,
         kernel' \subseteq Mmbs, kernel' \ {m} = kernel \ {m},
         b.phy_ref = mmb[m].phy_ref,
         b.given = 0 => b.phy_ref >= 0,
         b.given = 0 /\ (\A f \in Fds : ~info[f][m].listed) => b.phy_ref = 0,
         ~b.live => b.given = 0,
         \A f \in Fds : Holds(f, m) =>
           b.live /\ ~b.released /\ b.given = mmb[m].given /\ m \notin kernel',
         b.released => m \notin kernel',
         b.released /\ b.given = 0 => b.map_ref > 0,
         b.map2kern <=> b.map_ref > 0,
         m \in kernel' => b.live /\ ~b.released /\ b.given = 0,
         b.live => b.released \/ m \in kernel' \/ \E f \in Fds : Holds(f, m),
         b.map_ref > 0 => b.live
  PROVE  IInv'
<1>1. mmb'[m] = b /\ \A x \in Mmbs \ {m} : mmb'[x] = mmb[x]
  BY DEF IInv, TypeOK
<1>2. \A f \in Fds, x \in Mmbs :
        (Holds(f, x)' <=> Holds(f, x)) /\ RefsOf(f, x)' = RefsOf(f, x)
  BY DEF Holds, RefsOf
<1>3. TypeOK'
  BY <1>1 DEF IInv, TypeOK
<1>4. NoUseAfterFree'
  BY <1>1, <1>2 DEF IInv, NoUseAfterFree
<1>5. OneOwner'
  BY <1>2 DEF IInv, OneOwner
<1>a. \A f \in Fds, x \in Mmbs : info[f][x].listed => mmb'[x].given = mmb[x].given
  BY <1>1 DEF Holds
<1>6. RefAccounting'
  <2>1. \A f \in Fds, x \in Mmbs :
          info'[f][x].listed => mmb'[x].phy_ref = RefsOf(f, x)' - mmb'[x].given
    BY <1>1, <1>2, <1>a DEF IInv, RefAccounting
  <2>2. \A x \in Mmbs :
          mmb'[x].given = 0 /\ (\A f \in Fds : ~info'[f][x].listed)
            => mmb'[x].phy_ref = 0
    BY <1>1 DEF IInv, RefAccounting
  <2>3. QED
    BY <2>1, <2>2 DEF RefAccounting
<1>7. ReleasedIsMapped'
  BY <1>1 DEF IInv, ReleasedIsMapped
<1>8. MidCall'
  <2>1. \A f \in Fds : fd[f].pc = "alloc" => mmb'[fd[f].m].given = mmb[fd[f].m].given
    BY <1>1 DEF Holds, IInv, MidCall
  <2>2. QED
    BY <2>1 DEF IInv, MidCall
<1>9. KernelBlocks'
  BY <1>1 DEF IInv, KernelBlocks, TypeOK
<1>10. NoLeak'
  BY <1>1, <1>2 DEF IInv, NoLeak
<1>11. Counted'
  BY <1>a DEF IInv, Counted
<1>12. QED
  BY <1>3, <1>4, <1>5, <1>6, <1>7, <1>8, <1>9, <1>10, <1>11 DEF IInv

(* What the invariant says of the kernel's side of a block. *)
LEMMA KernelBlock ==
  ASSUME IInv, NEW m \in Mmbs
  PROVE  /\ mmb[m] \in Mmb /\ kernel \subseteq Mmbs
         /\ \A f \in Fds : Holds(f, m) =>
              mmb[m].live /\ ~mmb[m].released /\ m \notin kernel
         /\ mmb[m].given = 0 => mmb[m].phy_ref >= 0
         /\ mmb[m].given = 0 /\ (\A f \in Fds : ~info[f][m].listed)
              => mmb[m].phy_ref = 0
         /\ \A f \in Fds : info[f][m].listed => Holds(f, m)
         /\ ~mmb[m].live => mmb[m].given = 0
         /\ mmb[m].released => m \notin kernel
         /\ mmb[m].released /\ mmb[m].given = 0 => mmb[m].map_ref > 0
         /\ mmb[m].map2kern <=> mmb[m].map_ref > 0
         /\ mmb[m].map_ref > 0 => mmb[m].live
         /\ m \in kernel => mmb[m].live /\ ~mmb[m].released /\ mmb[m].given = 0
         /\ mmb[m].live => \/ mmb[m].released \/ m \in kernel
                           \/ \E f \in Fds : Holds(f, m)
<1>1. TypeOK /\ NoUseAfterFree /\ OneOwner /\ RefAccounting
      /\ ReleasedIsMapped /\ KernelBlocks /\ NoLeak
  BY DEF IInv
<1>2. mmb[m] \in Mmb /\ kernel \subseteq Mmbs
      /\ (mmb[m].given = 0 => mmb[m].phy_ref >= 0)
  BY <1>1 DEF TypeOK
<1>3. \A f \in Fds : info[f][m].listed => Holds(f, m)
  BY DEF Holds
<1>4. \A f \in Fds : Holds(f, m) =>
        mmb[m].live /\ ~mmb[m].released /\ m \notin kernel
  BY <1>1 DEF NoUseAfterFree, OneOwner
<1>5. mmb[m].given = 0 /\ (\A f \in Fds : ~info[f][m].listed)
        => mmb[m].phy_ref = 0
  BY <1>1 DEF RefAccounting
<1>6. /\ mmb[m].released => m \notin kernel
      /\ mmb[m].released /\ mmb[m].given = 0 => mmb[m].map_ref > 0
      /\ mmb[m].map2kern <=> mmb[m].map_ref > 0
  BY <1>1 DEF ReleasedIsMapped
<1>7. /\ mmb[m].map_ref > 0 => mmb[m].live
      /\ ~mmb[m].live => mmb[m].given = 0
      /\ m \in kernel => mmb[m].live /\ ~mmb[m].released /\ mmb[m].given = 0
  BY <1>1 DEF KernelBlocks
<1>8. mmb[m].live => \/ mmb[m].released \/ m \in kernel
                     \/ \E f \in Fds : Holds(f, m)
  BY <1>1 DEF NoLeak
<1> QED
  BY <1>2, <1>3, <1>4, <1>5, <1>6, <1>7, <1>8

LEMMA KernelNext ==
  ASSUME IInv, NEW m \in Mmbs, KernelStep(m)
  PROVE  IInv'
<1>1. CASE KernelAlloc(m)
  <2> DEFINE b == NewMmb
  <2>1. mmb' = [mmb EXCEPT ![m] = b] /\ UNCHANGED <<info, fd>>
    BY <1>1 DEF KernelAlloc, SetMmb
  <2>2. b \in Mmb /\ b.phy_ref = 0 /\ b.given = 0 /\ b.live /\ ~b.released
        /\ (b.map2kern <=> b.map_ref > 0)
    BY BlockValues
  <2>3. (\A f \in Fds : ~Holds(f, m) /\ ~info[f][m].listed) /\ mmb[m].given = 0
    BY <1>1, KernelBlock DEF KernelAlloc
  <2>4. mmb[m].phy_ref = 0
    BY <2>3, KernelBlock
  <2>5. kernel' \subseteq Mmbs /\ kernel' \ {m} = kernel \ {m} /\ m \in kernel'
    BY <1>1, KernelBlock DEF KernelAlloc
  <2> HIDE DEF b
  <2>6. /\ b.phy_ref = mmb[m].phy_ref /\ b.phy_ref >= 0 /\ b.given = mmb[m].given
        /\ \A f \in Fds : Holds(f, m) =>
             b.live /\ ~b.released /\ b.given = mmb[m].given /\ m \notin kernel'
        /\ b.map_ref > 0 => b.live
    BY <2>2, <2>3, <2>4
  <2>7. QED
    BY <2>1, <2>2, <2>5, <2>6, KernelBlockStep
<1>2. CASE KernelFree(m)
  <2> DEFINE b == MmbFree(mmb[m])
  <2>1. mmb' = [mmb EXCEPT ![m] = b] /\ UNCHANGED <<info, fd>>
        /\ m \in kernel /\ kernel' = kernel \ {m}
    BY <1>2 DEF KernelFree, SetMmb
  <2>2. (\A f \in Fds : ~Holds(f, m) /\ ~info[f][m].listed) /\ mmb[m].phy_ref = 0
        /\ ~mmb[m].released /\ mmb[m].live /\ mmb[m].given = 0
    BY <2>1, KernelBlock
  <2>3. b \in Mmb /\ (b.given = 0 => b.phy_ref = 0)
        /\ (b.released /\ b.given = 0 => b.map_ref > 0)
        /\ (b.map2kern <=> b.map_ref > 0) /\ (b.map_ref > 0 => b.live)
        /\ (b.live => b.released) /\ (~b.live => b.given = 0)
    BY <2>2, KernelBlock, FreeResult
  <2>a. b.given = 0
    BY <2>2, BlockValues, KernelBlock DEF MmbFree, Mmb
  <2> HIDE DEF b
  <2>4. QED
    BY <2>1, <2>2, <2>3, <2>a, KernelBlock, KernelBlockStep
<1>3. CASE KernelUnmap(m)
  <2> DEFINE b == MmbUnmap(mmb[m])
  <2>1. mmb' = [mmb EXCEPT ![m] = b] /\ UNCHANGED <<info, fd, kernel>>
        /\ mmb[m].map_ref > 0
    BY <1>3 DEF KernelUnmap, SetMmb
  <2>2. mmb[m].released /\ mmb[m].given = 0 => mmb[m].phy_ref = 0
    BY KernelBlock
  <2>3. /\ b \in Mmb /\ b.phy_ref = mmb[m].phy_ref
        /\ b.live => b.given = mmb[m].given
        /\ ~b.live => b.given = 0 /\ b.phy_ref = 0
        /\ ~mmb[m].released => b.live /\ ~b.released
        /\ b.released => mmb[m].released
        /\ b.released /\ b.given = 0 => b.map_ref > 0
        /\ b.map2kern <=> b.map_ref > 0
        /\ b.map_ref > 0 => b.live
        /\ b.live /\ mmb[m].released => b.released
    BY <2>1, <2>2, KernelBlock, UnmapResult
  <2>4. \A f \in Fds : Holds(f, m) =>
          b.live /\ ~b.released /\ b.given = mmb[m].given /\ m \notin kernel'
    BY <2>1, <2>3, KernelBlock
  <2>5. b.given = 0 => b.phy_ref >= 0
    <3>1. CASE b.live
      BY <2>3, <3>1, KernelBlock
    <3>2. CASE ~b.live
      BY <2>3, <3>2
    <3> QED
      BY <3>1, <3>2
  <2>6. b.given = 0 /\ (\A f \in Fds : ~info[f][m].listed) => b.phy_ref = 0
    <3>1. CASE b.live
      BY <2>3, <3>1, KernelBlock
    <3>2. CASE ~b.live
      BY <2>3, <3>2
    <3> QED
      BY <3>1, <3>2
  <2>7. /\ b.released => m \notin kernel'
        /\ m \in kernel' => b.live /\ ~b.released /\ b.given = 0
        /\ b.live => b.released \/ m \in kernel' \/ \E f \in Fds : Holds(f, m)
    <3>1. /\ mmb[m].released => m \notin kernel
          /\ m \in kernel => ~mmb[m].released /\ mmb[m].given = 0
          /\ mmb[m].released \/ m \in kernel \/ \E f \in Fds : Holds(f, m)
      BY <2>1, KernelBlock
    <3> HIDE DEF b
    <3>2. QED
      BY <2>1, <2>3, <3>1
  <2> HIDE DEF b
  <2>8. QED
    BY <2>1, <2>3, <2>4, <2>5, <2>6, <2>7, KernelBlock, KernelBlockStep
<1>4. ASSUME NEW cached \in BOOLEAN, NEW ok \in BOOLEAN,
             KernelMap(m, cached, ok)
      PROVE  IInv'
  <2> DEFINE b == MmbMap(mmb[m], cached, ok)
  <2>1. mmb' = [mmb EXCEPT ![m] = b] /\ UNCHANGED <<info, fd, kernel>>
        /\ mmb[m].live /\ ~mmb[m].released
    BY <1>4 DEF KernelMap, SetMmb
  <2>2. mmb[m].map_ref + 1 \in Nat
    BY KernelBlock DEF Mmb
  <2>3. b \in Mmb
    BY <2>2, KernelBlock, Zenon DEF MmbMap, Mmb
  <2>4. /\ b.phy_ref = mmb[m].phy_ref /\ b.live /\ ~b.released
        /\ b.given = mmb[m].given
        /\ b.map2kern <=> b.map_ref > 0
    BY <2>1, KernelBlock DEF MmbMap, Mmb
  <2> HIDE DEF b
  <2>5. QED
    BY <2>1, <2>3, <2>4, KernelBlock, KernelBlockStep
<1>5. QED
  BY <1>1, <1>2, <1>3, <1>4 DEF KernelStep

-----------------------------------------------------------------------------
(* The inductive invariant holds in every reachable state. *)
THEOREM Inductive == Spec => []IInv
<1>1. Init => IInv
  BY InitIInv
<1>2. IInv /\ [Next]_vars => IInv'
  <2> SUFFICES ASSUME IInv, [Next]_vars PROVE IInv'
    OBVIOUS
  <2>1. CASE Next
    BY <2>1, FileNext, KernelNext DEF Next
  <2>2. CASE UNCHANGED vars
    BY <2>2 DEF vars, IInv, TypeOK, NoUseAfterFree, OneOwner, RefAccounting,
       ReleasedIsMapped, NoLeak, MidCall, KernelBlocks, Counted, Holds, RefsOf
  <2>3. QED
    BY <2>1, <2>2
<1>3. QED
  BY <1>1, <1>2, PTL DEF Spec

(* Every state is well typed, whatever counts and flags callers bring; a      *)
(* phy_ref is taken below zero only by counts the mmb_info came with.        *)
THEOREM TypeCorrect == Spec => []TypeOK
  BY Inductive, PTL DEF IInv

(* A file's pointers to a block never outlive the block (_usrdev_mmb_free    *)
(* calls hil_mmb_free on a pointer it has already given its reference back   *)
(* for).                                                                    *)
THEOREM NoUseAfterFreeHolds == Spec => []NoUseAfterFree
  BY Inductive, PTL DEF IInv

(* A block has one owner, and its phy_ref is what that owner accounts for,   *)
(* less what the owner's mmb_info claimed when it was copied.                *)
THEOREM ReferencesHold == Spec => [](OneOwner /\ RefAccounting)
  BY Inductive, PTL DEF IInv

(* A released block whose mmb_info came without a count is one a kernel      *)
(* mapping keeps, so it is freed by the last hil_mmb_unmap and never lost.   *)
THEOREM ReleasedIsMappedHolds == Spec => []ReleasedIsMapped
  BY Inductive, PTL DEF IInv

-----------------------------------------------------------------------------
(* A promised free: an entry the driver noted as to be freed either still    *)
(* has a count that only falls to zero in an ioctl that frees, or is mapped, *)
(* or is being freed.                                                       *)
Promise(i, freeing) ==
  i.listed /\ i.noted =>
    /\ i.mmb_ref >= 0 \/ i.map_ref > 0
    /\ FreeNow(i) /\ ~freeing => i.mapped

(* A file that is not being closed lists no block it ought to have freed,    *)
(* other than the one _usrdev_mmb_free is about to take off the list: e is   *)
(* the file's list, d its thread.                                           *)
Kept(e, d) ==
  /\ d.pc = "closed" => \A m \in Mmbs : ~e[m].listed
  /\ d.closing => d.pc \in {"release", "put", "free"}
  /\ d.pc = "release" => d.closing
  /\ ~d.closing =>
       \A m \in Mmbs : Promise(e[m], d.pc = "put" /\ d.m = m)

PromisesKept == \A f \in Fds : Kept(info[f], fd[f])

LEMMA InitPromises == Init => PromisesKept
<1> SUFFICES ASSUME Init, NEW f \in Fds PROVE Kept(info[f], fd[f])
  BY DEF PromisesKept
<1>1. fd[f].pc = "closed" /\ ~fd[f].closing
  BY DEF Init
<1>2. \A m \in Mmbs : info[f][m] = NoInfo
  BY DEF Init
<1>3. ~NoInfo.listed
  BY DEF NoInfo
<1>4. \A m \in Mmbs : ~info[f][m].listed
  BY <1>2, <1>3
<1> QED
  BY <1>1, <1>4 DEF Kept, Promise

(* A file touches its own list and its own thread.                           *)
LEMMA OwnStep ==
  ASSUME TypeOK, PromisesKept, NEW f \in Fds,
         \A g \in Fds \ {f} : info'[g] = info[g] /\ fd'[g] = fd[g],
         Kept(info'[f], fd'[f])
  PROVE  PromisesKept'
  BY DEF PromisesKept

(* A step of a thread alone.                                                 *)
LEMMA ThreadKeeps ==
  ASSUME TypeOK, PromisesKept, NEW f \in Fds, NEW d \in Thread,
         fd' = [fd EXCEPT ![f] = d], UNCHANGED info, Kept(info[f], d)
  PROVE  PromisesKept'
<1>1. /\ \A g \in Fds \ {f} : info'[g] = info[g] /\ fd'[g] = fd[g]
      /\ info'[f] = info[f] /\ fd'[f] = d
  BY DEF TypeOK
<1> QED
  BY <1>1, OwnStep

(* A step on the entry for m, which may send the thread elsewhere.           *)
LEMMA EntryKeeps ==
  ASSUME TypeOK, PromisesKept, NEW f \in Fds, NEW m \in Mmbs, NEW i \in Info,
         NEW d \in Thread, SetInfo(f, m, i), fd' = [fd EXCEPT ![f] = d],
         d.closing = fd[f].closing, d.pc # "closed",
         d.closing => d.pc \in {"release", "put", "free"},
         d.pc = "release" => d.closing,
         fd[f].pc = "put" => fd[f].m = m,
         d.closing \/ Promise(i, d.pc = "put" /\ d.m = m)
  PROVE  PromisesKept'
<1>1. info' = [info EXCEPT ![f] = [info[f] EXCEPT ![m] = i]]
  BY SetInfoIs
<1>2. info[f] \in [Mmbs -> Info]
  BY DEF TypeOK
<1>3. /\ \A g \in Fds \ {f} : info'[g] = info[g] /\ fd'[g] = fd[g]
      /\ info'[f] = [info[f] EXCEPT ![m] = i] /\ fd'[f] = d
  BY <1>1 DEF TypeOK
<1>4. info'[f][m] = i /\ \A x \in Mmbs \ {m} : info'[f][x] = info[f][x]
  BY <1>2, <1>3
<1>5. ASSUME ~d.closing, NEW x \in Mmbs
      PROVE  Promise(info'[f][x], d.pc = "put" /\ d.m = x)
  <2>1. CASE x = m
    BY <1>4, <1>5, <2>1
  <2>2. CASE x # m
    <3>1. Kept(info[f], fd[f]) /\ ~(fd[f].pc = "put" /\ fd[f].m = x)
      BY <2>2 DEF PromisesKept
    <3>2. Promise(info[f][x], fd[f].pc = "put" /\ fd[f].m = x)
      BY <1>5, <3>1 DEF Kept
    <3> QED
      BY <1>4, <2>2, <3>1, <3>2 DEF Promise
  <2> QED
    BY <2>1, <2>2
<1>6. Kept(info'[f], fd'[f])
  BY <1>3, <1>5 DEF Kept
<1> QED
  BY <1>3, <1>6, OwnStep

(* What is known of a file outside any call.                                 *)
LEMMA ServingFile ==
  ASSUME TypeOK, PromisesKept, NEW f \in Fds, Idle(f)
  PROVE  /\ fd[f] \in Thread /\ fd = [fd EXCEPT ![f] = fd[f]]
         /\ fd[f].pc = "idle" /\ ~fd[f].closing
         /\ \A m \in Mmbs : info[f][m] \in Info
  BY ThreadType, SameValues DEF PromisesKept, Kept, Idle, TypeOK

(* The ioctls of a file on one of its entries.                               *)
LEMMA IoctlKeeps ==
  ASSUME TypeOK, PromisesKept, NEW f \in Fds, NEW m \in Mmbs, NEW i \in Info,
         Idle(f), SetInfo(f, m, i),
         \/ UNCHANGED fd /\ Promise(i, FALSE)
         \/ Goto(f, "put", m) /\ Promise(i, TRUE)
  PROVE  PromisesKept'
<1>1. CASE UNCHANGED fd /\ Promise(i, FALSE)
  <2>1. /\ fd[f] \in Thread /\ fd' = [fd EXCEPT ![f] = fd[f]]
        /\ fd[f].pc = "idle" /\ ~fd[f].closing
    BY <1>1, ServingFile
  <2>2. Promise(i, fd[f].pc = "put" /\ fd[f].m = m)
    BY <1>1, <2>1 DEF Promise
  <2> QED
    BY <1>1, <2>1, <2>2, EntryKeeps
<1>2. CASE Goto(f, "put", m) /\ Promise(i, TRUE)
  <2> DEFINE d == [fd[f] EXCEPT !.pc = "put", !.m = m]
  <2>1. fd' = [fd EXCEPT ![f] = d] /\ d \in Thread
    BY <1>2, GotoIs DEF Pcs
  <2>2. fd[f] \in Thread /\ fd[f].pc = "idle" /\ ~fd[f].closing
    BY ServingFile
  <2>3. d.pc = "put" /\ d.m = m /\ ~d.closing /\ d.closing = fd[f].closing
    BY <2>2 DEF Thread
  <2> HIDE DEF d
  <2>4. Promise(i, d.pc = "put" /\ d.m = m)
    BY <1>2, <2>3 DEF Promise
  <2> QED
    BY <2>1, <2>2, <2>3, <2>4, EntryKeeps
<1> QED
  BY <1>1, <1>2

(* What a file's entries satisfy outside a call.                             *)
LEMMA IdlePromise ==
  ASSUME TypeOK, PromisesKept, NEW f \in Fds, NEW m \in Mmbs, Idle(f)
  PROVE  Promise(info[f][m], FALSE)
<1>1. fd[f].pc = "idle" /\ ~fd[f].closing /\ Kept(info[f], fd[f])
  BY ServingFile DEF PromisesKept
<1>2. Promise(info[f][m], fd[f].pc = "put" /\ fd[f].m = m)
  BY <1>1 DEF Kept
<1> QED
  BY <1>1, <1>2 DEF Promise

LEMMA AllocKeeps ==
  ASSUME TypeOK, PromisesKept, NEW f \in Fds, NEW m \in Mmbs, FdAlloc(f, m)
  PROVE  PromisesKept'
<1> DEFINE d == [fd[f] EXCEPT !.pc = "alloc", !.m = m]
<1>1. Goto(f, "alloc", m) /\ UNCHANGED info /\ Idle(f)
  BY DEF FdAlloc
<1>2. fd' = [fd EXCEPT ![f] = d] /\ d \in Thread
  BY <1>1, GotoIs DEF Pcs
<1>3. d.pc = "alloc" /\ d.m = m /\ ~d.closing /\ fd[f].pc = "idle" /\ ~fd[f].closing
  BY <1>1, ServingFile DEF Thread
<1> HIDE DEF d
<1>4. Kept(info[f], d)
  BY <1>3 DEF PromisesKept, Kept
<1> QED
  BY <1>1, <1>2, <1>4, ThreadKeeps

LEMMA MidKeeps ==
  ASSUME IInv, PromisesKept, NEW f \in Fds,
         FdAllocGet(f) \/ FdAllocFail(f) \/ FdFreePut(f) \/ FdFreeMmb(f)
  PROVE  PromisesKept'
<1>1. TypeOK /\ fd[f].m \in Mmbs /\ fd[f] \in Thread
  BY ThreadType DEF IInv, MidCall, FdAllocGet, FdAllocFail, FdFreePut, FdFreeMmb
<1>2. Kept(info[f], fd[f])
  BY DEF PromisesKept
<1>3. CASE FdAllocGet(f)
  <2> DEFINE d == [fd[f] EXCEPT !.pc = "idle", !.m = NoMmb]
  <2>a. PICK g \in Given : SetInfo(f, fd[f].m, [g EXCEPT !.listed = TRUE])
    BY <1>3 DEF FdAllocGet
  <2> DEFINE i == [g EXCEPT !.listed = TRUE]
  <2>1. SetInfo(f, fd[f].m, i) /\ Goto(f, "idle", NoMmb) /\ fd[f].pc = "alloc"
    BY <1>3, <2>a DEF FdAllocGet
  <2>2. fd' = [fd EXCEPT ![f] = d] /\ d \in Thread
    BY <1>1, <2>1, GotoIs DEF Pcs
  <2>3. d.pc = "idle" /\ ~d.closing /\ d.closing = fd[f].closing
    BY <1>1, <1>2, <2>1 DEF Kept, Thread
  <2>4. i \in Info /\ ~i.noted
    BY GivenIs
  <2> HIDE DEF d, i
  <2>5. Promise(i, d.pc = "put" /\ d.m = fd[f].m)
    BY <2>4 DEF Promise
  <2> QED
    BY <1>1, <2>1, <2>2, <2>3, <2>4, <2>5, EntryKeeps
<1>4. CASE FdAllocFail(f)
  <2> DEFINE d == [fd[f] EXCEPT !.pc = "free", !.m = fd[f].m]
  <2>1. Goto(f, "free", fd[f].m) /\ UNCHANGED info /\ fd[f].pc = "alloc"
    BY <1>4 DEF FdAllocFail
  <2>2. fd' = [fd EXCEPT ![f] = d] /\ d \in Thread
    BY <1>1, <2>1, GotoIs DEF Pcs
  <2>3. d.pc = "free" /\ d.closing = fd[f].closing
    BY <1>1 DEF Thread
  <2> HIDE DEF d
  <2>4. Kept(info[f], d)
    BY <1>2, <2>1, <2>3 DEF Kept
  <2> QED
    BY <1>1, <2>1, <2>2, <2>4, ThreadKeeps
<1>5. CASE FdFreePut(f)
  <2> DEFINE d == [fd[f] EXCEPT !.pc = "free", !.m = fd[f].m]
  <2>1. SetInfo(f, fd[f].m, NoInfo) /\ Goto(f, "free", fd[f].m) /\ fd[f].pc = "put"
    BY <1>5 DEF FdFreePut
  <2>2. fd' = [fd EXCEPT ![f] = d] /\ d \in Thread
    BY <1>1, <2>1, GotoIs DEF Pcs
  <2>3. d.pc = "free" /\ d.closing = fd[f].closing
    BY <1>1 DEF Thread
  <2>4. NoInfo \in Info /\ ~NoInfo.listed
    BY DEF NoInfo, Info
  <2> HIDE DEF d
  <2>5. Promise(NoInfo, d.pc = "put" /\ d.m = fd[f].m)
    BY <2>4 DEF Promise
  <2> QED
    BY <1>1, <2>1, <2>2, <2>3, <2>4, <2>5, EntryKeeps
<1>6. CASE FdFreeMmb(f)
  <2> DEFINE pc == IF fd[f].closing THEN "release" ELSE "idle"
             d == [fd[f] EXCEPT !.pc = pc, !.m = NoMmb]
  <2>1. Goto(f, pc, NoMmb) /\ UNCHANGED info /\ fd[f].pc = "free" /\ pc \in Pcs
    BY <1>6 DEF FdFreeMmb, Pcs
  <2>a. NoMmb \in Mmbs \cup {NoMmb}
    OBVIOUS
  <2>b. pc = "release" <=> fd[f].closing
    OBVIOUS
  <2>c. pc \in {"release", "idle"}
    OBVIOUS
  <2> HIDE DEF pc
  <2>2. fd' = [fd EXCEPT ![f] = d] /\ d \in Thread
    BY <1>1, <2>1, <2>a, GotoIs
  <2>3. d.pc = pc /\ d.closing = fd[f].closing
    BY <1>1 DEF Thread
  <2> HIDE DEF d
  <2>4. Kept(info[f], d)
    BY <1>2, <2>1, <2>3, <2>b, <2>c DEF Kept
  <2> QED
    BY <1>1, <2>1, <2>2, <2>4, ThreadKeeps
<1> QED
  BY <1>3, <1>4, <1>5, <1>6

(* Open, and the steps of the close.                                         *)
LEMMA CloseKeeps ==
  ASSUME TypeOK, PromisesKept, NEW f \in Fds,
         \/ FdOpen(f) \/ FdClose(f) \/ FdReleaseDone(f)
         \/ \E m \in Mmbs : FdReleasePut(f, m) \/ FdReleaseFree(f, m)
  PROVE  PromisesKept'
<1>1. Kept(info[f], fd[f]) /\ fd[f] \in Thread
  BY ThreadType DEF PromisesKept
<1>2. CASE FdOpen(f)
  <2> DEFINE d == [fd[f] EXCEPT !.pc = "idle", !.closing = FALSE]
  <2>1. fd' = [fd EXCEPT ![f] = d] /\ UNCHANGED info /\ fd[f].pc = "closed"
    BY <1>2 DEF FdOpen, TypeOK, Thread
  <2>2. d \in Thread /\ d.pc = "idle" /\ ~d.closing
    BY <1>1 DEF Thread, Pcs
  <2> HIDE DEF d
  <2>3. Kept(info[f], d)
    BY <1>1, <2>1, <2>2 DEF Kept
  <2> QED
    BY <2>1, <2>2, <2>3, ThreadKeeps
<1>3. CASE FdClose(f)
  <2> DEFINE d == [fd[f] EXCEPT !.pc = "release", !.closing = TRUE]
  <2>1. fd' = [fd EXCEPT ![f] = d] /\ UNCHANGED info
    BY <1>3 DEF FdClose, TypeOK, Thread
  <2>2. d \in Thread /\ d.pc = "release" /\ d.closing
    BY <1>1 DEF Thread, Pcs
  <2> HIDE DEF d
  <2>3. Kept(info[f], d)
    BY <2>2 DEF Kept
  <2> QED
    BY <2>1, <2>2, <2>3, ThreadKeeps
<1>4. CASE FdReleaseDone(f)
  <2> DEFINE d == [fd[f] EXCEPT !.pc = "closed", !.closing = FALSE]
  <2>1. /\ fd' = [fd EXCEPT ![f] = d] /\ UNCHANGED info
        /\ \A m \in Mmbs : ~info[f][m].listed
    BY <1>4 DEF FdReleaseDone, TypeOK, Thread
  <2>2. d \in Thread /\ d.pc = "closed" /\ ~d.closing
    BY <1>1 DEF Thread, Pcs
  <2> HIDE DEF d
  <2>3. Kept(info[f], d)
    BY <2>1, <2>2 DEF Kept, Promise
  <2> QED
    BY <2>1, <2>2, <2>3, ThreadKeeps
<1>5. ASSUME NEW m \in Mmbs, FdReleasePut(f, m)
      PROVE  PromisesKept'
  <2> DEFINE i == [info[f][m] EXCEPT !.mmb_ref = @ - 1]
  <2>1. /\ SetInfo(f, m, i) /\ UNCHANGED fd /\ fd[f].pc = "release" /\ fd[f].closing
        /\ info[f][m].mmb_ref > 0
    BY <1>1, <1>5 DEF FdReleasePut, Kept
  <2>2. info[f][m] \in Info
    BY DEF TypeOK
  <2>3. i \in Info
    BY <2>1, <2>2 DEF Info
  <2>4. fd' = [fd EXCEPT ![f] = fd[f]]
    BY <2>1, SameValues
  <2> HIDE DEF i
  <2> QED
    BY <1>1, <2>1, <2>3, <2>4, EntryKeeps
<1>6. ASSUME NEW m \in Mmbs, FdReleaseFree(f, m)
      PROVE  PromisesKept'
  <2> DEFINE d == [fd[f] EXCEPT !.pc = "put", !.m = m]
  <2>1. Goto(f, "put", m) /\ UNCHANGED info /\ fd[f].closing
    BY <1>1, <1>6 DEF FdReleaseFree, Kept
  <2>2. fd' = [fd EXCEPT ![f] = d] /\ d \in Thread
    BY <2>1, GotoIs DEF Pcs
  <2>3. d.pc = "put" /\ d.closing
    BY <1>1, <2>1 DEF Thread
  <2> HIDE DEF d
  <2>4. Kept(info[f], d)
    BY <2>3 DEF Kept
  <2> QED
    BY <2>1, <2>2, <2>4, ThreadKeeps
<1> QED
  BY <1>2, <1>3, <1>4, <1>5, <1>6

(* The counts an ioctl moves never reach a promised free unseen: the entry   *)
(* still has a reference, or is mapped, or is freed at once.                 *)
LEMMA CountKeeps ==
  ASSUME TypeOK, PromisesKept, NEW f \in Fds, NEW m \in Mmbs,
         \/ FdAddRef(f, m) \/ FdDecRef(f, m) \/ FdFreeBusy(f, m) \/ FdFree(f, m)
         \/ \E c \in BOOLEAN : FdRemapAgain(f, m, c)
  PROVE  PromisesKept'
<1> DEFINE p == info[f][m]
<1>1. Idle(f)
  BY DEF FdAddRef, FdDecRef, FdFreeBusy, FdFree, FdRemapAgain
<1>2. p \in Info /\ p.map_ref \in Int /\ p.mmb_ref \in Int
  BY <1>1, ServingFile DEF Info
<1>3. Promise(p, FALSE)
  BY <1>1, IdlePromise
<1>4. CASE FdAddRef(f, m)
  <2> DEFINE i == [p EXCEPT !.mmb_ref = @ + 1]
  <2>1. SetInfo(f, m, i) /\ UNCHANGED fd
    BY <1>4 DEF FdAddRef
  <2>2. /\ i \in Info /\ i.mmb_ref = p.mmb_ref + 1 /\ i.map_ref = p.map_ref
        /\ i.listed = p.listed /\ i.noted = p.noted
    BY <1>2 DEF Info
  <2>3. Promise(i, FALSE)
    BY <1>2, <1>3, <2>2 DEF FreeNow, Promise
  <2> HIDE DEF i
  <2> QED
    BY <1>1, <2>1, <2>2, <2>3, IoctlKeeps
<1>5. CASE FdDecRef(f, m)
  <2> DEFINE i == [p EXCEPT !.mmb_ref = @ - 1]
  <2>1. /\ SetInfo(f, m, i) /\ p.mmb_ref > 0
        /\ IF FreeNow(i) THEN Goto(f, "put", m) ELSE UNCHANGED fd
    BY <1>5 DEF FdDecRef
  <2>2. i \in Info /\ i.mmb_ref = p.mmb_ref - 1
    BY <1>2, <2>1 DEF Info
  <2> HIDE DEF i
  <2>3. Promise(i, TRUE) /\ (~FreeNow(i) => Promise(i, FALSE))
    BY <1>2, <2>1, <2>2 DEF Promise
  <2> QED
    BY <1>1, <2>1, <2>2, <2>3, IoctlKeeps
<1>6. CASE FdFreeBusy(f, m)
  <2> DEFINE i == [p EXCEPT !.delayed_free = TRUE, !.noted = TRUE]
  <2>1. SetInfo(f, m, i) /\ UNCHANGED fd /\ (p.map_ref > 0 \/ p.mmb_ref > 0)
    BY <1>6 DEF FdFreeBusy
  <2>2. i \in Info /\ i.mmb_ref = p.mmb_ref /\ i.map_ref = p.map_ref
    BY <1>2 DEF Info
  <2>4. i.listed => p.listed
    BY <1>2 DEF Info
  <2> HIDE DEF i
  <2>3. Promise(i, FALSE)
    <3>1. ~FreeNow(i)
      BY <1>2, <2>1, <2>2 DEF FreeNow
    <3>2. i.mmb_ref >= 0 \/ i.map_ref > 0
      BY <1>2, <2>1, <2>2
    <3> QED
      BY <3>1, <3>2 DEF Promise
  <2> QED
    BY <1>1, <2>1, <2>2, <2>3, IoctlKeeps
<1>7. CASE FdFree(f, m)
  <2>1. Goto(f, "put", m) /\ UNCHANGED info
    BY <1>7 DEF FdFree
  <2>2. SetInfo(f, m, p)
    BY <2>1 DEF SetInfo, TypeOK
  <2> HIDE DEF p
  <2>3. Promise(p, TRUE)
    BY <1>3 DEF Promise
  <2> QED
    BY <1>1, <1>2, <2>1, <2>2, <2>3, IoctlKeeps
<1>8. ASSUME NEW c \in BOOLEAN, FdRemapAgain(f, m, c)
      PROVE  PromisesKept'
  <2> DEFINE i == [p EXCEPT !.map_ref = @ + 1, !.mmb_ref = @ + 1]
  <2>1. SetInfo(f, m, i) /\ UNCHANGED fd /\ p.map_ref > 0
    BY <1>8 DEF FdRemapAgain
  <2>2. p.map_ref + 1 \in Int /\ p.mmb_ref + 1 \in Int
    BY <1>2
  <2>3. i \in Info
    BY <1>2, <2>2, Zenon DEF Info
  <2>4. i.map_ref = p.map_ref + 1
    BY <1>2 DEF Info
  <2> HIDE DEF i
  <2>5. Promise(i, FALSE)
    BY <1>2, <2>1, <2>4 DEF FreeNow, Promise
  <2> QED
    BY <1>1, <2>1, <2>3, <2>5, IoctlKeeps
<1> QED
  BY <1>4, <1>5, <1>6, <1>7, <1>8

LEMMA RemapKeeps ==
  ASSUME TypeOK, PromisesKept, NEW f \in Fds, NEW m \in Mmbs,
         NEW c \in BOOLEAN, NEW ok \in BOOLEAN, FdRemap(f, m, c, ok)
  PROVE  PromisesKept'
<1> DEFINE p == info[f][m]
           q == [p EXCEPT !.map_cached = c]
           r == [q EXCEPT !.mapped = TRUE, !.map_ref = @ + 1, !.mmb_ref = @ + 1]
<1>1. Idle(f) /\ p.listed /\ UNCHANGED fd /\ (SetInfo(f, m, r) \/ SetInfo(f, m, q))
  BY DEF FdRemap
<1>2. p \in Info /\ p.map_ref \in Int /\ p.mmb_ref \in Int
  BY <1>1, ServingFile DEF Info
<1>3. Promise(p, FALSE)
  BY <1>1, IdlePromise
<1>4. q \in Info /\ Promise(q, FALSE)
  BY <1>2, <1>3 DEF Info, FreeNow, Promise
<1>5. p.map_ref + 1 \in Int /\ p.mmb_ref + 1 \in Int
  BY <1>2
<1>6. r \in Info
  BY <1>2, <1>5, Zenon DEF Info
<1>7. /\ r.mapped /\ r.listed = p.listed /\ r.noted = p.noted
      /\ r.map_ref = p.map_ref + 1 /\ r.mmb_ref = p.mmb_ref + 1
  BY <1>2 DEF Info
<1> HIDE DEF r, q
<1>8. Promise(r, FALSE)
  BY <1>2, <1>3, <1>7 DEF Promise
<1> HIDE DEF p
<1> QED
  BY <1>1, <1>4, <1>6, <1>8, IoctlKeeps

LEMMA UnmapKeeps ==
  ASSUME TypeOK, PromisesKept, NEW f \in Fds, NEW m \in Mmbs,
         NEW vmaOk \in BOOLEAN, NEW munmapOk \in BOOLEAN, FdUnmap(f, m, vmaOk, munmapOk)
  PROVE  PromisesKept'
<1> DEFINE p == info[f][m]
           q == [p EXCEPT !.map_ref = @ - 1, !.mmb_ref = @ - 1]
           r == [q EXCEPT !.mapped = ~munmapOk]
<1>1. /\ Idle(f) /\ p.mapped /\ p.map_ref > 0 /\ p.mmb_ref > 0
      /\ \/ SetInfo(f, m, q) /\ UNCHANGED fd
         \/ SetInfo(f, m, r) /\ IF FreeNow(r) THEN Goto(f, "put", m) ELSE UNCHANGED fd
  BY DEF FdUnmap
<1>2. p \in Info /\ p.map_ref - 1 \in Int /\ p.mmb_ref - 1 \in Int
  BY <1>1, ServingFile DEF Info
<1>3. q \in Info
  BY <1>2, Zenon DEF Info
<1>4. r \in Info
  BY <1>2, Zenon DEF Info
<1>5. q.mapped /\ q.mmb_ref = p.mmb_ref - 1 /\ r.mmb_ref = p.mmb_ref - 1
  BY <1>1, <1>2 DEF Info
<1> HIDE DEF r, q
<1>a. p.mmb_ref - 1 >= 0
  BY <1>1, <1>2 DEF Info
<1>6. /\ Promise(q, FALSE) /\ Promise(r, TRUE)
      /\ ~FreeNow(r) => Promise(r, FALSE)
  BY <1>5, <1>a DEF Promise
<1> HIDE DEF p
<1> QED
  BY <1>1, <1>3, <1>4, <1>6, IoctlKeeps

LEMMA PromisesStep == IInv /\ PromisesKept /\ [Next]_vars => PromisesKept'
<1> SUFFICES ASSUME IInv, PromisesKept, [Next]_vars PROVE PromisesKept'
  OBVIOUS
<1>1. TypeOK
  BY DEF IInv
<1>2. ASSUME NEW f \in Fds, FdStep(f)
      PROVE  PromisesKept'
  BY <1>1, <1>2, AllocKeeps, MidKeeps, CloseKeeps, CountKeeps, RemapKeeps, UnmapKeeps
     DEF FdStep, FdRelease
<1>3. ASSUME NEW m \in Mmbs, KernelStep(m)
      PROVE  PromisesKept'
  <2>1. UNCHANGED <<info, fd>>
    BY <1>3 DEF KernelStep, KernelAlloc, KernelFree, KernelMap, KernelUnmap
  <2> QED
    BY <2>1 DEF PromisesKept
<1>4. CASE UNCHANGED vars
  BY <1>4 DEF vars, PromisesKept
<1> QED
  BY <1>2, <1>3, <1>4 DEF Next

(* No block is lost: whatever calls fail half way, a live block has an owner *)
(* who will free it, or a kernel mapping whose end will.                     *)
THEOREM NoLeakHolds == Spec => []NoLeak
  BY Inductive, PTL DEF IInv

(* A free answered with -EBUSY is done with the last reference, by whichever *)
(* of the unmap and DEC_REF ioctls drops it, whatever counts the mmb_info    *)
(* came with.                                                               *)
THEOREM DelayedFreeIsDone == Spec => []DelayedFreeDone
<1>1. Init => PromisesKept
  BY InitPromises
<1>2. IInv /\ PromisesKept /\ [Next]_vars => PromisesKept'
  BY PromisesStep
<1>3. PromisesKept => DelayedFreeDone
  BY DEF PromisesKept, Kept, Promise, DelayedFreeDone
<1> QED
  BY <1>1, <1>2, <1>3, Inductive, PTL DEF Spec
=============================================================================
