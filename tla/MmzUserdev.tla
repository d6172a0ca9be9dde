------------------------------ MODULE MmzUserdev ------------------------------
(***************************************************************************)
(* Lifetime of the media memory blocks (mmb) handed out by /dev/mmz_userdev *)
(* and by the kernel interface hil_mmb_*: drivers/hi_osal/mmz/mmz-userdev.c *)
(* on top of media-mem.c and hisi_allocator.c.                              *)
(*                                                                          *)
(* Every hil_mmb_* call is one section under mmz_lock, hence one step.  An  *)
(* ioctl runs under the semaphore of its file, so a file is inside at most  *)
(* one ioctl, but an ioctl that makes several hil_mmb_* calls interleaves   *)
(* between them with the other files and with kernel clients.  Addresses    *)
(* are abstracted to the identity of the block (MmzAllocator shows that     *)
(* live blocks do not overlap).                                             *)
(***************************************************************************)
EXTENDS Integers

CONSTANTS
  Fds,      \* open files of /dev/mmz_userdev
  Mmbs,     \* the blocks that may be allocated
  NoMmb,    \* the block of a thread that is not in the middle of a call
  MaxRef,   \* bound on each reference count a client may build up
  Given     \* the mmb_infos callers pass to an allocation

ASSUME NoMmbAssumption == NoMmb \notin Mmbs
ASSUME MaxRefAssumption == MaxRef \in Nat \ {0}

VARIABLES
  mmb,      \* [Mmbs -> hil_mmb_t]: the blocks on the zones' mmb_list
  info,     \* [Fds -> [Mmbs -> mmb_info]]: the list of each file's pmu
  fd,       \* [Fds -> [pc, m, closing]]: where each file's thread is
  kernel    \* the blocks a kernel client allocated and has not freed

vars == <<mmb, info, fd, kernel>>

(***************************************************************************)
(* hil_mmb_t: live while on a zone's list; released and map2kern are bits   *)
(* of flags; phy_ref counts users of the address, map_ref kernel mappings.  *)
(* given is history: the mmb_ref its file's mmb_info came with.             *)
(***************************************************************************)
Mmb == [live : BOOLEAN, released : BOOLEAN, map2kern : BOOLEAN,
        cached : BOOLEAN, phy_ref : Int, map_ref : Nat, given : Int]

FreedMmb == [live |-> FALSE, released |-> FALSE, map2kern |-> FALSE,
             cached |-> FALSE, phy_ref |-> 0, map_ref |-> 0, given |-> 0]

NewMmb == [FreedMmb EXCEPT !.live = TRUE]

(* struct mmb_info, listed while on pmu->list.  noted is history: it was     *)
(* ioctl_mmb_free that set delayed_free.                                    *)
Info == [listed : BOOLEAN, map_ref : Int, mmb_ref : Int,
         delayed_free : BOOLEAN, mapped : BOOLEAN, map_cached : BOOLEAN,
         noted : BOOLEAN]

NoInfo == [listed |-> FALSE, map_ref |-> 0, mmb_ref |-> 0,
           delayed_free |-> FALSE, mapped |-> FALSE, map_cached |-> FALSE,
           noted |-> FALSE]

(* The allocation copies the caller's mmb_info whole, its counts and flags   *)
(* included; the library's callers clear it first, any other need not.      *)
ASSUME GivenAssumption == Given \subseteq {i \in Info : ~i.listed /\ ~i.noted}

(* "alloc": block allocated, mmb_info not yet; "put" and "free": about to   *)
(* call hil_mmb_put and hil_mmb_free in _usrdev_mmb_free; "release": in the  *)
(* loop of mmz_userdev_release.                                             *)
Pcs == {"closed", "idle", "alloc", "put", "free", "release"}

TypeOK ==
  /\ mmb \in [Mmbs -> Mmb]
  /\ info \in [Fds -> [Mmbs -> Info]]
  /\ fd \in [Fds -> [pc : Pcs, m : Mmbs \cup {NoMmb}, closing : BOOLEAN]]
  /\ kernel \subseteq Mmbs
  /\ \A m \in Mmbs : mmb[m].given = 0 => mmb[m].phy_ref >= 0

Init ==
  /\ mmb = [m \in Mmbs |-> FreedMmb]
  /\ info = [f \in Fds |-> [m \in Mmbs |-> NoInfo]]
  /\ fd = [f \in Fds |-> [pc |-> "closed", m |-> NoMmb, closing |-> FALSE]]
  /\ kernel = {}

-----------------------------------------------------------------------------
(* The hil_mmb_* operations, as what they make of the block. *)

MmbGet(b) == [b EXCEPT !.phy_ref = @ + 1]

(* Deviation: the last reference frees a block nobody has released yet. *)
MmbPutFreesUnreleased(b) ==
  LET c == [b EXCEPT !.phy_ref = @ - 1]
  IN  IF c.phy_ref = 0 /\ c.map_ref = 0 THEN FreedMmb ELSE c

MmbPut(b) ==
  LET c == [b EXCEPT !.phy_ref = @ - 1]
  IN  IF c.released /\ c.phy_ref = 0 /\ c.map_ref = 0 THEN FreedMmb ELSE c

MmbFree(b) ==
  IF b.released THEN b
  ELSE IF b.phy_ref > 0 \/ b.map2kern THEN [b EXCEPT !.released = TRUE]
  ELSE FreedMmb

(* A block mapped with the other cache attribute is refused unchanged; a    *)
(* failed ioremap leaves no flag behind.                                    *)
MmbMap(b, cached, ioremapOk) ==
  IF b.map2kern
    THEN IF b.cached = cached THEN [b EXCEPT !.map_ref = @ + 1] ELSE b
  ELSE IF ioremapOk
    THEN [b EXCEPT !.map2kern = TRUE, !.cached = cached, !.map_ref = @ + 1]
  ELSE [b EXCEPT !.cached = FALSE]

(* Deviation: the last unmap forgets that the block waits to be freed. *)
MmbUnmapKeepsReleased(b) ==
  LET c == [b EXCEPT !.map_ref = @ - 1]
  IN  IF c.map_ref # 0 THEN c
      ELSE [c EXCEPT !.map2kern = FALSE, !.cached = FALSE]

MmbUnmap(b) ==
  LET c == [b EXCEPT !.map_ref = @ - 1]
  IN  IF c.map_ref # 0 THEN c
      ELSE IF c.released /\ c.phy_ref = 0 THEN FreedMmb
      ELSE [c EXCEPT !.map2kern = FALSE, !.cached = FALSE]

SetMmb(m, b) == mmb' = [mmb EXCEPT ![m] = b]
SetInfo(f, m, i) == info' = [info EXCEPT ![f][m] = i]
Goto(f, pc, m) == fd' = [fd EXCEPT ![f].pc = pc, ![f].m = m]

-----------------------------------------------------------------------------
(* The files. *)

Idle(f) == fd[f].pc = "idle"

FdOpen(f) ==
  /\ fd[f].pc = "closed"
  /\ fd' = [fd EXCEPT ![f].pc = "idle", ![f].closing = FALSE]
  /\ UNCHANGED <<mmb, info, kernel>>

(* ioctl_mmb_alloc, ioctl_mmb_alloc_v2: first hil_mmb_alloc, ... *)
FdAlloc(f, m) ==
  /\ Idle(f)
  /\ ~mmb[m].live
  /\ SetMmb(m, NewMmb)
  /\ Goto(f, "alloc", m)
  /\ UNCHANGED <<info, kernel>>

(* ... then the caller's mmb_info joins the list and the block gets its      *)
(* reference,                                                               *)
FdAllocGet(f) ==
  LET m == fd[f].m IN
  /\ fd[f].pc = "alloc"
  /\ \E i \in Given :
       /\ SetInfo(f, m, [i EXCEPT !.listed = TRUE])
       /\ SetMmb(m, [MmbGet(mmb[m]) EXCEPT !.given = i.mmb_ref])
  /\ Goto(f, "idle", NoMmb)
  /\ UNCHANGED kernel

(* Deviation: the error path of the allocation returns without the free. *)
FdAllocFailForgets(f) ==
  /\ fd[f].pc = "alloc"
  /\ Goto(f, "idle", NoMmb)
  /\ UNCHANGED <<mmb, info, kernel>>

(* ... or kmalloc fails and the block is freed again. *)
FdAllocFail(f) ==
  /\ fd[f].pc = "alloc"
  /\ Goto(f, "free", fd[f].m)
  /\ UNCHANGED <<mmb, info, kernel>>

(* Deviation: a repeated remap counts itself but takes no reference. *)
FdRemapAgainNoGet(f, m, cached) ==
  LET p == info[f][m] IN
  /\ Idle(f) /\ p.listed
  /\ p.mapped /\ p.map_ref > 0
  /\ p.map_cached = cached
  /\ p.mmb_ref < MaxRef /\ p.map_ref < MaxRef
  /\ SetInfo(f, m, [p EXCEPT !.map_ref = @ + 1, !.mmb_ref = @ + 1])
  /\ UNCHANGED <<mmb, fd, kernel>>

(* ioctl_mmb_user_remap of a block the file has mapped already. *)
FdRemapAgain(f, m, cached) ==
  LET p == info[f][m] IN
  /\ Idle(f) /\ p.listed
  /\ p.mapped /\ p.map_ref > 0
  /\ p.map_cached = cached
  /\ p.mmb_ref < MaxRef /\ p.map_ref < MaxRef
  /\ SetInfo(f, m, [p EXCEPT !.map_ref = @ + 1, !.mmb_ref = @ + 1])
  /\ SetMmb(m, MmbGet(mmb[m]))
  /\ UNCHANGED <<fd, kernel>>

(* ioctl_mmb_user_remap through vm_mmap, whose callback mmz_userdev_mmap    *)
(* refuses a block with p->mapped set; vm_mmap may also fail by itself.      *)
FdRemap(f, m, cached, mmapOk) ==
  LET p == info[f][m]
      q == [p EXCEPT !.map_cached = cached] IN
  /\ Idle(f) /\ p.listed
  /\ ~(p.mapped /\ p.map_ref > 0)
  /\ p.mmb_ref < MaxRef
  /\ IF mmapOk /\ ~p.mapped
       THEN /\ SetInfo(f, m, [q EXCEPT !.mapped = TRUE, !.map_ref = @ + 1,
                                       !.mmb_ref = @ + 1])
            /\ SetMmb(m, MmbGet(mmb[m]))
       ELSE SetInfo(f, m, q) /\ UNCHANGED mmb
  /\ UNCHANGED <<fd, kernel>>

(* A delayed free whose last reference has just gone. *)
FreeNow(p) == p.delayed_free /\ p.map_ref = 0 /\ p.mmb_ref = 0

(* ioctl_mmb_user_unmap past its checks.  vmaOk: hil_vma_check accepts the   *)
(* range of a cached mapping; munmapOk: vm_munmap succeeds.                  *)
FdUnmap(f, m, vmaOk, munmapOk) ==
  LET p == info[f][m]
      q == [p EXCEPT !.map_ref = @ - 1, !.mmb_ref = @ - 1]
      r == [q EXCEPT !.mapped = ~munmapOk] IN
  /\ Idle(f) /\ p.listed
  /\ p.mapped /\ p.map_ref > 0 /\ p.mmb_ref > 0
  /\ SetMmb(m, MmbPut(mmb[m]))
  /\ IF q.map_ref > 0 \/ (p.map_cached /\ ~vmaOk)
       THEN SetInfo(f, m, q) /\ UNCHANGED fd
       ELSE /\ SetInfo(f, m, r)
            /\ IF FreeNow(r) THEN Goto(f, "put", m) ELSE UNCHANGED fd
  /\ UNCHANGED kernel

(* IOC_MMB_ADD_REF *)
FdAddRef(f, m) ==
  LET p == info[f][m] IN
  /\ Idle(f) /\ p.listed
  /\ p.mmb_ref < MaxRef
  /\ SetInfo(f, m, [p EXCEPT !.mmb_ref = @ + 1])
  /\ SetMmb(m, MmbGet(mmb[m]))
  /\ UNCHANGED <<fd, kernel>>

(* Deviation: the last DEC_REF forgets the delayed free. *)
FdDecRefNoFree(f, m) ==
  LET p == info[f][m] IN
  /\ Idle(f) /\ p.listed
  /\ p.mmb_ref > 0
  /\ SetInfo(f, m, [p EXCEPT !.mmb_ref = @ - 1])
  /\ SetMmb(m, MmbPut(mmb[m]))
  /\ UNCHANGED <<fd, kernel>>

(* IOC_MMB_DEC_REF *)
FdDecRef(f, m) ==
  LET p == info[f][m]
      q == [p EXCEPT !.mmb_ref = @ - 1] IN
  /\ Idle(f) /\ p.listed
  /\ p.mmb_ref > 0
  /\ SetInfo(f, m, q)
  /\ SetMmb(m, MmbPut(mmb[m]))
  /\ IF FreeNow(q) THEN Goto(f, "put", m) ELSE UNCHANGED fd
  /\ UNCHANGED kernel

(* ioctl_mmb_free of a block still referenced: only noted. *)
FdFreeBusy(f, m) ==
  LET p == info[f][m] IN
  /\ Idle(f) /\ p.listed
  /\ ~p.delayed_free
  /\ p.map_ref > 0 \/ p.mmb_ref > 0
  /\ SetInfo(f, m, [p EXCEPT !.delayed_free = TRUE, !.noted = TRUE])
  /\ UNCHANGED <<mmb, fd, kernel>>

(* ioctl_mmb_free of a block without references enters _usrdev_mmb_free. *)
FdFree(f, m) ==
  LET p == info[f][m] IN
  /\ Idle(f) /\ p.listed
  /\ ~p.delayed_free
  /\ ~(p.map_ref > 0 \/ p.mmb_ref > 0)
  /\ Goto(f, "put", m)
  /\ UNCHANGED <<mmb, info, kernel>>

(* _usrdev_mmb_free: osal_list_del and hil_mmb_put, ... *)
FdFreePut(f) ==
  LET m == fd[f].m IN
  /\ fd[f].pc = "put"
  /\ SetInfo(f, m, NoInfo)
  /\ SetMmb(m, MmbPut(mmb[m]))
  /\ Goto(f, "free", m)
  /\ UNCHANGED kernel

(* ... then hil_mmb_free, also the way out of a failed allocation. *)
FdFreeMmb(f) ==
  LET m == fd[f].m IN
  /\ fd[f].pc = "free"
  /\ SetMmb(m, MmbFree(mmb[m]))
  /\ Goto(f, IF fd[f].closing THEN "release" ELSE "idle", NoMmb)
  /\ UNCHANGED <<info, kernel>>

(* mmz_userdev_release: the last close, when no ioctl is running. *)
FdClose(f) ==
  /\ Idle(f)
  /\ fd' = [fd EXCEPT ![f].pc = "release", ![f].closing = TRUE]
  /\ UNCHANGED <<mmb, info, kernel>>

(* The loop over the list gives back each mmb_ref, one hil_mmb_put a time, *)
FdReleasePut(f, m) ==
  LET p == info[f][m] IN
  /\ fd[f].pc = "release"
  /\ p.listed /\ p.mmb_ref > 0
  /\ SetInfo(f, m, [p EXCEPT !.mmb_ref = @ - 1])
  /\ SetMmb(m, MmbPut(mmb[m]))
  /\ UNCHANGED <<fd, kernel>>

(* then frees the block, *)
FdReleaseFree(f, m) ==
  LET p == info[f][m] IN
  /\ fd[f].pc = "release"
  /\ p.listed /\ p.mmb_ref <= 0
  /\ Goto(f, "put", m)
  /\ UNCHANGED <<mmb, info, kernel>>

(* until the list is empty and pmu is freed. *)
FdReleaseDone(f) ==
  /\ fd[f].pc = "release"
  /\ \A m \in Mmbs : ~info[f][m].listed
  /\ fd' = [fd EXCEPT ![f].pc = "closed", ![f].closing = FALSE]
  /\ UNCHANGED <<mmb, info, kernel>>

FdRelease(f) ==
  \/ FdFreePut(f)
  \/ FdFreeMmb(f)
  \/ \E m \in Mmbs : FdReleasePut(f, m) \/ FdReleaseFree(f, m)
  \/ FdReleaseDone(f)

FdStep(f) ==
  \/ FdOpen(f)
  \/ FdAllocGet(f)
  \/ FdAllocFail(f)
  \/ FdClose(f)
  \/ FdRelease(f)
  \/ \E m \in Mmbs :
       \/ FdAlloc(f, m)
       \/ FdAddRef(f, m)
       \/ FdDecRef(f, m)
       \/ FdFreeBusy(f, m)
       \/ FdFree(f, m)
       \/ \E cached, ok \in BOOLEAN :
            \/ FdRemapAgain(f, m, cached)
            \/ FdRemap(f, m, cached, ok)
            \/ FdUnmap(f, m, cached, ok)

-----------------------------------------------------------------------------
(* Kernel clients of the exported hil_mmb_* functions.  They are other       *)
(* modules; assumed of them: they free only what they allocated, they map a *)
(* block only before it is released, and they unmap only what they mapped.  *)

KernelAlloc(m) ==
  /\ ~mmb[m].live
  /\ SetMmb(m, NewMmb)
  /\ kernel' = kernel \cup {m}
  /\ UNCHANGED <<info, fd>>

KernelFree(m) ==
  /\ m \in kernel
  /\ SetMmb(m, MmbFree(mmb[m]))
  /\ kernel' = kernel \ {m}
  /\ UNCHANGED <<info, fd>>

KernelMap(m, cached, ok) ==
  /\ mmb[m].live /\ ~mmb[m].released
  /\ mmb[m].map_ref < MaxRef
  /\ SetMmb(m, MmbMap(mmb[m], cached, ok))
  /\ UNCHANGED <<info, fd, kernel>>

KernelUnmap(m) ==
  /\ mmb[m].map_ref > 0
  /\ SetMmb(m, MmbUnmap(mmb[m]))
  /\ UNCHANGED <<info, fd, kernel>>

KernelStep(m) ==
  \/ KernelAlloc(m)
  \/ KernelFree(m)
  \/ KernelUnmap(m)
  \/ \E cached, ok \in BOOLEAN : KernelMap(m, cached, ok)

Next ==
  \/ \E f \in Fds : FdStep(f)
  \/ \E m \in Mmbs : KernelStep(m)

Spec == Init /\ [][Next]_vars

(* A thread inside the driver keeps running, and a kernel client undoes the  *)
(* mappings of a block its owner has released.                              *)
Fairness ==
  /\ \A f \in Fds : WF_vars(FdRelease(f)) /\ WF_vars(FdAllocGet(f))
  /\ \A m \in Mmbs : WF_vars(mmb[m].released /\ KernelUnmap(m))

FairSpec == Spec /\ Fairness

-----------------------------------------------------------------------------
(* What file f is about to touch: its listed blocks and the block of the    *)
(* call it is in the middle of.                                             *)
Holds(f, m) ==
  \/ info[f][m].listed
  \/ fd[f].pc \in {"alloc", "put", "free"} /\ fd[f].m = m

(* The references file f accounts for on m: one for the entry in its list,  *)
(* one for each mmb_ref (remaps and ADD_REFs).                              *)
RefsOf(f, m) == IF info[f][m].listed THEN 1 + info[f][m].mmb_ref ELSE 0

(* A file's pointers never outlive the block: whatever the interleaving of  *)
(* hil_mmb_put and hil_mmb_free with kernel mappings, a block a file lists   *)
(* or is still going to hand to hil_mmb_free is on its zone's list, and has  *)
(* not been released behind the file's back.                                *)
NoUseAfterFree ==
  \A f \in Fds, m \in Mmbs : Holds(f, m) => mmb[m].live /\ ~mmb[m].released

(* A block belongs to one file or to a kernel client, never to two of them. *)
OneOwner ==
  /\ \A f, g \in Fds, m \in Mmbs : Holds(f, m) /\ Holds(g, m) => f = g
  /\ \A f \in Fds, m \in kernel : ~Holds(f, m)

(* phy_ref of the block is exactly what its file accounts for, less the       *)
(* references the caller's mmb_info claimed without taking them, through     *)
(* remaps that fail, unmaps that fail and a close half way; with none        *)
(* claimed, a block off every list has no reference left.                   *)
RefAccounting ==
  \A m \in Mmbs :
    /\ \A f \in Fds :
         info[f][m].listed => mmb[m].phy_ref = RefsOf(f, m) - mmb[m].given
    /\ mmb[m].given = 0 /\ (\A f \in Fds : ~info[f][m].listed)
         => mmb[m].phy_ref = 0

(* No lost release: a released block is kept alive by a kernel mapping and   *)
(* nothing else, so that the last hil_mmb_unmap frees it; unless its file's  *)
(* mmb_info came with a count, which hil_mmb_free and hil_mmb_unmap then     *)
(* find in phy_ref for ever.                                                *)
ReleasedIsMapped ==
  \A m \in Mmbs :
    /\ mmb[m].released => m \notin kernel
    /\ mmb[m].released /\ mmb[m].given = 0 => mmb[m].map_ref > 0
    /\ mmb[m].map2kern <=> mmb[m].map_ref > 0

(* No leak: a live block is reachable by somebody who will free it.          *)
NoLeak ==
  \A m \in Mmbs :
    mmb[m].live => mmb[m].released \/ m \in kernel \/ \E f \in Fds : Holds(f, m)

(* A free the driver answered with -EBUSY and promised to do later is done   *)
(* with the last reference, unless the last unmap of a cached mapping failed *)
(* its vma check and left the mapping in place.                             *)
DelayedFreeDone ==
  \A f \in Fds, m \in Mmbs :
    /\ info[f][m].listed /\ info[f][m].noted
    /\ FreeNow(info[f][m]) /\ fd[f].pc = "idle"
    => info[f][m].mapped

(* Closing a file gives back, in the end, every block of it whose mmb_info   *)
(* came without a count of references.                                      *)
CloseFrees ==
  \A f \in Fds, m \in Mmbs :
    fd[f].closing /\ info[f][m].listed /\ mmb[m].given = 0 ~> ~mmb[m].live

=============================================================================
