------------------------------ MODULE IspStatBuf ------------------------------
(***************************************************************************)
(* The statistics of one ISP pipe: drivers/hi3516cv500_isp/isp.c and, for    *)
(* the copy the focus tasks get, isp_drv.c.                                 *)
(*                                                                          *)
(* Two nodes go round: an interrupt reads the statistics of a frame into a   *)
(* free node and puts it on the busy list, the library takes it from there   *)
(* (user list) and gives it back.  The lists change under g_stIspLock only,  *)
(* one critical section a step; the checks before it are steps of their own. *)
(*                                                                          *)
(* Callers: the ISP library issues the ioctls of a pipe one at a time, with  *)
(* bIspRunFlag cleared for the exit, and has no more use for a node then.    *)
(***************************************************************************)
EXTENDS Integers, Sequences, SequencesExt, FiniteSets

CONSTANTS
  Areas,     \* the memory cmpi_mmz_malloc_cached may return
  Null,      \* the virt_addr of a node without memory
  Irqs,      \* the interrupts that put statistics: front end, back end
  MaxFrame   \* bound on the number of frames

ASSUME NullAssumption == Null \notin Areas
ASSUME MaxFrameAssumption == MaxFrame \in Nat \ {0}

(* MAX_ISP_STAT_BUF_NUM; the exit path names the two nodes. *)
Nodes == 1 .. 2
None == 0

(* What a frame has for a node: the front end's statistics and the back end's. *)
Parts == {"fe", "be"}

VARIABLES
  bInit,            \* stStatisticsBuf.bInit
  free, busy, user, \* stFreeList, stBusyList, stUserList
  num,              \* u32FreeNum, u32BusyNum, u32UserNum
  virt_addr,        \* the area each node's address is in
  stat,             \* the frame each part of a node's statistics is from, 0 for none
  pstActStat,
  alive,            \* the areas that are allocated
  frame,            \* the frame read last
  got,              \* history: the parts that were read of it
  held,             \* the nodes the library has got
  lib,              \* where the library's ioctl is
  irq,              \* where each interrupt is
  af,               \* where a focus task is, and the address it has read
  touched           \* who used memory that is not there

lists == <<free, busy, user, num>>
memory == <<virt_addr, alive>>
vars == <<bInit, lists, memory, stat, pstActStat, frame, got, held, lib, irq, af, touched>>

Num == [free : Nat, busy : Nat, user : Nat]

TypeOK ==
  /\ bInit \in BOOLEAN
  /\ free \in Seq(Nodes) /\ busy \in Seq(Nodes) /\ user \in Seq(Nodes)
  /\ num \in Num
  /\ virt_addr \in [Nodes -> Areas \cup {Null}] /\ alive \subseteq Areas
  /\ stat \in [Nodes -> [Parts -> 0 .. MaxFrame]]
  /\ frame \in 0 .. MaxFrame /\ got \subseteq Parts
  /\ pstActStat \in Nodes \cup {None}
  /\ held \subseteq Nodes
  /\ lib \in {"idle", "free"}
  /\ irq \in [Irqs -> {"idle", "put"}]
  /\ af \in [pc : {"idle", "load", "read"}, addr : Areas \cup {Null}]
  /\ touched \subseteq {"irq", "freed"}

Unread == [p \in Parts |-> 0]

Init ==
  /\ bInit = FALSE
  /\ free = <<>> /\ busy = <<>> /\ user = <<>>
  /\ num = [free |-> 0, busy |-> 0, user |-> 0]
  /\ virt_addr = [n \in Nodes |-> Null] /\ alive = {}
  /\ stat = [n \in Nodes |-> Unread] /\ frame = 0 /\ got = {}
  /\ pstActStat = None
  /\ held = {}
  /\ lib = "idle"
  /\ irq = [i \in Irqs |-> "idle"]
  /\ af = [pc |-> "idle", addr |-> Null]
  /\ touched = {}

-----------------------------------------------------------------------------
(* The ioctls of the library. *)

(* ISP_DRV_StatBufInit; the memory is zeroed. *)
StatBufInit(a) ==
  /\ lib = "idle" /\ ~bInit
  /\ a \notin alive
  /\ alive' = alive \cup {a}
  /\ virt_addr' = [n \in Nodes |-> a]
  /\ stat' = [n \in Nodes |-> Unread]
  /\ free' = [n \in Nodes |-> n] /\ busy' = <<>> /\ user' = <<>>
  /\ num' = [free |-> 2, busy |-> 0, user |-> 0]
  /\ bInit' = TRUE
  /\ UNCHANGED <<pstActStat, frame, got, held, lib, irq, af, touched>>

(* Deviation: the memory is freed before the nodes are taken away. *)
StatBufExitFreesFirst ==
  /\ lib = "idle" /\ bInit
  /\ alive' = {}
  /\ bInit' = FALSE
  /\ held' = {}
  /\ lib' = "free"
  /\ UNCHANGED <<lists, virt_addr, stat, pstActStat, frame, got, irq, af, touched>>

(* ISP_DRV_StatBufExit: the nodes lose their addresses, ...                  *)
StatBufExit ==
  /\ lib = "idle" /\ bInit
  /\ virt_addr' = [n \in Nodes |-> Null]
  /\ bInit' = FALSE
  /\ free' = <<>> /\ busy' = <<>> /\ user' = <<>>
  /\ held' = {}
  /\ lib' = "free"
  /\ UNCHANGED <<num, alive, stat, pstActStat, frame, got, irq, af, touched>>

(* ... then, without the lock, the memory is freed.                         *)
StatBufExitFree ==
  /\ lib = "free"
  /\ alive' = {}
  /\ lib' = "idle"
  /\ UNCHANGED <<bInit, lists, virt_addr, stat, pstActStat, frame, got, held, irq, af, touched>>

(* Deviation: the node stays on the busy list. *)
StatBufUserGetCopies ==
  /\ lib = "idle" /\ bInit
  /\ busy # <<>>
  /\ user' = Append(user, Head(busy))
  /\ num' = [num EXCEPT !.user = @ + 1]
  /\ held' = held \cup {Head(busy)}
  /\ UNCHANGED <<bInit, free, busy, memory, stat, pstActStat, frame, got, lib, irq, af, touched>>

(* ISP_DRV_GetUserStatBuf, ISP_DRV_StatBufUserGet *)
StatBufUserGet ==
  /\ lib = "idle" /\ bInit
  /\ busy # <<>>
  /\ busy' = Tail(busy)
  /\ user' = Append(user, Head(busy))
  /\ num' = [num EXCEPT !.busy = @ - 1, !.user = @ + 1]
  /\ held' = held \cup {Head(busy)}
  /\ UNCHANGED <<bInit, free, memory, stat, pstActStat, frame, got, lib, irq, af, touched>>

(* Deviation: a node that is given back is on no list any more. *)
StatBufUserPutForgets(n) ==
  /\ lib = "idle" /\ bInit
  /\ n \in held
  /\ \E i \in DOMAIN user : user[i] = n /\ user' = RemoveAt(user, i)
  /\ num' = [num EXCEPT !.user = @ - 1]
  /\ held' = held \ {n}
  /\ UNCHANGED <<bInit, free, busy, memory, stat, pstActStat, frame, got, lib, irq, af, touched>>

(* ISP_DRV_StatBufUserPut *)
StatBufUserPut(n) ==
  /\ lib = "idle" /\ bInit
  /\ n \in held
  /\ \E i \in DOMAIN user : user[i] = n /\ user' = RemoveAt(user, i)
  /\ free' = Append(free, n)
  /\ num' = [num EXCEPT !.user = @ - 1, !.free = @ + 1]
  /\ held' = held \ {n}
  /\ UNCHANGED <<bInit, busy, memory, stat, pstActStat, frame, got, lib, irq, af, touched>>

-----------------------------------------------------------------------------
(* The interrupts: ISP_DRV_StatBufBusyPut reads bInit without the lock, ...   *)
StatBufBusyPutCheck(i) ==
  /\ irq[i] = "idle" /\ bInit
  /\ irq' = [irq EXCEPT ![i] = "put"]
  /\ UNCHANGED <<bInit, lists, memory, stat, pstActStat, frame, got, held, lib, af, touched>>

(* ISP_DRV_StatisticsRead into node n.  A mode, a missing buffer or the VI may *)
(* keep it from reading a part, or either, and without memory it reads none.  *)
StatisticsRead(n) ==
  /\ frame < MaxFrame /\ frame' = frame + 1
  /\ got' \in SUBSET Parts
  /\ virt_addr[n] = Null => got' = {}
  /\ stat' = [stat EXCEPT ![n] = [p \in Parts |-> IF p \in got' THEN frame' ELSE stat[n][p]]]
  /\ touched' = IF virt_addr[n] \in alive \cup {Null} THEN touched ELSE touched \cup {"irq"}

NoFreeNode ==
  /\ free \o busy = <<>>
  /\ UNCHANGED <<lists, stat, pstActStat, frame, got, touched>>

(* Deviation: pstActStat is set once. *)
StatBufBusyPutKeepsAct(i) ==
  LET all == free \o busy IN
  /\ irq[i] = "put"
  /\ irq' = [irq EXCEPT ![i] = "idle"]
  /\ \/ NoFreeNode
     \/ /\ all # <<>>
        /\ StatisticsRead(Head(all))
        /\ pstActStat' = IF pstActStat = None THEN Head(all) ELSE pstActStat
        /\ free' = Tail(all) /\ busy' = <<Head(all)>> /\ UNCHANGED user
        /\ num' = [num EXCEPT !.free = @ + num.busy - 1, !.busy = 1]
  /\ UNCHANGED <<bInit, memory, held, lib, af>>

(* Deviation: what is taken back from the busy list is not counted. *)
StatBufBusyPutUncounted(i) ==
  LET all == free \o busy IN
  /\ irq[i] = "put"
  /\ irq' = [irq EXCEPT ![i] = "idle"]
  /\ \/ NoFreeNode
     \/ /\ all # <<>>
        /\ StatisticsRead(Head(all))
        /\ pstActStat' = Head(all)
        /\ free' = Tail(all) /\ busy' = <<Head(all)>> /\ UNCHANGED user
        /\ num' = [num EXCEPT !.free = @ - 1, !.busy = 1]
  /\ UNCHANGED <<bInit, memory, held, lib, af>>

(* ... takes back what is on the busy list, reads the statistics of the      *)
(* frame into the first free node and, whatever came of that, puts it on the  *)
(* busy list and makes it pstActStat.                                       *)
StatBufBusyPut(i) ==
  LET all == free \o busy IN
  /\ irq[i] = "put"
  /\ irq' = [irq EXCEPT ![i] = "idle"]
  /\ \/ NoFreeNode
     \/ /\ all # <<>>
        /\ StatisticsRead(Head(all))
        /\ pstActStat' = Head(all)
        /\ free' = Tail(all) /\ busy' = <<Head(all)>> /\ UNCHANGED user
        /\ num' = [num EXCEPT !.free = @ + num.busy - 1, !.busy = 1]
  /\ UNCHANGED <<bInit, memory, held, lib, af>>

-----------------------------------------------------------------------------
(* ISP_DRV_StaKernelGet, for a focus task: without the lock it asks whether   *)
(* the active node has memory, ...                                           *)
StaKernelGetCheck ==
  /\ af.pc = "idle"
  /\ pstActStat # None
  /\ virt_addr[pstActStat] # Null
  /\ af' = [af EXCEPT !.pc = "load"]
  /\ UNCHANGED <<bInit, lists, memory, stat, pstActStat, frame, got, held, lib, irq, touched>>

(* ... reads the address, ... *)
StaKernelGetLoad ==
  /\ af.pc = "load"
  /\ af' = [pc |-> "read", addr |-> virt_addr[pstActStat]]
  /\ UNCHANGED <<bInit, lists, memory, stat, pstActStat, frame, got, held, lib, irq, touched>>

(* ... and copies from there under the lock.                                 *)
StaKernelGetCopy ==
  /\ af.pc = "read"
  /\ touched' = IF af.addr \in alive THEN touched ELSE touched \cup {"freed"}
  /\ af' = [pc |-> "idle", addr |-> Null]
  /\ UNCHANGED <<bInit, lists, memory, stat, pstActStat, frame, got, held, lib, irq>>

Next ==
  \/ \E a \in Areas : StatBufInit(a)
  \/ StatBufExit
  \/ StatBufExitFree
  \/ StatBufUserGet
  \/ \E n \in Nodes : StatBufUserPut(n)
  \/ \E i \in Irqs : StatBufBusyPutCheck(i) \/ StatBufBusyPut(i)
  \/ StaKernelGetCheck
  \/ StaKernelGetLoad
  \/ StaKernelGetCopy

Spec == Init /\ [][Next]_vars

-----------------------------------------------------------------------------
(* Each node is on exactly one of the three lists and the counts are their    *)
(* lengths, through every get, put, frame, exit and new init; and as long as  *)
(* the library has one node only, a frame finds one.                         *)
NodesOnce ==
  bInit =>
    /\ IsInjective(free \o busy \o user)
    /\ Range(free \o busy \o user) = Nodes
    /\ num = [free |-> Len(free), busy |-> Len(busy), user |-> Len(user)]
    /\ Cardinality(held) <= 1 => free \o busy # <<>>

(* "There should be one frame of the newest statistics info in busy list."    *)
(* (isp.c:1275): what the library is going to get is the node of the last      *)
(* frame, which is pstActStat, and every part that could be read of that frame *)
(* is there, also while the node is with the library.  (A part that could not  *)
(* be read is left from an older frame: nobody looks at the result.)          *)
ActiveIsNewest ==
  /\ Len(busy) <= 1
  /\ \A n \in Range(busy) : n = pstActStat
  /\ bInit /\ (\E n \in Nodes : stat[n] # Unread) => \A p \in got : stat[pstActStat][p] = frame

(* No interrupt writes to memory that has been given back, although it asks   *)
(* for bInit before it takes the lock.                                      *)
IrqWritesAlive == "irq" \notin touched

(* No interrupt writes to a node while the library has it.                   *)
HeldUntouched ==
  [][\A n \in held \cap held' : stat'[n] = stat[n]]_vars

(* "get statistic active buffer err, pVirtAddr is NULL!" (isp_drv.c:2944) is     *)
(* what a focus task is told when the memory of the statistics is gone: it      *)
(* reads memory that is there, or gets an error.                               *)
FocusReadsAlive == "freed" \notin touched
=============================================================================
