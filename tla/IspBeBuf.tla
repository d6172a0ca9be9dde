------------------------------- MODULE IspBeBuf -------------------------------
(***************************************************************************)
(* The back-end (BE) configuration buffers of one ISP pipe in offline mode, *)
(* without stitching: drivers/hi3516cv500_isp/isp.c and isp_list.c.         *)
(*                                                                          *)
(* The interrupt thread takes a free node (pstUseNode) for each frame, the   *)
(* ISP library fills it and puts it on the busy list, VI and VPSS take the   *)
(* newest busy node, hold it while the hardware reads it and put it back.    *)
(* Nearly all of it runs under g_stIspLock[ViPipe], one critical section a   *)
(* step; what the code does outside the lock is a step of its own.           *)
(*                                                                          *)
(* Callers: the ISP library issues the ioctls of a pipe one at a time, in    *)
(* any order; the clients put back only what they got.  When ordered, the    *)
(* library initialises all buffers only while none is busy, and the clients  *)
(* put nodes back in the order they became busy.                             *)
(***************************************************************************)
EXTENDS Integers, Sequences, SequencesExt

CONSTANTS
  NodeNum,   \* MAX_ISP_BE_BUF_NUM
  None,      \* a null pstUseNode
  MaxHold,   \* bound on the references clients have at a time
  Kinds      \* the run-once flags used: "raw" bRunOnceFlag, "yuv" bYUVRunOnceFlag

ASSUME NodeNumAssumption == NodeNum \in Nat /\ NodeNum >= 2
ASSUME NoneAssumption == None \notin 1 .. NodeNum
ASSUME MaxHoldAssumption == MaxHold \in Nat \ {0}
ASSUME KindsAssumption == Kinds \subseteq {"raw", "yuv"}

VARIABLES
  ordered,    \* the callers keep to the order the code seems to expect
  init,       \* stBeBufInfo.init
  queue,      \* the node array: "none", "created", "ready" (addresses set)
  free, busy, \* stFreeList, stBusyList
  use,        \* pstUseNode
  hold,       \* s32HoldCnt of each node
  use_cnt,    \* stBeBufInfo.use_cnt
  exitState,  \* enIspExitState
  memInit,    \* bMemInit
  runOnce,    \* the kinds whose flag is set
  lib,        \* where the ISP library's ioctl is
  irq,        \* where the interrupt thread is
  outs,       \* the references the clients have on each node's buffer
  crashed,    \* who used the lock of a queue that does not exist
  forced,     \* history: GetBeLastBuf took a node away from its clients
  newest      \* history: the node put on the busy list last, None for none

lists == <<queue, free, busy>>
holds == <<hold, use_cnt, outs, forced>>
vars == <<ordered, init, lists, use, holds, exitState, memInit, runOnce, lib, irq, crashed, newest>>

Nodes == 1 .. NodeNum

TypeOK ==
  /\ ordered \in BOOLEAN
  /\ init \in BOOLEAN
  /\ queue \in {"none", "created", "ready"}
  /\ free \in Seq(Nodes) /\ busy \in Seq(Nodes)
  /\ use \in Nodes \cup {None}
  /\ hold \in [Nodes -> Nat] /\ use_cnt \in Nat /\ outs \in [Nodes -> Nat]
  /\ exitState \in {"READY", "WAITING", "EXIT"}
  /\ memInit \in BOOLEAN /\ runOnce \subseteq Kinds
  /\ lib \in {"idle", "create", "setup", "wait", "destroy"}
  /\ irq \in {"idle", "take"}
  /\ crashed \in {"no", "irq", "runonce"}
  /\ forced \in BOOLEAN
  /\ newest \in Nodes \cup {None}

(* isp_drv.c's ISP_DRV_FeRemap, before any ioctl. *)
Init ==
  /\ ordered \in BOOLEAN
  /\ init = FALSE
  /\ queue = "none" /\ free = <<>> /\ busy = <<>>
  /\ use = None
  /\ hold = [n \in Nodes |-> 0] /\ use_cnt = 0 /\ outs = [n \in Nodes |-> 0]
  /\ exitState = "EXIT"
  /\ memInit = FALSE /\ runOnce = {}
  /\ lib = "idle" /\ irq = "idle"
  /\ crashed = "no"
  /\ forced = FALSE
  /\ newest = None

Up == crashed = "no"

(* The sum of one count over all nodes. *)
Total(h) ==
  LET sum[n \in 0 .. NodeNum] == IF n = 0 THEN 0 ELSE sum[n - 1] + h[n]
  IN  sum[NodeNum]

(* How many references VI and VPSS have. *)
Outs == Total(outs)

-----------------------------------------------------------------------------
(* isp_list.c: the queue, under its own spin lock.  Its operations are what   *)
(* Head, Last, Append and Front make of the lists, and Only where nodes are   *)
(* taken out of one.                                                         *)

(* What is left of a list when every node outside S is taken off it.         *)
Only(list, S) ==
  LET only[i \in 0 .. Len(list)] ==
        IF i = 0 THEN <<>>
        ELSE IF list[i] \in S THEN Append(only[i - 1], list[i]) ELSE only[i - 1]
  IN  only[Len(list)]

(* The nodes somebody holds.                                                 *)
Held == {n \in Nodes : hold[n] # 0}

(* Deviation: the node stays pstUseNode. *)
PutUseBusyKeepsUse ==
  /\ free' = free \o Only(busy, Nodes \ Held)
  /\ busy' = Append(Only(busy, Held), use)
  /\ newest' = use
  /\ UNCHANGED use

(* Deviation: the new node goes to the head of the busy list. *)
PutUseBusyAtHead ==
  /\ free' = free \o Only(busy, Nodes \ Held)
  /\ busy' = <<use>> \o Only(busy, Held)
  /\ newest' = use
  /\ use' = None

(* ISP_DRV_BeBufQueuePutBusy with pstUseNode set: the busy nodes nobody holds *)
(* are free again and the used one is the newest busy one.                   *)
PutUseBusy ==
  /\ free' = free \o Only(busy, Nodes \ Held)
  /\ busy' = Append(Only(busy, Held), use)
  /\ newest' = use
  /\ use' = None

-----------------------------------------------------------------------------
(* The ioctls of the ISP library. *)

(* ISP_DRV_BeBufInit: init is set first, ... *)
BeBufInitBegin ==
  /\ Up /\ lib = "idle" /\ ~init
  /\ init' = TRUE
  /\ lib' = "create"
  /\ UNCHANGED <<ordered, lists, use, holds, exitState, memInit, runOnce, irq, crashed, newest>>

(* ... then ISP_CreatBeBufQueue makes the queue *)
BeBufInitCreate ==
  /\ Up /\ lib = "create"
  /\ queue' = "created"
  /\ free' = [n \in Nodes |-> n] /\ busy' = <<>>
  /\ lib' = "setup"
  /\ UNCHANGED <<ordered, init, use, holds, exitState, memInit, runOnce, irq, crashed, newest>>

(* or fails, *)
BeBufInitFail ==
  /\ Up /\ lib = "create"
  /\ init' = FALSE
  /\ lib' = "idle"
  /\ UNCHANGED <<ordered, lists, use, holds, exitState, memInit, runOnce, irq, crashed, newest>>

(* and the nodes get their addresses: each of NodeNum turns moves the first   *)
(* free node to the end, which turns a list that lost a node by one.         *)
BeBufInitFinish ==
  /\ Up /\ lib = "setup"
  /\ queue' = "ready"
  /\ free' = IF Len(free) = NodeNum THEN free ELSE Append(Tail(free), Head(free))
  /\ hold' = [n \in Nodes |-> IF n \in Range(free) THEN 0 ELSE hold[n]]
  /\ use' = None
  /\ exitState' = "READY"
  /\ lib' = "idle"
  /\ newest' = None
  /\ UNCHANGED <<ordered, init, busy, use_cnt, outs, forced, memInit, runOnce, irq, crashed>>

(* ISP_DRV_GetBeBufFirst, which does not look at the old pstUseNode. *)
GetBeBufFirst ==
  /\ Up /\ lib = "idle" /\ init
  /\ free # <<>>
  /\ use' = Head(free) /\ free' = Tail(free)
  /\ UNCHANGED <<ordered, init, queue, busy, holds, exitState, memInit, runOnce, lib, irq, crashed, newest>>

(* ISP_DRV_AllBeBufInit: the copy of pstUseNode into every free node turns    *)
(* the free list round once, twice with the LDCI addresses.                  *)
AllBeBufInit ==
  /\ Up /\ lib = "idle" /\ init
  /\ ordered => busy = <<>>
  /\ use # None
  /\ busy' = Append(busy, use)
  /\ newest' = use
  /\ use' = None
  /\ UNCHANGED <<ordered, init, queue, free, holds, exitState, memInit, runOnce, lib, irq, crashed>>

(* ISP_DRV_BeBufCtl *)
BeBufCtl ==
  /\ Up /\ lib = "idle" /\ init
  /\ "raw" \notin runOnce
  /\ use # None
  /\ PutUseBusy
  /\ UNCHANGED <<ordered, init, queue, holds, exitState, memInit, runOnce, lib, irq, crashed>>

(* ISP_DRV_GetBeLastBuf takes back every busy node, held or not. *)
GetBeLastBuf ==
  LET all == free \o busy IN
  /\ Up /\ lib = "idle" /\ init
  /\ hold' = [n \in Nodes |-> IF n \in Range(busy) THEN 0 ELSE hold[n]]
  /\ forced' = (forced \/ \E n \in Range(busy) : hold[n] > 0)
  /\ busy' = <<>>
  /\ newest' = None
  /\ IF use = None /\ all # <<>>
       THEN use' = Last(all) /\ free' = Front(all)
       ELSE use' = use /\ free' = all
  /\ UNCHANGED <<ordered, init, queue, use_cnt, outs, exitState, memInit, runOnce, lib, irq, crashed>>

(* ISP_DRV_OptRunOnceInfo and ISP_DRV_YUVRunOnceInfo take a node for a single *)
(* frame, without asking whether there is a queue, ...                        *)
RunOnceOn(k) ==
  /\ Up /\ lib = "idle"
  /\ use = None
  /\ IF queue = "none"
       THEN crashed' = "runonce" /\ UNCHANGED <<free, use, runOnce>>
       ELSE /\ free # <<>>
            /\ use' = Head(free) /\ free' = Tail(free)
            /\ runOnce' = runOnce \cup {k}
            /\ UNCHANGED crashed
  /\ UNCHANGED <<ordered, init, queue, busy, holds, exitState, memInit, lib, irq, newest>>

RunOnceOff(k) ==
  /\ Up /\ lib = "idle"
  /\ runOnce' = runOnce \ {k}
  /\ UNCHANGED <<ordered, init, lists, use, holds, exitState, memInit, lib, irq, crashed, newest>>

(* ... and ISP_DRV_RunOnceProcess, ISP_DRV_YUVRunOnceProcess put it busy. *)
RunOnceProcess(k) ==
  /\ Up /\ lib = "idle"
  /\ memInit /\ k \in runOnce
  /\ use # None
  /\ IF queue = "none"
       THEN crashed' = "runonce" /\ UNCHANGED <<free, busy, use, newest>>
       ELSE PutUseBusy /\ UNCHANGED crashed
  /\ UNCHANGED <<ordered, init, queue, holds, exitState, memInit, runOnce, lib, irq>>

(* ISP_MEM_INFO_SET: the library has its memory, or not. *)
MemInfoSet(b) ==
  /\ Up /\ lib = "idle"
  /\ memInit' = b
  /\ UNCHANGED <<ordered, init, lists, use, holds, exitState, runOnce, lib, irq, crashed, newest>>

(* ISP_DRV_ResetCtx *)
ResetCtx ==
  /\ Up /\ lib = "idle"
  /\ memInit' = FALSE /\ runOnce' = {}
  /\ UNCHANGED <<ordered, init, lists, use, holds, exitState, lib, irq, crashed, newest>>

(* ISP_DRV_BeBufExit, with bIspRunFlag cleared by the library: no client gets *)
(* a node from here on, ...                                                  *)
BeBufExitBegin ==
  /\ Up /\ lib = "idle" /\ init
  /\ exitState' = "WAITING"
  /\ lib' = "wait"
  /\ UNCHANGED <<ordered, init, lists, use, holds, memInit, runOnce, irq, crashed, newest>>

(* ... the wait ends when use_cnt is seen at 0, *)
BeBufExitWake ==
  /\ Up /\ lib = "wait"
  /\ use_cnt = 0
  /\ lib' = "destroy"
  /\ UNCHANGED <<ordered, init, lists, use, holds, exitState, memInit, runOnce, irq, crashed, newest>>

(* or after g_IspExitTimeout or a signal, and the ioctl fails, *)
BeBufExitTimeout ==
  /\ Up /\ lib = "wait"
  /\ lib' = "idle"
  /\ UNCHANGED <<ordered, init, lists, use, holds, exitState, memInit, runOnce, irq, crashed, newest>>

(* and the queue and its buffers are freed.  pstUseNode stays.               *)
BeBufExitDestroy ==
  /\ Up /\ lib = "destroy"
  /\ queue' = "none" /\ free' = <<>> /\ busy' = <<>>
  /\ init' = FALSE
  /\ exitState' = "EXIT"
  /\ lib' = "idle"
  /\ newest' = None
  /\ UNCHANGED <<ordered, use, holds, memInit, runOnce, irq, crashed>>

-----------------------------------------------------------------------------
(* The interrupt thread, ISP_DRV_DoIntBottomHalf and ISP_DRV_GetUseNode:      *)
(* bMemInit, init and pstUseNode are read without the lock, ...              *)
IrqCheck ==
  /\ Up /\ irq = "idle"
  /\ memInit /\ init /\ use = None
  /\ irq' = "take"
  /\ UNCHANGED <<ordered, init, lists, use, holds, exitState, memInit, runOnce, lib, crashed, newest>>

(* ... and the next free node is taken with it. *)
IrqTake ==
  /\ Up /\ irq = "take"
  /\ irq' = "idle"
  /\ IF queue = "none"
       THEN crashed' = "irq" /\ UNCHANGED <<free, use>>
       ELSE /\ IF free = <<>> THEN use' = None /\ UNCHANGED free
               ELSE use' = Head(free) /\ free' = Tail(free)
            /\ UNCHANGED crashed
  /\ UNCHANGED <<ordered, init, queue, busy, holds, exitState, memInit, runOnce, lib, newest>>

-----------------------------------------------------------------------------
(* VI and VPSS, through the exported functions. *)

(* ISP_DRV_GetReadyBeBuf *)
GetReadyBeBuf ==
  /\ Up /\ exitState = "READY"
  /\ busy # <<>>
  /\ LET n == Last(busy) IN
       /\ Outs < MaxHold
       /\ hold' = [hold EXCEPT ![n] = @ + 1]
       /\ outs' = [outs EXCEPT ![n] = @ + 1]
  /\ use_cnt' = use_cnt + 1
  /\ UNCHANGED <<ordered, init, lists, use, exitState, memInit, runOnce, lib, irq, crashed, forced, newest>>

(* Deviation: a second hold is not counted. *)
HoldBusyBeBufUncounted(n) ==
  /\ Up /\ exitState = "READY"
  /\ outs[n] > 0 /\ Outs < MaxHold
  /\ outs' = [outs EXCEPT ![n] = @ + 1]
  /\ IF n \in Range(busy)
       THEN hold' = [hold EXCEPT ![n] = @ + 1] /\ UNCHANGED use_cnt
       ELSE UNCHANGED <<hold, use_cnt>>
  /\ UNCHANGED <<ordered, init, lists, use, exitState, memInit, runOnce, lib, irq, crashed, forced, newest>>

(* ISP_DRV_HoldBusyBeBuf of a buffer the client has; it succeeds although     *)
(* the node is not on the busy list any more.                                *)
HoldBusyBeBuf(n) ==
  /\ Up /\ exitState = "READY"
  /\ outs[n] > 0 /\ Outs < MaxHold
  /\ outs' = [outs EXCEPT ![n] = @ + 1]
  /\ IF n \in Range(busy)
       THEN hold' = [hold EXCEPT ![n] = @ + 1] /\ use_cnt' = use_cnt + 1
       ELSE UNCHANGED <<hold, use_cnt>>
  /\ UNCHANGED <<ordered, init, lists, use, exitState, memInit, runOnce, lib, irq, crashed, forced, newest>>

(* Deviation: counts are decremented without looking at them. *)
PutFreeBeBufBelowZero(n) ==
  /\ Up /\ outs[n] > 0
  /\ ordered => \A i, j \in DOMAIN busy :
                  busy[j] = n /\ i < j => outs[busy[i]] = 0
  /\ outs' = [outs EXCEPT ![n] = @ - 1]
  /\ IF exitState = "EXIT" THEN UNCHANGED <<hold, use_cnt, free, busy>>
     ELSE /\ use_cnt' = use_cnt - 1
          /\ IF n \notin Range(busy) THEN UNCHANGED <<hold, free, busy>>
             ELSE /\ hold' = [hold EXCEPT ![n] = @ - 1]
                  /\ IF hold[n] = 1 /\ Len(busy) > 1
                       THEN busy' = Only(busy, Nodes \ {n}) /\ free' = Append(free, n)
                       ELSE UNCHANGED <<free, busy>>
  /\ UNCHANGED <<ordered, init, queue, use, exitState, memInit, runOnce, lib, irq, crashed, forced, newest>>

(* Deviation: the node is taken off the busy list but not freed. *)
PutFreeBeBufForgets(n) ==
  /\ Up /\ outs[n] > 0
  /\ ordered => \A i, j \in DOMAIN busy :
                  busy[j] = n /\ i < j => outs[busy[i]] = 0
  /\ outs' = [outs EXCEPT ![n] = @ - 1]
  /\ IF exitState = "EXIT" THEN UNCHANGED <<hold, use_cnt, free, busy>>
     ELSE /\ use_cnt' = IF use_cnt > 0 THEN use_cnt - 1 ELSE 0
          /\ IF n \notin Range(busy) THEN UNCHANGED <<hold, free, busy>>
             ELSE /\ hold' = [hold EXCEPT ![n] = IF @ > 0 THEN @ - 1 ELSE 0]
                  /\ busy' = IF hold[n] <= 1 /\ Len(busy) > 1 THEN Only(busy, Nodes \ {n}) ELSE busy
                  /\ UNCHANGED free
  /\ UNCHANGED <<ordered, init, queue, use, exitState, memInit, runOnce, lib, irq, crashed, forced, newest>>

(* Deviation: an exit that waits refuses the buffer like one that is over. *)
PutFreeBeBufNotWaiting(n) ==
  /\ Up /\ outs[n] > 0
  /\ ordered => \A i, j \in DOMAIN busy :
                  busy[j] = n /\ i < j => outs[busy[i]] = 0
  /\ outs' = [outs EXCEPT ![n] = @ - 1]
  /\ IF exitState # "READY" THEN UNCHANGED <<hold, use_cnt, free, busy>>
     ELSE /\ use_cnt' = IF use_cnt > 0 THEN use_cnt - 1 ELSE 0
          /\ IF n \notin Range(busy) THEN UNCHANGED <<hold, free, busy>>
             ELSE /\ hold' = [hold EXCEPT ![n] = IF @ > 0 THEN @ - 1 ELSE 0]
                  /\ IF hold[n] <= 1 /\ Len(busy) > 1
                       THEN busy' = Only(busy, Nodes \ {n}) /\ free' = Append(free, n)
                       ELSE UNCHANGED <<free, busy>>
  /\ UNCHANGED <<ordered, init, queue, use, exitState, memInit, runOnce, lib, irq, crashed, forced, newest>>

(* ISP_DRV_PutFreeBeBuf with ISP_DRV_PutBusyToFree: the last busy node stays  *)
(* busy although nobody holds it.                                            *)
PutFreeBeBuf(n) ==
  LET left == IF hold[n] > 0 THEN hold[n] - 1 ELSE 0 IN
  /\ Up /\ outs[n] > 0
  /\ ordered => \A i, j \in DOMAIN busy :
                  busy[j] = n /\ i < j => outs[busy[i]] = 0
  /\ outs' = [outs EXCEPT ![n] = @ - 1]
  /\ IF exitState = "EXIT" THEN UNCHANGED <<hold, use_cnt, free, busy>>
     ELSE /\ use_cnt' = IF use_cnt > 0 THEN use_cnt - 1 ELSE 0
          /\ IF n \notin Range(busy) THEN UNCHANGED <<hold, free, busy>>
             ELSE /\ hold' = [hold EXCEPT ![n] = left]
                  /\ IF left = 0 /\ Len(busy) > 1
                       THEN busy' = Only(busy, Nodes \ {n}) /\ free' = Append(free, n)
                       ELSE UNCHANGED <<free, busy>>
  /\ UNCHANGED <<ordered, init, queue, use, exitState, memInit, runOnce, lib, irq, crashed, forced, newest>>

ClientPut == \E n \in Nodes : PutFreeBeBuf(n)

Next ==
  \/ BeBufInitBegin
  \/ BeBufInitCreate
  \/ BeBufInitFail
  \/ BeBufInitFinish
  \/ GetBeBufFirst
  \/ AllBeBufInit
  \/ BeBufCtl
  \/ GetBeLastBuf
  \/ \E b \in BOOLEAN : MemInfoSet(b)
  \/ ResetCtx
  \/ \E k \in Kinds : RunOnceOn(k) \/ RunOnceOff(k) \/ RunOnceProcess(k)
  \/ BeBufExitBegin
  \/ BeBufExitWake
  \/ BeBufExitTimeout
  \/ BeBufExitDestroy
  \/ IrqCheck
  \/ IrqTake
  \/ GetReadyBeBuf
  \/ \E n \in Nodes : HoldBusyBeBuf(n)
  \/ ClientPut

Spec == Init /\ [][Next]_vars

(* VI and VPSS put back what they have when the hardware is done with it.     *)
FairSpec == Spec /\ WF_vars(ClientPut)

-----------------------------------------------------------------------------
(* No node is in two places: the free list, the busy list and pstUseNode      *)
(* never share one, whatever ioctls, interrupts and clients do in between;   *)
(* and what VI and VPSS hold is on the busy list, where neither the interrupt *)
(* thread nor the library can write into it, until GetBeLastBuf takes it.    *)
NodesOnce ==
  /\ queue = "ready" => IsInjective(free \o busy) /\ use \notin Range(free \o busy)
  /\ ~forced => \A n \in Nodes : outs[n] > 0 => n \in Range(busy)

(* The hold count of each node and use_cnt are what the clients have, so that *)
(* the exit path frees the buffers only when no client has any of them, also  *)
(* after an exit that timed out and was tried again.                         *)
HoldsExact ==
  ~forced =>
    /\ use_cnt = Outs
    /\ \A n \in Nodes : outs[n] > 0 => queue = "ready" /\ hold[n] = outs[n]

(* Once the library has put a configuration on the busy list there is one     *)
(* for every frame, until GetBeLastBuf or the exit withdraws it; with ordered *)
(* callers it is the newest one: no frame is processed with an older         *)
(* configuration than a frame before it.                                     *)
LatestConfig ==
  newest # None => busy # <<>> /\ (ordered /\ ~forced => Last(busy) = newest)

Listed(n) == n \in Range(free \o busy) \/ n = use

(* A node leaves the pipe only when pstUseNode is overwritten: by the        *)
(* interrupt thread, which read it before it took the lock, or GetBeBufFirst. *)
LostByOverwriteOnly ==
  [][queue = "ready" /\ queue' = "ready" =>
       \A n \in Nodes : Listed(n) /\ ~Listed(n)' => n = use /\ (IrqTake \/ GetBeBufFirst)]_vars

(* The wait of the exit path is always satisfied in the end, so that an exit  *)
(* that timed out succeeds when it is tried again.                           *)
ExitDrains == exitState = "WAITING" ~> use_cnt = 0

=============================================================================
