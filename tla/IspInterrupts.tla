---------------------------- MODULE IspInterrupts ----------------------------
(***************************************************************************)
(* The way of a front-end interrupt of one ISP pipe to its handling:         *)
(* drivers/hi3516cv500_isp/isp.c.  ISP_ISR stores the status in a ring; the   *)
(* bottom half takes one entry a run and routes it.  It runs in ISP_ISR, or,  *)
(* with g_UseBothalf, in the thread ISP_ISR wakes; wake-ups that meet one     *)
(* that is pending are merged with it.                                       *)
(*                                                                          *)
(* External: the VI driver requests the interrupt with ISP_ISR as its handler *)
(* and ISP_IntBottomHalf as its thread function.                             *)
(***************************************************************************)
EXTENDS Integers, Sequences

CONSTANTS
  Slots,     \* ISP_INTERRUPTS_SAVEINFO_MAX
  MaxInt     \* bound on the number of interrupts

ASSUME SlotsAssumption == Slots \in Nat /\ Slots > 1
ASSUME MaxIntAssumption == MaxInt \in Nat

(* What an interrupt has for this pipe: a port or ISP status, a status of the *)
(* write channel only, or nothing (it is for another pipe).                  *)
Kinds == {"isp", "wch", "none"}
Entry == [int : 0 .. MaxInt, kind : Kinds]
Empty == [int |-> 0, kind |-> "none"]
Ring == 0 .. Slots - 1

VARIABLES
  int_sch, read_flag, write_flag,  \* isp_int_info
  stIntSch,      \* the entry the bottom half is at
  bYuvMode, g_UseBothalf, bMemInit,
  isr,           \* where ISP_ISR is
  thread,        \* where the thread is
  woken,         \* the thread is to run
  last,          \* history: the number of interrupts so far
  owed,          \* history: the pending wake-up was given for an entry of the ring
  routed,        \* history: the interrupts that were routed
  shared,        \* history: those taken while the other bottom half had one in hand
  behind         \* history: merged and void wake-ups, and runs that refused an entry

info == <<int_sch, read_flag, write_flag>>
mode == <<bYuvMode, g_UseBothalf, bMemInit>>
past == <<routed, shared, behind>>
vars == <<info, stIntSch, mode, isr, thread, woken, owed, last, past>>

TypeOK ==
  /\ int_sch \in [Ring -> Entry]
  /\ read_flag \in Ring /\ write_flag \in Ring
  /\ stIntSch \in Entry
  /\ bYuvMode \in BOOLEAN /\ g_UseBothalf \in BOOLEAN /\ bMemInit \in BOOLEAN
  /\ isr \in {"idle", "stored", "take", "route"}
  /\ thread \in {"idle", "take", "route"}
  /\ woken \in BOOLEAN /\ owed \in BOOLEAN
  /\ last \in 0 .. MaxInt
  /\ routed \in Seq(1 .. MaxInt) /\ shared \subseteq 1 .. MaxInt
  /\ behind \in Nat

EmptyRing == [s \in Ring |-> Empty]

Init ==
  /\ int_sch = EmptyRing /\ read_flag = 0 /\ write_flag = 0
  /\ stIntSch = Empty
  /\ bYuvMode = FALSE /\ g_UseBothalf = FALSE /\ bMemInit = FALSE
  /\ isr = "idle" /\ thread = "idle" /\ woken = FALSE /\ owed = FALSE
  /\ last = 0 /\ routed = <<>> /\ shared = {} /\ behind = 0

(* Deviation: the flags do not wrap around. *)
AfterNoWrap(slot) == slot + 1

After(slot) == (slot + 1) % Slots
IsFull == After(write_flag) = read_flag
IsEmpty == write_flag = read_flag

(* A status of the write channel counts in YUV mode only.                    *)
Matters(kind) == kind = "isp" \/ (kind = "wch" /\ bYuvMode)

-----------------------------------------------------------------------------
(* Deviation: a full ring is written all the same. *)
StoreOverFull(kind) ==
  LET e == IF Matters(kind) THEN [int |-> last', kind |-> kind] ELSE Empty IN
  /\ int_sch' = [int_sch EXCEPT ![write_flag] = e]
  /\ write_flag' = IF Matters(kind) THEN After(write_flag) ELSE write_flag
  /\ UNCHANGED read_flag

(* isp_update_interrupt_info: a full ring is wiped first; the slot at         *)
(* write_flag is cleared even when there is nothing to store.                *)
Store(kind) ==
  LET e == IF Matters(kind) THEN [int |-> last', kind |-> kind] ELSE Empty
      w == IF IsFull THEN 0 ELSE write_flag IN
  /\ int_sch' = [IF IsFull THEN EmptyRing ELSE int_sch EXCEPT ![w] = e]
  /\ write_flag' = IF Matters(kind) THEN After(w) ELSE w
  /\ read_flag' = IF IsFull THEN 0 ELSE read_flag

IsrStore(kind) ==
  /\ isr = "idle"
  /\ last < MaxInt /\ last' = last + 1
  /\ Store(kind)
  /\ isr' = "stored"
  /\ UNCHANGED <<stIntSch, mode, thread, woken, owed, past>>

(* ISP_ISR ends with OSAL_IRQ_WAKE_THREAD; a wake-up that meets one that is   *)
(* pending is the same one.                                                 *)
Wake ==
  /\ isr' = "idle"
  /\ woken' = TRUE

(* Deviation: a thread that is running is not woken again. *)
IsrBothalfIfIdle ==
  /\ isr = "stored" /\ g_UseBothalf
  /\ isr' = "idle"
  /\ woken' = (woken \/ thread = "idle") /\ owed' = woken'
  /\ behind' = behind + IF owed THEN 1 ELSE 0
  /\ UNCHANGED <<info, stIntSch, mode, thread, last, routed, shared>>

(* With everything stored, ISP_ISR leaves the rest to the thread, ...         *)
IsrBothalf ==
  /\ isr = "stored" /\ g_UseBothalf
  /\ Wake /\ owed' = TRUE
  /\ behind' = behind + IF owed THEN 1 ELSE 0
  /\ UNCHANGED <<info, stIntSch, mode, thread, last, routed, shared>>

(* ... or runs the bottom half.                                             *)
IsrDirect ==
  /\ isr = "stored" /\ ~g_UseBothalf
  /\ isr' = "take"
  /\ UNCHANGED <<info, stIntSch, mode, thread, woken, owed, last, past>>

(* ISP_IntBottomHalf: a wake-up given for an entry is void when the mode has  *)
(* changed since.                                                           *)
ThreadBegin ==
  /\ woken /\ thread = "idle"
  /\ woken' = FALSE /\ owed' = FALSE
  /\ thread' = IF g_UseBothalf THEN "take" ELSE "idle"
  /\ behind' = behind + IF owed /\ ~g_UseBothalf THEN 1 ELSE 0
  /\ UNCHANGED <<info, stIntSch, mode, isr, last, routed, shared>>

-----------------------------------------------------------------------------
(* ISP_DoIntBottomHalf, run by either.  isp_get_interrupt_info refuses an     *)
(* entry that has nothing (any more) for this mode, ...                      *)
Refused == ~Matters(int_sch[read_flag].kind) \/ IsEmpty

(* Deviation: the slot is not cleared. *)
TakeEntryKeeps ==
  /\ ~Refused
  /\ stIntSch' = int_sch[read_flag]
  /\ read_flag' = After(read_flag)
  /\ UNCHANGED <<int_sch, write_flag>>

(* ... and takes the others off the ring.                                   *)
TakeEntry ==
  /\ ~Refused
  /\ stIntSch' = int_sch[read_flag]
  /\ int_sch' = [int_sch EXCEPT ![read_flag] = Empty]
  /\ read_flag' = After(read_flag)
  /\ UNCHANGED write_flag

(* Then, without the lock, it reads stIntSch and routes the interrupt.       *)
Route ==
  routed' = IF bMemInit /\ stIntSch # Empty THEN Append(routed, stIntSch.int) ELSE routed

(* Whoever takes while the other bottom half is at its entry shares stIntSch. *)
Share(other) ==
  shared' = IF other = "route" THEN shared \cup {stIntSch'.int} ELSE shared

IsrTake ==
  /\ isr = "take"
  /\ TakeEntry /\ Share(thread)
  /\ isr' = "route"
  /\ UNCHANGED <<mode, thread, woken, owed, last, routed, behind>>

(* Deviation: the result of isp_get_interrupt_info is not looked at. *)
IsrRefusedRoutes ==
  /\ isr = "take" /\ Refused
  /\ isr' = "route"
  /\ UNCHANGED <<info, stIntSch, mode, thread, woken, owed, last, past>>

IsrRefused ==
  /\ isr = "take" /\ Refused
  /\ Wake
  /\ behind' = behind + 1
  /\ UNCHANGED <<info, stIntSch, mode, thread, owed, last, routed, shared>>

IsrRoute ==
  /\ isr = "route"
  /\ Route /\ Wake
  /\ UNCHANGED <<info, stIntSch, mode, thread, owed, last, shared, behind>>

ThreadTake ==
  /\ thread = "take"
  /\ TakeEntry /\ Share(isr)
  /\ thread' = "route"
  /\ UNCHANGED <<mode, isr, woken, owed, last, routed, behind>>

ThreadRefused ==
  /\ thread = "take" /\ Refused
  /\ thread' = "idle"
  /\ behind' = behind + 1
  /\ UNCHANGED <<info, stIntSch, mode, isr, woken, owed, last, routed, shared>>

ThreadRoute ==
  /\ thread = "route"
  /\ Route
  /\ thread' = "idle"
  /\ UNCHANGED <<info, stIntSch, mode, isr, woken, owed, last, shared, behind>>

-----------------------------------------------------------------------------
(* The ioctls. *)
(* ISP_SetModParam, which refuses once a pipe has its memory. *)
SetModParam ==
  /\ ~bMemInit
  /\ g_UseBothalf' = TRUE
  /\ UNCHANGED <<info, stIntSch, bYuvMode, bMemInit, isr, thread, woken, owed, last, past>>

(* ISP_MEM_INFO_SET *)
MemInfoSet ==
  /\ bMemInit' \in BOOLEAN
  /\ UNCHANGED <<info, stIntSch, bYuvMode, g_UseBothalf, isr, thread, woken, owed, last, past>>

(* ISP_DRV_ResetCtx, of this pipe or, at any moment of its interrupts, of     *)
(* another one: the parameter is everyone's.                                *)
ResetCtx(this) ==
  /\ g_UseBothalf' = FALSE
  /\ bMemInit' = (bMemInit /\ ~this)
  /\ UNCHANGED <<info, stIntSch, bYuvMode, isr, thread, woken, owed, last, past>>

(* ISP_DRV_WorkModeInit takes the mode from the VI. *)
WorkModeInit ==
  /\ bYuvMode' \in BOOLEAN
  /\ UNCHANGED <<info, stIntSch, g_UseBothalf, bMemInit, isr, thread, woken, owed, last, past>>

(* ISP_DRV_SetWdrCfg with ISP_DRV_SwitchMode, under the lock. *)
SetWdrCfg ==
  /\ int_sch' = EmptyRing /\ read_flag' = 0 /\ write_flag' = 0
  /\ UNCHANGED <<stIntSch, mode, isr, thread, woken, owed, last, past>>

Isr == (\E kind \in Kinds : IsrStore(kind)) \/ IsrBothalf \/ IsrDirect \/ IsrTake \/ IsrRefused \/ IsrRoute
Thread == ThreadBegin \/ ThreadTake \/ ThreadRefused \/ ThreadRoute

Next ==
  \/ Isr
  \/ Thread
  \/ SetModParam
  \/ MemInfoSet
  \/ \E this \in BOOLEAN : ResetCtx(this)
  \/ WorkModeInit
  \/ SetWdrCfg

Spec == Init /\ [][Next]_vars

-----------------------------------------------------------------------------
Pending == (write_flag - read_flag) % Slots

(* The slots from read_flag to write_flag have an entry and the others are    *)
(* clear, whatever stores, takes and wipes it: isp_get_interrupt_info looks   *)
(* at the slot first and never has to warn that the ring is empty.           *)
SlotsMatchFlags ==
  \A s \in Ring : int_sch[s] = Empty <=> (s - read_flag) % Slots >= Pending

Kept == [i \in 1 .. Pending |-> int_sch[(read_flag + i - 1) % Slots].int]

(* The ring with its two flags is the queue of IspIntQueue, one place short. *)
Queue == INSTANCE IspIntQueue WITH Capacity <- Slots - 1, queue <- Kept
IsQueue == Queue!Spec

(* The bottom half reads the shared stIntSch without the lock, and two of     *)
(* them may run: still no interrupt is routed after a later one, and one is   *)
(* routed twice only if it was taken while the other bottom half had one in   *)
(* hand (whose own interrupt is then lost).                                  *)
RoutedInOrder ==
  \A i \in 1 .. Len(routed) - 1 :
    routed[i] < routed[i + 1] \/ (routed[i] = routed[i + 1] /\ routed[i] \in shared)

(* The bottom half takes one entry a run, so a backlog never goes away by     *)
(* itself; but it only comes from a merged wake-up, a refused entry, or a     *)
(* wake-up made void by the reset of another pipe.                           *)
LateByLostRunOnly ==
  Pending <= behind + (IF owed THEN 1 ELSE 0) + (IF thread = "take" THEN 1 ELSE 0)
                    + (IF isr \in {"stored", "take"} THEN 1 ELSE 0)

(* "1 to use interrupt processing at bottom half" (isp.c:74), which "Does not *)
(* support changed after isp init!" (isp.c:4572): the bottom half of a        *)
(* running pipe is not in the interrupt and in the thread at a time.         *)
OneBottomHalf ==
  bMemInit => ~(isr \in {"take", "route"} /\ thread \in {"take", "route"})
=============================================================================
