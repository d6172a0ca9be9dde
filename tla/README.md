# Formal models of the HI3516CV500 SDK

TLA+ models of the concurrent and stateful core of the SDK under `src/sdk`,
model-checked with TLC and, for the reference counting of media memory, the address allocator, the
back-end buffers, the ring of interrupts, the statistics buffers, the sync tasks, the refresh of the
screen and the serial download, proved with TLAPS. Every definition that models code is listed with its source lines
under `map` in `PROJECT.json`.

Paths below are relative to `src/sdk`; `mmz/` is `drivers/hi_osal/mmz/` and
`isp/` is `drivers/hi3516cv500_isp/`.

## 1. The system

Most of the repository is register code, parameter tables or disassembly with a
little C around it. What has a state of its own, shared between threads, is:

| Component | State | Operations | Interacts with | What is hard | What makes it correct |
|---|---|---|---|---|---|
| **MMZ user device** `mmz/mmz-userdev.c` | per open file: list of `mmb_info` (map_ref, mmb_ref, delayed_free, mapped) | open, alloc, remap, unmap, add/dec reference, free, close | `hil_mmb_*` under `mmz_lock`; vm_mmap calls back into its own mmap | an ioctl makes several `hil_mmb_*` calls and other files and kernel clients run between them; half-failed calls; close at any moment | no block used after it is freed, counts equal to what is held, nothing leaked |
| **MMZ blocks** `mmz/media-mem.c`, `hisi_allocator.c` | per block: phy_ref, map_ref, flags | get, put, free, map2kern, unmap | the user device, VB and every driver | the last of put, free and unmap frees the block, in any order | freed once, and only when unused |
| **MMZ allocator** `mmz/hisi_allocator.c` | per zone: list of blocks in address order | alloc (two kinds), free | zones | unsigned arithmetic, best fit, several zones per request | blocks disjoint and inside their zone; a hole is found if there is one |
| **MMZ zones** `mmz/media-mem.c` | list of zones | register, unregister, parse | allocator | overlap check at the top of the address space | zones disjoint |
| **ISP back-end buffers** `isp/isp.c`, `isp_list.c` | free and busy list, pstUseNode, hold counts, exit state | init, exit, ten ioctls, interrupt, VI/VPSS get, hold, put | library, interrupt thread, VI, VPSS | init and pstUseNode are read outside the lock; exit waits with a timeout | no node in two places, held nodes not rewritten, exit frees nothing in use |
| **ISP interrupts** `isp/isp.c` | a ring of pending interrupts per pipe, where the bottom half runs | top half stores, bottom half takes and routes, mode ioctls | hardware, bottom half thread, library | ring full; merged wake-ups; entries the reader skips; the shared copy of the entry | interrupts routed once, in order |
| **ISP statistics** `isp/isp.c`, `isp_drv.c` | free, busy and user lists, pstActStat | init, exit, get, put, interrupt, focus copy | library, interrupts, sync tasks | two nodes for everybody; the focus copy reads without the lock | no node in two places, none written while the library has it |
| **ISP sync tasks** `isp/isp_st.c` | two lists of tasks, a work item | register, unregister, call on each frame | clients, interrupt thread, work queue | one list is walked without the semaphore | no task called after it was unregistered, every frame's call made |
| **ISP sync configuration** `isp/isp.c` | a ring of sensor configurations | set, take for a frame, clear | library, interrupt | the slot is filled without the lock | configurations applied once, in order |
| **ISP stitching** `isp/isp.c` | as the back-end buffers, for several pipes | the same under `g_stIspSyncLock` | clients | two different locks for one queue | the same |
| **OSAL devices** `drivers/hi_osal` | registered devices, open counts | register, open, ioctl, release | every driver | unregister against open | no file of a device that is gone |
| **OSAL wait, work queue, timer** | wait queues, unlocked list of work | wait, wake, init, destroy | every driver | lost wake-up, list without a lock | a wake-up is not lost |
| **Frame buffer** `drivers/hifb/hifb_main.c` | per layer: two display buffers, which one is shown, flip flags, what the idle one lacks | refresh, buffer mode, show; callback of the 2D engine; two interrupts | 2D engine, video output | a refresh returns before it is drawn; the next one may overtake its callback; interrupts between any two steps | whole pictures on the screen, in order, never drawn to |
| **Fast burn and boot ROM** `fastburn`, `bootrom` | frame counter on both ends of a serial line | head, data, tail frames, acknowledge, resend | each other | damaged frames and answers, no timeout on the host, state moved before it is checked | only the image as sent is started |
| MIPI, iris, PWM, sensor buses, system, audio, codec drivers; user libraries; sensors; DDR training | registers, tables | | | | |

`PROJECT.json` lists all of them under `components`, with the reason for each one
that has no model, and under `hazards` what is hard to test in this code, at the
line where it bites.

How they interact: a user process opens `/dev/mmz_userdev`, whose ioctls allocate
blocks with the allocator and count references on them; drivers allocate and map
blocks through the same `hil_mmb_*` functions. The ISP library initialises the
back-end buffers of a pipe in one such block; the ISP interrupt takes a node for
each frame; VI and VPSS hold nodes while their hardware reads them. The work of
an interrupt is put in a ring by the top half and taken by the bottom half.

## 2. The modules

### MmzUserdev

Files of `/dev/mmz_userdev`, blocks and kernel clients.

* State: `mmb` is the set of `hil_mmb_t` (allocated or not, `phy_ref`, `map_ref`
  and the two flags), `info[f]` the list of `mmb_info` of file `f`, `fd[f]` where
  the thread that uses the file is, `kernel` what kernel clients own.
* Atomicity: each `hil_mmb_*` function runs under `mmz_lock` and is one step. An
  ioctl holds the semaphore of its file; one that makes several `hil_mmb_*`
  calls is several steps (`FdAlloc`/`FdAllocGet`/`FdAllocFail`,
  `FdFreePut`/`FdFreeMmb`, the loop of `mmz_userdev_release`), between which
  other files and the kernel act.
* Failures: kmalloc, ioremap, vm_mmap, vm_munmap and the vma check may each fail;
  a process may close its file, or die, between any two ioctls.
* Callers: an allocation makes its list entry of the `mmb_info` the caller passed, whole, so that
  `map_ref`, `mmb_ref`, `mapped`, `map_cached` and `delayed_free` are what the caller left there. The
  library's callers clear it first (`libraries/mpi/mpi_sys.c:698`, `audio_comm.c:28`); nothing in the driver
  asks for it. `Given` is the set of infos callers pass, any set in the module and the proofs, and in the
  runs the sets of `MCMmzUserdev`: cleared, with a mapping and its count, a negative count, a
  `delayed_free`, a mapping without a count and a count without a mapping.
* History: `given` of a block is the `mmb_ref` its entry came with, `noted` of an entry that it was
  `ioctl_mmb_free` that set `delayed_free`. The counts are exact relative to `given`
  (`RefAccounting`); a block that came with a count of its own may be released with nobody to free
  it, so `ReleasedIsMapped` and `CloseFrees` are for the others; `DelayedFreeDone` is for frees the
  driver noted itself.
* Kernel clients are other modules. They are assumed to free only what they
  allocated, to map a block before it is released and to unmap what they mapped.

### MmzAllocator

The lists of blocks of the zones; one action for each of `__mmb_alloc`,
`__mmb_alloc_v2` (order LOW_TO_HIGH) and `__mmb_free`, which run under
`mmz_lock`. Addresses are counted in pages and wrap around at `Word`, as
`unsigned long` does. `FindFixedRegion` and `InsertSorted` are the set of what the loops find:
one address or none, and one list. `AlignedZones`, `RoundingStable`, `DisjointZones` and
`NoZoneAtZero` name the conditions on the zones under which the allocator is right: the code
accepts any zones, and one run shows what happens without the first. The other order,
HIGH_TO_LOW, reads a bitmap that no code allocates for these zones and is not
modelled.

### IspBeBuf

One pipe in offline mode without stitching.

* State: `free`, `busy` and `use` (pstUseNode) with the hold counts, the flags
  `init`, `memInit` and `exitState`, and where the library's ioctl (`lib`) and the
  interrupt thread (`irq`) are. `outs` is what the clients hold. `crashed`,
  `forced` and `newest` are history.
* Atomicity: what runs under `g_stIspLock` is one step. `ISP_DRV_BeBufInit` sets
  `init` and creates the queue without it; `ISP_DRV_BeBufExit` waits without it; the
  interrupt thread reads `bMemInit`, `init` and `pstUseNode` before it takes it.
* Callers: the library issues one ioctl at a time in any order. Clients put back
  what they got. `ordered`, chosen at the start, restricts them to the order the code seems to expect.
* Lists: a loop over the busy list that keeps some nodes is `Only`, the sum of the references is
  `Total`, both recursive functions, so that proofs can expand them.
* Taken for granted: the library clears `bIspRunFlag` before it calls exit.

### IspSyncTask

Tasks of other modules, called on each frame of a pipe.

* State: `list` and `num` for the interrupt's and the work item's tasks, the
  semaphore, the work item (`queued`, and `at`, the tasks it has not called yet),
  the cursors of the interrupt thread's walk, and where the client of each task is.
* Atomicity: registering is a search without the semaphore and an insertion under
  it; the walks are one call a step; the work item keeps the semaphore from
  `WorkBegin` to `WorkEnd`. Clients keep it for one step only, so `sem` says only whether
  the work item has it. A worker thread gets no signals: its wait for the semaphore does not fail.
* A task taken off the list while the interrupt thread is at it has poisoned
  pointers; the model ends the walk there.
* Assumptions: a task has one client, which uses its memory again once
  unregistering succeeded; ids are distinct. The exit of the module is not modelled.
* `IrqCall` goes on as the code does, to the task it had read as next, registered
  or not: the interrupt may call a task its client took back. Only the work item is shown not to.

### IspStatBuf

The two statistics nodes of a pipe: `StatBufInit`, `StatBufExit` (and, outside the
lock, `StatBufExitFree`), `StatBufUserGet`, `StatBufUserPut` for the library's ioctls, which come one
at a time; `StatBufBusyPutCheck` and `StatBufBusyPut` for an interrupt that reads a
frame's statistics; three steps of `ISP_DRV_StaKernelGet` for a focus task. `alive` is the
memory that is allocated, `touched` who used memory that is gone. A node has two parts, the
front end's statistics and the back end's, and `stat[n]` says which frame each is from:
`ISP_DRV_StatisticsRead` may return before it has read one of them, or either
(`StatisticsRead`), and nobody looks at its result, so the node goes on as if it had. `got`, which is
history, is what was read of the last frame; `ActiveIsNewest` says that this much of it is in the
node the library gets next.

### IspInterrupts and IspIntQueue

`IspInterrupts` is the way of an interrupt from `ISP_ISR` through the ring
`isp_int_info` to `ISP_IrqRoute`, with the bottom half in the interrupt or in the
thread. `IsrStore`, `IsrBothalf` and `IsrDirect` are `ISP_ISR` for one pipe; `*Take`, `*Refused` and
`*Route` are `ISP_DoIntBottomHalf`, whose use of `stIntSch` is not under the lock that
filled it. Interrupts are numbered, so that order and loss can be told.
`ResetCtx(FALSE)` is the reset of another pipe, which may clear `g_UseBothalf` at any moment, also
between a wake-up and its bottom half, or while a bottom half runs. The request of the interrupt is in the VI driver and external.
`owed` is a wake-up whose bottom half has still to run, `behind` counts the ones that came to nothing (merged with
a pending one, void since the parameter had changed, or refused an entry), `shared` has
the interrupts that were taken while the other bottom half of the pipe had one in hand. All are history, and none restricts a step.

`IspIntQueue` is what the ring promises: a queue that loses nothing or everything.
`IsQueue` states that the ring with its two flags implements it, with the queue
read off the slots from `read_flag` to `write_flag`.

### HifbRefresh

One layer with two display buffers. The screen is one axis, a rectangle an interval, and
a cell holds the number of the refresh that drew it, so that "the picture after refresh
*k*" can be said.

* State: `buf` the memory of the buffers, `disp` `stDispBufInfo`, `par` the fields of
  `HIFB_PAR_S` the refresh depends on, `vo` the address register and the buffer in
  effect since the last frame start, `tde` and `fin` the jobs and the callbacks still to
  come, `call` the ioctl in progress. `frames` and `taint` are history.
* Atomicity: the frame buffer core runs one ioctl of a layer at a time. What
  `hifb_refresh_2buf` does under one hold of the lock is one step; the wait, the read of
  the address, the choice of the buffer, the copy of the union and the blit are steps of
  their own, between which the engine, its callback and both interrupts run.
* `taint` names what the protocol does not cover: `race`, a flip between the wait for
  the frame start and the lock (the comment at line 5248 forbids it, nothing prevents it); `timeout`,
  one of the two waits gave up; `switch`, the buffer mode was changed after something was drawn;
  `failed`, the blit of a new rectangle failed in the mode `DOUBLE`; `endjob`, a blit was reported as done and
  its job is gone. All of them happen in the run; the properties but the types are about behaviours without them,
  and `MCHifbRefresh` follows a marked run through its first refresh only (`Followed`).
* A blit has two results: what `HIFB_DRV_Blit` returns and whether a job was queued. They differ
  when `end_job` fails, because its result is overwritten by that of `cancel_job`
  (`hifb_blit.c:508`): a cancel that fails means that the job was submitted, and it is drawn and calls back
  although the refresh failed; a cancel that succeeds makes the blit a success with nothing queued, and
  one that was to be waited for returns at once with earlier jobs still in the queue (`Queue`, `EndJob`, `iblit`
  to `iswap`). The first is covered by the properties for the copy of the union and for both blits of
  `DOUBLE_IMMEDIATE`. The second is marked `endjob`, because no property of the picture survives it: the union
  rectangle is cleared though nothing was copied, and the layer is turned to a buffer that was not drawn.
* A size given with `FBIOPUT_LAYER_INFO` is the one the layer has, or one it refuses; so
  `hifb_refresh_again` at the end of the ioctl has nothing to do. Rotation, compression, the cursor and
  the modes without two buffers are left out.

### BootSerial and StopAndWait

`BootSerial` is `upload_image` of the host, `receive_frame` and `serial_invoke` of the boot ROM
and the line between them. A frame is a record: its magic, its number and whether the complement fits it, in
a head whether the type is one, its payload, its length and whether the checksum fits. The line may change
any of these and any of them together (`Damaged`), drop a frame, drop or insert a byte in it, insert one between two
frames (`LineInserts`), and change or drop an answer.

* State: `host` the frame to send next, `dev` `framing_context_t`, `mem` the
  chunks in memory, `ran` the memory each time the program was started, `line` and `answer` what is under
  way. `fatal` is history.
* A frame is received in one step: the device has no other work. `Result` is what
  `receive_frame` leaves, also when it returns without an answer or leaves bytes over.
  Bytes that are no frame of the host (what is left over, a stray byte, a frame whose magic is another) are
  read for one all the same: `Stray` is all that may come of it, silence or a refusal, a context that was cleared,
  a ROM that went back, garbage stored where it stands. `SwallowFrame` and `LeftTimesOut` take one of its results.
  A head with a wrong number or type is `Scan`: the rest of it is searched for another head.
* `fatal` names the faults after which the download may hang: a frame or an answer
  that is lost, since the host reads without a timeout; a stray byte; frames damaged so that the ROM
  drops them in silence, reads a part of them as a frame of its own or goes back to one the host will not
  send again (`EndsDownload`); a 0x55 turned into 0xAA; and a lost answer for a frame the ROM
  does not take twice (`NotTwice`): the last number before the numbering starts again, since
  `context->byte - 1` is not a byte there, a last frame shorter than 1024 bytes, and the tail.
  `RunsIntact` and `AcknowledgedIsThere` hold whatever `fatal` has, the second but for the forged answer.
* `AcknowledgedIsThere` is about the ROM's own count: the payload is stored before the checksum is looked at, in the
  place the number says, and a frame with the number before the one expected and its complement, however
  it came about, takes the ROM back first. So it stores over a chunk it has counted only as one it expects again.
* Assumptions: the checksum tells every damaged frame; no payload contains a complete head or tail frame whose
  checksum fits; a frame is damaged in one event, which drops or inserts at most one of its bytes; the ROM answers
  the bytes of one frame at most once (what is left of a refused frame may be refused again in the code, which
  the host would take for the answer to the next one); the image is at the address both sides mean.

`StopAndWait` is what such a download promises: the device has what the host has an
answer for, or one frame more. `StaysInStep` states that `BootSerial` implements it as long as
`fatal` is empty.

How these compose: an interrupt routed by `IspInterrupts` is what starts a `Frame` of
`IspSyncTask`, an interrupt of `IspStatBuf` and of `IspBeBuf`. Those modules let it come at any
moment, so none of their results depends on the ring.

## 3. The runs

| Run | Shows | Bounds |
|---|---|---|
| `userdev_shared` | two files and the kernel compete for two blocks: no use after free, one owner, exact counts, no lost release | 2 files, 2 blocks, counts up to 2; infos cleared or with a mapping and its count (`GivenCounts`); symmetric in both |
| `userdev_blocks` | no leak; a delayed free is done by whoever drops the last reference; a close gives everything back (liveness) | 1 file, 2 blocks, counts up to 1; infos with any count or flag left in them (`GivenAny`) |
| `allocator_aligned` | blocks disjoint, inside their zone, holes found | 3 zones of 2, 6 and 2 pages; sizes 1 to 3, alignments 1 and 2 |
| `allocator_odd` | *violated*: a zone at an odd page gets two blocks with one address | 1 zone of 4 pages |
| `bebuf` | no node in two places, held nodes stay busy, exact counts and an exit that frees nothing held, callers in any order; no older configuration for a later frame, with ordered callers; what the exit waits for comes true (liveness) | 3 nodes, 2 references at a time |
| `synctask` | lists and clients agree, counts, no late call from the work item; every frame's call is made (liveness) | 2 tasks of the work item, 3 of the interrupt, counting to 2 |
| `statbuf` | no node in two places, none written while the library has it, the newest frame next with all that could be read of it, no write to freed memory | 2 nodes as in the code, 2 areas, 2 interrupts, 4 frames |
| `statbuf_focus` | *violated*: a focus task copies from memory that is gone | 2 frames |
| `interrupts` | the ring is a queue (refinement); routed in order, twice only where two bottom halves meet; what makes interrupts late | 3 slots, 4 interrupts; the parameter and the modes change at any moment |
| `interrupts_reset` | *violated*: two bottom halves of a pipe at a time | 3 slots, 3 interrupts |
| `hifb` | the screen shows whole pictures, in order; no blit into it; the last picture is shown in the end (liveness) | 3 cells, 3 refreshes of any rectangle, one other ioctl; both buffer modes; each blit with each of its four results |
| `boot` | only the whole image is started, once; acknowledged chunks stay; host and ROM stay in step (refinement); the faults it answers do not stop the download (liveness) | 6 chunks, numbers modulo 3, 4 faults, long and short last frame |

Why the bounds are enough: a block is one file's at a time, so two files and two
blocks give every pair of owner and intruder and every pair of blocks in one
list; a count of two tells "last reference" from "one of several". The gaps of the allocator are first, inner
and last ones, so three blocks in a zone give each kind. `MAX_ISP_BE_BUF_NUM`
is small in the driver as well; three nodes give a used, a held and a newest one at
the same time.

With three slots the ring wraps around, fills and is wiped within four interrupts;
one that is full holds two, enough to exchange or repeat them. Four frames go
twice through the two nodes of the statistics. A list of two tasks has a first and
a last one, and the other list goes beyond what is counted.

Three cells give rectangles that are apart, equal, contained and overlapping; three
refreshes give one under way, one waiting for its callback and one shown, and bring the
first buffer back. Eight frames wrap twice around a number of three, so that a
number stands for a chunk before and one after the wrap, and four
faults can hit a frame, its answer and both of its repetition.

Deadlock is checked in the MMZ, statistics, interrupt and frame buffer runs. In the `IspBeBuf` run it is not: a step that
would use a queue that does not exist ends the behaviour (`crashed`); nor in `boot`: the host may wait for ever.

Every property of a passing run is tested with a deviation from the code that
breaks it (`mutants` in `PROJECT.json`); the deviations stand before the
definitions they change.

### Fairness

* `MmzUserdev!FairSpec`: a thread inside the release handler or between the two halves of an
  allocation keeps running (it is kernel code that does not wait for another
  client), and a kernel client undoes its mappings of a released block, which is the
  assumption under which the driver can ever free it. Nothing makes a process
  issue an ioctl.
* `IspSyncTask!FairSpec`: the kernel's worker thread runs the work item it was given, and
  the item goes on; nothing makes clients or frames come.
* `IspBeBuf!FairSpec`: VI and VPSS give back a node when the hardware has read it.
* `HifbRefresh!Spec`: the two interrupts of a running video output, the engine with the jobs it has and
  the thread inside an ioctl, whose waits all have a timeout. Nothing makes a process issue one.
* `BootSerial!Spec`: host and ROM go on while there is a frame to send or to take or an answer
  to read; nothing is assumed of the line.

## 4. The proofs

`MmzUserdevProofs` proves, for every set of files and blocks and every `MaxRef`:

* `Inductive`: `IInv` holds in every reachable state. `IInv` is `TypeOK`,
  `NoUseAfterFree`, `OneOwner`, `RefAccounting`, `ReleasedIsMapped` and `NoLeak`, strengthened with
  `MidCall` (what is known of a thread between two `hil_mmb_*` calls: a block about
  to be put has no reference but the one of its entry, a block about to be freed
  has no entry any more) and `KernelBlocks` (a kernel client's blocks are live, a mapped block is live).
  None of them is inductive without the others: whether `hil_mmb_put` frees a
  block depends on `released` and `map_ref`, which only the ownership of the block
  bounds.
* `TypeCorrect`, `NoUseAfterFreeHolds`, `ReferencesHold`, `ReleasedIsMappedHolds`, `NoLeakHolds` follow.
* `DelayedFreeIsDone` needs `PromisesKept`, inductive on top of `IInv`: a file that is not being
  closed lists no block it ought to have freed, other than the one `_usrdev_mmb_free` is
  about to take off its list (`Kept`, of a file's list and its thread). The steps of other files and
  of kernel clients leave both alone, so each action has one file to show it for.

The counts are integers that may start anywhere, so the bounds are about the blocks with `given = 0`:
`Counted` (the entry's count does not go below zero) and the part of `MidCall` that a block between the two
halves of an allocation has none yet. `RefAccounting` itself has no such condition: `phy_ref` is one
for the entry and what `mmb_ref` has moved since it came.

The argument: nearly every step is about one block `m` and one file `f`.
`Consistent(b, i, pc)` is the part of `IInv` about such a triple; `HeldBlock` and
`FreeBlock` get it from `IInv`, `FdBlockStep` puts `IInv'` together again from
`Consistent` of the new triple, and each action only has to preserve `Consistent`.
Assumptions: `NoMmb` is no block, `MaxRef` is positive, and `Given` is any set of infos that are not on a list.

`IspInterruptsProofs` proves every property of the run `interrupts`, for a ring of any
size from two and any number of interrupts:

* `RingInductive`: `IInv`, which is `TypeOK`, `SlotsFit` (`SlotsMatchFlags` without the
  remainder: `AheadIs` and its like take it away), `Numbered` (every entry has the
  number of an interrupt that came) and `Growing` (the numbers grow from `read_flag`
  on). `StoreRing` and `TakeRing` are the two operations of the ring, each proved
  once and used for whoever runs it.
* `TypeCorrect` and `SlotsMatch` follow.
* `RingIsQueue`, the refinement of `IspIntQueue`: `TakeIsTake` and `StoreIsArrival`
  compare the queue before and after, place by place; `SetWdrCfg` is `Clear`, and every other step
  leaves the queue alone.
* `OrderKept` and `BacklogBounded` hold whenever the parameter changes, so also while two bottom halves run.
  `OrderInv`: what was routed is not after the entry in hand, nor that one after what the ring
  has (`RoutedBefore`, `HandBefore`), and when both bottom halves are at the routing the entry they share is
  in `shared` (`HandShared`). `BacklogInv` bounds the ring by who has still to take an entry; a wake-up
  that the change of the parameter makes void is counted in `behind` where the thread finds nothing to do.

`BootSerialProofs` proves the safety of the download, for an image of any number
of chunks, numbers counted modulo any `SeqMod` from two on and any number of faults:

* `Inductive`: `IInv`, which is `TypeOK`, `LineOK` (what is on the line is the frame of
  the host or what became of it, with a fitting checksum only as it was sent, and only while the host waits), `DeviceOK` (the
  device is at most one frame ahead, expects the number of the frame it counts to,
  and has what it counted unless it is behind) and `RanOK`. The code of `receive_frame`
  is split once: `Outcome` lists the four things it may do with a frame (clear the
  context, take the head, refuse or take a frame as number `j`, take the tail), and
  `HeadOutcome`, `DataOutcome` and `TailOutcome` show that it does nothing else.
  The lemmas on `Number` take the remainder away.
* `TypeCorrect` and `OnlyTheImageRuns` follow, whatever the line does.
* `AcknowledgedStays` needs `Acked`: damaged frames and stray bytes may take the device back by more than
  one frame, since a frame of the number before the one expected is gone back
  to before its checksum is looked at; but not beyond the last time the numbering
  began (in the code `byte - 1` is an `int`, so that number 0 has none before it),
  and between there and the frame of the host no other frame has its number.
  So an intact frame is taken in its own place or not at all, and garbage is stored only where the device stands.
  `StrayOutcome` and `RefusedInv` do this once for all that bytes without a frame may cause.
* `InStepThroughout`, the refinement of `StopAndWait`: `InStep` says that without a fatal
  fault the device has the frames the host has an answer for, or one more, and
  that an answer 0xAA means one more. A step with the host's place unchanged is `Accept`,
  `TakeBack` or a stutter; the only one that moves it is `ReadAnswer`, which is `Confirm`.

The assumption is `BootAssumption`: at least one chunk and two numbers.

`IspStatBufProofs` proves every property of the run `statbuf`, for any areas of memory,
any interrupts and any number of frames. With the two nodes of the code and at
most one of them busy there are five ways to place them (`Placed`); `Inductive` has
these with their counts, `held` as what is on the user list, and `MemoryOK`: the memory of the
nodes is there whenever `bInit` is set, and without `bInit` the lists are empty, which is
why an interrupt that saw `bInit` before the exit took the lock does no harm. Whatever a read leaves out, a part of the
last frame that was read is in `pstActStat`.
`MoveInv` is what is left of a step that moves nodes, `AsideInv` of one that does not. `TypeCorrect`,
`NodesStayOnce`, `ActiveStaysNewest`, `InterruptsWriteAlive` and the action property
`HeldStayUntouched` follow.

`IspSyncTaskProofs` proves the safety of the sync tasks for any finite set of tasks with
distinct ids, however they are called (`TasksAssumption`). `Inductive`: each list has, once, the
tasks whose clients believe them registered, and its count is its length unless there are more
tasks than `MaxNum` (`Listed`; `NotLonger` bounds a list without repetitions by the
number of tasks that may be on it, so that the count is never cut off); and what
the work item has still to call is registered (`AtOK`, for which unregistering has to
wait for the semaphore). As ids are distinct, the first task that `SearchNode`
finds is the one meant. `TypeCorrect`, `RegisteredStayListed` and `WorkIsNeverLate` follow.

`IspBeBufProofs` proves the safety of the back-end buffers, for any number of nodes from two on (the
least `NodeNumAssumption` admits), any number of references and callers in any order:

* `UpTo` is the induction over numbers, from the least counterexample. With it `SumIs` and `OnlyIs` give the two
  recursive functions as what their loops have after each turn; `TotalUp` and `TotalDown` say
  what one reference more or less does to the sum, `OnlyMembers` that `Only` keeps the
  members that are in the set, none twice, and a last one that is in it.
* `Inductive`: `IInv`, which is `TypeOK`, `Phase` (which of the library's calls is under way in which state of
  the queue), `Setup` (while `ISP_DRV_BeBufInit` gives the nodes their addresses outside the
  lock, the interrupt thread has taken the first one at most), `Placed` (no
  node twice), `Counted` (the hold counts, the sum and what clients have are the same, and
  what they have is on the busy list) and `Fresh` (the busy list ends with the newest node, and
  with ordered callers every other one on it is held).
* `PutUseBusyStep` is the handing over of a node with the sweep of the busy list, `TakeStep` the taking of a
  new one, `HoldStep` a change of one hold count; `AsideInv` is for the steps that move no node. The
  functions of VI and VPSS differ in what they check and are put together from these.
* `TypeCorrect`, `NodesStayOnce`, `HoldsStayExact`, `LatestStays` follow, and the action property
  `LostOnlyByOverwrite`: a step leaves every node on a list or in use, but for the
  `pstUseNode` that is overwritten.

`MmzAllocatorProofs` proves every property of the run `allocator_aligned`, and that the one
`allocator_odd` violates holds there, for any zones that meet the conditions, any sizes and
alignments and any `Word`:

* `Inductive`: `IInv`, which is `TypeOK` and `InOrder` for each zone (each block
  ends before the next begins, all inside the zone). `GapStartIs` says where a gap begins,
  `RegionIsFree` that whatever gap is taken the region is free memory of the zone, and
  `InsertKeepsOrder`, `RemoveKeepsOrder` that the list stays in order.
* `BlocksStayDisjoint` adds `DisjointZones` for blocks of two zones; `NeverBad` follows too.
* `HolesAreFound` adds `NoZoneAtZero`: a hole lies in one gap, which fits (`HoleIsInGap`),
  so there is a best one; and a last gap that wraps around is longer than any that does not, so
  that the search never takes it for the best when there is another. The least gap exists by
  `LeastExists`, the library's well-founded minimum.
* The proof sharpened `AlignedZones`: an alignment and a size behind the end of a zone
  must not wrap around *together*. If each alone does not, `start + len` of an inner gap
  still may, and the gap is taken although a block is there.

`HifbRefreshProofs` proves every safety property of the run `hifb`, for a screen of any width and any
number of refreshes and other ioctls: `TypeCorrect`, `NeverTears`, `ScreenStaysAFrame` and
`ScreenNeverGoesBack`. `NoTearing` speaks of what the engine's jobs write to
and of the buffer in effect; both follow from `u32IndexForInt`, which the refresh reads and
the interrupt changes, so `IInv` says how the three stay together as long as `taint` is empty:

* `Shape`: a callback has a number, and between the choice of the idle buffer and the submission
  neither a flip nor a callback is expected.
* `Turning`: the register has the buffer of the index, or a `DOUBLE_IMMEDIATE` refresh waits for it with
  the engine idle (which is so because the blit before was waited for: one that was not leaves the mark `endjob`); from the interrupt to the frame start nothing draws; a flip is due only when the
  engine has no job left and no refresh has chosen a buffer.
* `Queued`: all jobs are for the idle buffer, and the handle `hifb_refresh_2buf` stored is
  the last job's, so that its callback comes when the queue is empty. `QueueIs` and `EndJobIs` give the four
  results of a blit; a job of a blit that failed is in the queue like any other.

For each action `...Is` says what it does to the fields, once, and `...Turns` that it keeps
`Turning` and `Queued`; `QueueStays` and `QueueGrows` do the second for every step of a refresh.

What is in the buffers needs more than the protocol of the flips, for a job draws long
after the refresh that asked for it. `Comes(q, m, s, c, v)` says, without recursion over the queue,
that the jobs of `q` will have cell `c` at `v`: the last one that covers it draws `v`, or none covers it and it has `v`.
`ComesPush` and `ComesPop` are what a new job and a finished one do to it. `Pictured` is then, while `taint` is empty:

* `Orderly`: copies come from the buffer of the index, an address read is still that
  buffer's, and no flip is due, nor can a late callback make one due, before something was drawn since the last one;
* `Complete`: the buffer of the index has the newest picture, but for the union rectangle of a flip that is
  not due yet (`Old`); the idle one *will* have it, but for what a later step still copies (`Missing`);
* `OnScreen`: what is scanned out, what comes with the next frame start and what the index
  names is each a picture of some refresh.

`PInv` adds it to `IInv`. Most steps leave the memory of the buffers and the queue alone (`PlainStep`); `CopyCompletes` and
`DrawCompletes` are the steps that queue a copy of the union and a drawing. `ScreenIsAFrame`
follows at once. For `ScreenGoesForward`, `ScreenStep` says that a step leaves the picture on the screen or
replaces it by the newest, `LastExists` that a picture has a last place among the frames (the least
element of a set of numbers), and `Later` that it does not go down.

Only model-checked are the five liveness properties (`CloseFrees`, `ExitDrains`, `TasksCalled`,
`NewestIsShown`, `Completes`) and what the three runs that expect a violation show. Every
invariant, action property and refinement of a passing run is a theorem. Liveness and
`ENABLED` are out of the prover's reach. So is an induction theorem that takes a predicate as a parameter: what `Only` and
`Total` of `IspBeBuf` compute, which are recursive functions, is proved from the least counterexample of a given set
instead (`SumIs`, `LastExists`), and `Comes` says what a queue of jobs draws without recursion.

## 5. What the checks found

Three disagreements between the code and what it says of itself, each with a run
that shows it (`findings` in `PROJECT.json`): the wrap-around of the allocator's first
gap, the focus copy from memory that is gone, and the reset of one
pipe that moves the bottom halves of all.

Others have no run of their own. The models contain them, as a step that ends the behaviour or leaves
a mark, or assume the opposite; `hazards` gives the lines:

* `ioctl_mmb_user_unmap` calls a mapped block with a count of 0 an "invalid refer"
  (`mmz-userdev.c:449`); `IOC_MMB_DEC_REF` and a failed cached unmap lead there by legal calls.
* the run-once ioctls use the back-end queue without asking whether there is one (`isp.c:5010`), and the
  interrupt thread asks before it takes the lock.
* a vertical timing interrupt between the wait for the frame start and the lock makes a
  refresh draw to the buffer being shown (`hifb_main.c:5251`), which the comment above it says is forbidden.
* a frame of the download that the ROM has is refused for ever when its number is the
  last of the numbering (`bootrom.cpp:3174`).
* a blit whose `end_job` fails returns the result of the cancel, success (`hifb_blit.c:511`): the refresh goes on
  as if it had been drawn.
* statistics that could not be read are published as the newest (`isp.c:1310`).
* a caller that leaves a count in the `mmb_info` of an allocation gets a block that no close of the file
  frees (`mmz-userdev.c:192`).
* the sync tasks of a list longer than `u32Num` counts, once enough of them are unregistered, are called no more
  (`isp_st.c:247`).
* sizes rounded across zones of one name, two registrations of one id at a time, the
  interrupt's walk over a list that changes.

One thing is as the code has it and still worth knowing: with the bottom half in
the thread, a wake-up merged with a pending one leaves an interrupt in the ring
for good, since each later run takes one entry and each later interrupt adds one.
So does a wake-up that the reset of another pipe makes void, and an entry that is refused.
`LateByLostRunOnly` says that nothing else does.

## 6. Not modelled, and what comes next

Two thirds of the lines are disassembly, register definitions, tables of sensor and image parameters, or
vendored code: straight-line code with no state to interleave. The user libraries check arguments and
issue an ioctl. `components` gives the reason for each part.

Of what has state, in the order of what it would add:

1. **MmbLease**: what a block promises whoever holds it (it exists while it is
   leased, and goes when the last lease ends), as an abstract specification that
   `MmzUserdev` implements, proved from `IInv`.
2. **IspStitch**: the buffers of `IspBeBuf` for the pipes of a stitch group, with
   `g_stIspSyncLock` and `g_stIspLock` as the two locks they are.
3. **IspSyncCfg**: the ring of sensor configurations, with `ISP_DRV_SyncCfgSet`
   filling a slot outside the lock; composed with `IspInterrupts`.
4. **MmzZones**: registration with the overlap check, which gives `MmzAllocator` its
   assumption `DisjointZones`; lookups by address and the cache ioctls, whose block may be gone when it is used
   (`mmz-userdev.c:656`), and a direct mmap without the semaphore (771).
5. **OsalWork**, **OsalWait**, **OsalDevice**: the unlocked list of work items and the destruction of
   a pending one (`osal_workqueue.c:95`); wait and wake-up; registration against open and release.
6. The other modes of the frame buffer: one buffer, and the fence thread.
