---------------------------- MODULE HifbRefresh ----------------------------
(***************************************************************************)
(* The two display buffers of one layer of the frame buffer driver         *)
(* (drivers/hifb/hifb_main.c): a caller draws a rectangle of its canvas    *)
(* into the buffer that is not shown, the 2D engine (TDE) does the blits   *)
(* in order and calls back, and the vertical timing interrupt of the video *)
(* output turns the layer to the buffer that was drawn.  The frame buffer  *)
(* core runs one ioctl of a layer at a time; the TDE callback and the      *)
(* interrupts come between any two steps of an ioctl.                      *)
(* One axis of the screen stands for both, a rectangle is an interval and  *)
(* the contents of a cell are the number of the refresh that drew it.      *)
(***************************************************************************)
EXTENDS Integers, Sequences

CONSTANTS Width,       \* cells along the axis
          MaxRefresh,  \* bound on the refreshes
          MaxPut       \* bound on the other ioctls

ASSUME HifbAssumption == Width \in Nat \ {0} /\ MaxRefresh \in Nat /\ MaxPut \in Nat

VARIABLES
    buf,     \* the memory of the two display buffers
    disp,    \* stDispBufInfo: u32IndexForInt, flip flags, union rectangle, handle
    par,     \* the other fields of HIFB_PAR_S
    vo,      \* the address register of the layer and the buffer being scanned out
    tde,     \* jobs submitted to the TDE, in order
    fin,     \* handles of the finished jobs whose callback has not run
    call,    \* the ioctl in progress and its locals
    frames,  \* history: the picture after each successful refresh
    taint    \* history: what took the run out of the protocol, if anything has
vars == <<buf, disp, par, vo, tde, fin, call, frames, taint>>

Cells == 0 .. Width - 1
Canvas == 2                     \* the caller's canvas as the source of a blit
Min2(a, b) == IF a < b THEN a ELSE b
Max2(a, b) == IF a > b THEN a ELSE b

NoRect == [x |-> 0, w |-> 0]
Rects == {r \in [x : Cells, w : 1 .. Width] : r.x + r.w <= Width}
Covers(r) == r.x .. r.x + r.w - 1
\* deviation: only the first corner is looked at
IsContainFirst(p, c) == c.x \in p.x .. p.x + p.w

IsContain(p, c) ==
    LET Inside(v) == v \in p.x .. p.x + p.w
    IN  Inside(c.x) /\ Inside(c.x + c.w)
\* deviation: the right edge is taken for the width
UniteRectEdge(a, b) ==
    IF a.w = 0 THEN b
    ELSE [x |-> Min2(a.x, b.x), w |-> Max2(a.x + a.w, b.x + b.w)]

UniteRect(a, b) ==
    IF a.w = 0 THEN b
    ELSE LET x == Min2(a.x, b.x)
         IN  [x |-> x, w |-> Max2(a.x + a.w, b.x + b.w) - x]

Draw(mem, job) ==
    [mem EXCEPT ![job.dst] = [c \in Cells |->
        IF c \notin Covers(job.rect) THEN @[c]
        ELSE IF job.src = Canvas THEN job.num ELSE mem[job.src][c]]]

NoCall == [pc |-> "idle", rect |-> NoRect, osd |-> 0, idle |-> 0]
At(p) == call.pc = p
Goto(p) == call' = [call EXCEPT !.pc = p]
Newest == frames[Len(frames)]
Drawn == [c \in Cells |-> IF c \in Covers(call.rect) THEN par.num ELSE Newest[c]]
\* The history says what first took the run out of the protocol, and ends there:
\* the layer turned while the address was read ("race"), a wait that timed out, a
\* mode changed after a refresh ("switch"), a refresh whose blit failed, a blit
\* reported as done whose job was taken back ("endjob").
Mark(why) == taint' = IF taint = {} THEN why ELSE taint
Record == frames' = IF taint' = {} THEN Append(frames, Drawn) ELSE frames

Init ==
    /\ buf = [b \in 0 .. 1 |-> [c \in Cells |-> 0]]
    /\ disp = [index |-> 0, needFlip |-> FALSE, fliped |-> FALSE,
               union |-> NoRect, handle |-> 0]
    /\ \E m \in {"DOUBLE", "IMMEDIATE"} :
           par = [mode |-> m, modifying |-> FALSE, addrMask |-> FALSE,
                  screenAddr |-> 0, show |-> TRUE, doRefresh |-> TRUE,
                  vblflag |-> FALSE, num |-> 0, puts |-> 0, ok |-> TRUE]
    /\ vo = [reg |-> 0, live |-> 0]
    /\ tde = <<>> /\ fin = <<>>
    /\ call = NoCall
    /\ frames = <<[c \in Cells |-> 0]>>
    /\ taint = {}

(***************************************************************************)
(* FBIO_REFRESH.  The call waits until the frame has started, for 40 ms at *)
(* most and whatever the result; u32RefreshNum counts it.                  *)
(***************************************************************************)
Refresh ==
    /\ At("idle") /\ par.num < MaxRefresh
    /\ \E r \in Rects : call' = [NoCall EXCEPT !.pc = "gate", !.rect = r,
                                               !.idle = 1 - disp.index]
    /\ UNCHANGED <<buf, disp, par, vo, tde, fin, frames, taint>>

PassGate ==
    /\ At("gate")
    /\ par' = [par EXCEPT !.num = @ + 1]
    /\ Mark(IF par.doRefresh THEN {} ELSE {"timeout"})
    /\ Goto(IF par.mode = "DOUBLE" THEN "addr" ELSE "ilock")
    /\ UNCHANGED <<buf, disp, vo, tde, fin, frames>>

\* a refresh returns, with s32Ret < 0 when a blit failed
Return(ok) ==
    /\ call' = NoCall
    /\ par' = [par EXCEPT !.ok = ok]

(***************************************************************************)
(* HIFB_LAYER_BUF_DOUBLE: hifb_refresh_2buf.  The address the layer has is *)
(* read first; the register may give the address written or the one in     *)
(* effect.                                                                 *)
(***************************************************************************)
GetLayerAddr ==
    /\ At("addr")
    /\ \E a \in {vo.reg, vo.live} : call' = [call EXCEPT !.osd = a, !.pc = "pick"]
    /\ UNCHANGED <<buf, disp, par, vo, tde, fin, frames, taint>>

\* deviation: a flip that is due stays so
PickIdleKeepsFlip ==
    /\ At("pick")
    /\ disp' = [disp EXCEPT !.handle = 0]
    /\ call' = [call EXCEPT !.idle = 1 - disp.index, !.pc = "copy"]
    /\ UNCHANGED <<buf, par, vo, tde, fin, frames, taint>>

PickIdle ==
    /\ At("pick")
    /\ disp' = [disp EXCEPT !.needFlip = FALSE, !.handle = 0]
    /\ call' = [call EXCEPT !.idle = 1 - disp.index, !.pc = "copy"]
    /\ UNCHANGED <<buf, par, vo, tde, fin, frames, taint>>

CopyJob(from) == [src |-> from, dst |-> call.idle, rect |-> disp.union, num |-> 0]
DrawJob == [src |-> Canvas, dst |-> call.idle, rect |-> call.rect, num |-> par.num]

(***************************************************************************)
(* HIFB_DRV_Blit returns ok and has queued a job, or not.  After a failed  *)
(* end_job it returns what cancel_job returns: success when the job is     *)
(* gone, failure when it has been submitted after all.                     *)
(***************************************************************************)
Queue(job, j) == tde' = IF job THEN Append(tde, j) ELSE tde
EndJob(ok, job) == IF ok /\ ~job THEN {"endjob"} ELSE {}

\* what the last flips left out of the idle buffer is copied to it
CopyUnion(job) ==
    LET must == disp.fliped /\ call.osd = disp.index
        copy == must /\ ~IsContain(call.rect, disp.union)
    IN  /\ At("copy")
        /\ Queue(copy /\ job, CopyJob(disp.index))
        /\ disp' = IF must THEN [disp EXCEPT !.union = NoRect, !.fliped = FALSE]
                           ELSE disp
        /\ Mark(IF copy THEN EndJob(TRUE, job) ELSE {})
        /\ Goto("submit")
        /\ UNCHANGED <<buf, par, vo, fin, frames>>

CopyUnionFails(job) ==
    /\ At("copy") /\ disp.fliped /\ call.osd = disp.index
    /\ ~IsContain(call.rect, disp.union)
    /\ Queue(job, CopyJob(disp.index))
    /\ Return(FALSE)
    /\ UNCHANGED <<buf, disp, vo, fin, frames, taint>>

\* deviation: the handle is not stored
SubmitNoHandle(ok, job) ==
    /\ At("submit")
    /\ disp' = [disp EXCEPT !.union = UniteRect(@, call.rect)]
    /\ Queue(job, DrawJob)
    /\ Mark(IF ok THEN EndJob(ok, job) ELSE {"failed"})
    /\ Record
    /\ Return(ok)
    /\ UNCHANGED <<buf, vo, fin>>

\* the handle is stored between begin_job and end_job
Submit(ok, job) ==
    /\ At("submit")
    /\ disp' = [disp EXCEPT !.union = UniteRect(@, call.rect), !.handle = par.num]
    /\ Queue(job, DrawJob)
    /\ Mark(IF ok THEN EndJob(ok, job) ELSE {"failed"})
    /\ Record
    /\ Return(ok)
    /\ UNCHANGED <<buf, vo, fin>>

(***************************************************************************)
(* HIFB_LAYER_BUF_DOUBLE_IMMEDIATE: the blit is waited for, the caller     *)
(* turns the layer itself and waits until the interrupt has set the        *)
(* address.  The index is the one read when the call began.                *)
(***************************************************************************)
ImmediateLock ==
    /\ At("ilock")
    /\ disp' = [disp EXCEPT !.fliped = FALSE, !.needFlip = FALSE, !.handle = 0]
    /\ Goto(IF disp.union.w > 0 /\ ~IsContain(call.rect, disp.union)
            THEN "icopy" ELSE "iblit")
    /\ UNCHANGED <<buf, par, vo, tde, fin, frames, taint>>

ImmediateCopy(ok, job) ==
    /\ At("icopy")
    /\ Queue(job, CopyJob(1 - call.idle))
    /\ Mark(EndJob(ok, job))
    /\ IF ok THEN Goto("iblit") /\ UNCHANGED par ELSE Return(FALSE)
    /\ UNCHANGED <<buf, disp, vo, fin, frames>>

\* the blit that waits for its job returns at once when it has none
ImmediateBlit(ok, job) ==
    /\ At("iblit")
    /\ disp' = [disp EXCEPT !.union = call.rect, !.handle = par.num]
    /\ Queue(job, DrawJob)
    /\ Mark(EndJob(ok, job))
    /\ IF ok THEN Goto(IF job THEN "iblock" ELSE "iswap") /\ UNCHANGED par
             ELSE Return(FALSE)
    /\ UNCHANGED <<buf, vo, fin, frames>>

ImmediateSwap ==
    /\ At("iswap") \/ (At("iblock") /\ tde = <<>> /\ fin = <<>>)
    /\ disp' = [disp EXCEPT !.index = call.idle]
    /\ par' = [par EXCEPT !.modifying = FALSE, !.addrMask = TRUE,
                          !.screenAddr = call.idle, !.vblflag = FALSE]
    /\ UNCHANGED taint
    /\ Record
    /\ Goto("ivbl")
    /\ UNCHANGED <<buf, vo, tde, fin>>

\* hifb_wait_regconfig_work clears the flag again before it waits
ImmediateClearVbl ==
    /\ At("ivbl")
    /\ par' = [par EXCEPT !.vblflag = FALSE]
    /\ Goto("iwait")
    /\ UNCHANGED <<buf, disp, vo, tde, fin, frames, taint>>

ImmediateReturn ==
    /\ At("iwait")
    /\ Return(TRUE)
    /\ Mark(IF par.vblflag THEN {} ELSE {"timeout"})
    /\ UNCHANGED <<buf, disp, vo, tde, fin, frames>>

(***************************************************************************)
(* FBIOPUT_LAYER_INFO with a buffer mode and a size, FBIOPUT_SHOW_HIFB.    *)
(* The sizes are set after the lock is released; a size the layer refuses  *)
(* makes the call return before bModifying is reset.                       *)
(***************************************************************************)
PutLayerInfo ==
    /\ At("idle") /\ par.puts < MaxPut
    /\ \E m \in {"DOUBLE", "IMMEDIATE"} :
         /\ par' = [par EXCEPT !.modifying = TRUE, !.mode = m, !.puts = @ + 1]
         /\ Mark(IF m = par.mode \/ par.num = 0 THEN {} ELSE {"switch"})
    /\ Goto("size")
    /\ UNCHANGED <<buf, disp, vo, tde, fin, frames>>

PutSize(ok) ==
    /\ At("size")
    /\ par' = IF ok THEN [par EXCEPT !.modifying = FALSE] ELSE par
    /\ Goto("idle")
    /\ UNCHANGED <<buf, disp, vo, tde, fin, frames, taint>>

PutShow ==
    /\ At("idle") /\ par.puts < MaxPut
    /\ par' = [par EXCEPT !.show = ~@, !.modifying = FALSE, !.puts = @ + 1]
    /\ UNCHANGED <<buf, disp, vo, tde, fin, call, frames, taint>>

(***************************************************************************)
(* The 2D engine finishes its jobs in the order they were given; the       *)
(* callback of a job that has one comes later, under the lock.             *)
(***************************************************************************)
TdeFinish ==
    /\ tde # <<>>
    /\ buf' = Draw(buf, Head(tde))
    /\ tde' = Tail(tde)
    /\ fin' = IF Head(tde).src = Canvas THEN Append(fin, Head(tde).num) ELSE fin
    /\ UNCHANGED <<disp, par, vo, call, frames, taint>>

TdeCallback ==
    /\ fin # <<>>
    /\ fin' = Tail(fin)
    /\ disp' = IF par.mode = "DOUBLE" /\ disp.handle = Head(fin)
               THEN [disp EXCEPT !.needFlip = TRUE] ELSE disp
    /\ UNCHANGED <<buf, par, vo, tde, call, frames, taint>>

(***************************************************************************)
(* The vertical timing interrupt closes the gate and runs hifb_vo_callback *)
(* under the lock; the registers take effect at the frame start, whose     *)
(* interrupt opens the gate.                                               *)
(***************************************************************************)
\* deviation: the flip stays due
VoUpdateKeepsFlip ==
    LET at == IF par.addrMask THEN par.screenAddr ELSE disp.index
        flip == par.mode = "DOUBLE" /\ disp.needFlip
        to == IF flip THEN 1 - at ELSE at
    IN  /\ disp' = [disp EXCEPT !.index = to, !.fliped = @ \/ flip]
        /\ vo' = IF flip \/ par.addrMask THEN [vo EXCEPT !.reg = to] ELSE vo
        /\ par' = [par EXCEPT !.doRefresh = FALSE, !.vblflag = TRUE,
                              !.addrMask = FALSE,
                              !.screenAddr = IF flip THEN to ELSE @]
        /\ Mark(IF flip /\ call.pc \in {"addr", "pick"} THEN {"race"} ELSE {})

VoUpdate ==
    LET at == IF par.addrMask THEN par.screenAddr ELSE disp.index
        flip == par.mode = "DOUBLE" /\ disp.needFlip
        to == IF flip THEN 1 - at ELSE at
    IN  /\ disp' = [disp EXCEPT !.index = to, !.fliped = @ \/ flip, !.needFlip = @ /\ ~flip]
        /\ vo' = IF flip \/ par.addrMask THEN [vo EXCEPT !.reg = to] ELSE vo
        /\ par' = [par EXCEPT !.doRefresh = FALSE, !.vblflag = TRUE,
                              !.addrMask = FALSE,
                              !.screenAddr = IF flip THEN to ELSE @]
        /\ Mark(IF flip /\ call.pc \in {"addr", "pick"} THEN {"race"} ELSE {})

VerticalTiming ==
    /\ par.doRefresh
    /\ IF par.show /\ ~par.modifying
       THEN VoUpdate
       ELSE /\ par' = [par EXCEPT !.doRefresh = FALSE, !.vblflag = @ \/ par.show]
            /\ UNCHANGED <<disp, vo, taint>>
    /\ UNCHANGED <<buf, tde, fin, call, frames>>

FrameStart ==
    /\ ~par.doRefresh
    /\ vo' = [vo EXCEPT !.live = vo.reg]
    /\ par' = [par EXCEPT !.doRefresh = TRUE]
    /\ UNCHANGED <<buf, disp, tde, fin, call, frames, taint>>

Ioctl == \/ PassGate \/ GetLayerAddr \/ PickIdle
         \/ ImmediateLock \/ ImmediateSwap \/ ImmediateClearVbl \/ ImmediateReturn
         \/ \E job \in BOOLEAN : CopyUnion(job) \/ CopyUnionFails(job)
         \/ \E ok, job \in BOOLEAN : \/ Submit(ok, job) \/ ImmediateCopy(ok, job)
                                     \/ ImmediateBlit(ok, job)
         \/ \E ok \in BOOLEAN : PutSize(ok)
Next == \/ Refresh \/ PutLayerInfo \/ PutShow \/ Ioctl
        \/ TdeFinish \/ TdeCallback \/ VerticalTiming \/ FrameStart

\* the interrupts keep coming, the engine works and an ioctl goes on
Fairness == /\ WF_vars(Ioctl) /\ WF_vars(TdeFinish) /\ WF_vars(TdeCallback)
            /\ WF_vars(VerticalTiming) /\ WF_vars(FrameStart)
Spec == Init /\ [][Next]_vars /\ Fairness
-----------------------------------------------------------------------------
Buffers == 0 .. 1
Pictures == [Cells -> 0 .. MaxRefresh]
Job == [src : 0 .. 2, dst : Buffers, rect : Rects, num : 0 .. MaxRefresh]

\* Types of the layer, of the engine's queue and of the call in progress.
TypeOK ==
    /\ buf \in [Buffers -> Pictures]
    /\ disp \in [index : Buffers, needFlip : BOOLEAN, fliped : BOOLEAN,
                 union : Rects \cup {NoRect}, handle : 0 .. MaxRefresh]
    /\ vo \in [reg : Buffers, live : Buffers]
    /\ par \in [mode : {"DOUBLE", "IMMEDIATE"}, modifying : BOOLEAN,
                addrMask : BOOLEAN, screenAddr : Buffers, show : BOOLEAN,
                doRefresh : BOOLEAN, vblflag : BOOLEAN, num : 0 .. MaxRefresh,
                puts : 0 .. MaxPut, ok : BOOLEAN]
    /\ call \in [pc : {"idle", "gate", "addr", "pick", "copy", "submit", "ilock",
                       "icopy", "iblit", "iblock", "iswap", "ivbl", "iwait",
                       "size"},
                 rect : Rects \cup {NoRect}, osd : Buffers, idle : Buffers]
    /\ tde \in Seq(Job) /\ fin \in Seq(1 .. MaxRefresh) /\ frames \in Seq(Pictures)
    /\ taint \subseteq {"race", "timeout", "switch", "failed", "endjob"}

\* What is on the screen is the picture after some refresh, never a part of
\* one and never one refresh without an earlier one; and between two calls the
\* buffers differ in the union rectangle only, so that the next copy makes the
\* idle one complete (hifb_refresh_2buf copies it, hifb_vo_callback flips after
\* the callback only).  It also survives a blit that is reported as failed and drawn
\* all the same, not one reported as done and taken back (hifb_blit.c:511).
ScreenIsAFrame ==
    taint = {} =>
        /\ \E k \in DOMAIN frames : buf[vo.live] = frames[k]
        /\ At("idle") /\ tde = <<>> =>
               \A c \in Cells \ Covers(disp.union) : buf[0][c] = buf[1][c]

\* No blit is under way into the buffer that is scanned out: the refresh that
\* waits for doRefreshJob draws into the other one, unless the interrupt turned
\* the layer after that, the wait timed out (hifb_main.c:5246) or a blit came back
\* without being waited for (hifb_blit.c:511).
NoTearing == taint = {} => \A i \in DOMAIN tde : tde[i].dst # vo.live

\* The screen never goes back to an older picture.
LatestShown == CHOOSE k \in 0 .. Len(frames) :
    /\ k > 0 => buf[vo.live] = frames[k]
    /\ \A j \in k + 1 .. Len(frames) : buf[vo.live] # frames[j]
ScreenGoesForward == [][taint' = {} => LatestShown' >= LatestShown]_vars

\* The last picture comes to the screen and stays, if the layer is shown, no
\* call has left bModifying set and the last refresh neither failed nor was taken
\* back from the engine.
NewestIsShown ==
    <>[](taint = {} /\ par.show /\ ~par.modifying /\ par.ok) => <>[](buf[vo.live] = Newest)
=============================================================================
