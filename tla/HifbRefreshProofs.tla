------------------------- MODULE HifbRefreshProofs -------------------------
(***************************************************************************)
(* Proofs about HifbRefresh, for a screen of any width and any number of     *)
(* refreshes and other ioctls.                                              *)
(***************************************************************************)
EXTENDS HifbRefresh, SequenceTheorems, WellFoundedInduction, TLAPS

Places == {"idle", "gate", "addr", "pick", "copy", "submit", "ilock",
           "icopy", "iblit", "iblock", "iswap", "ivbl", "iwait", "size"}
Areas == Rects \cup {NoRect}
Nums == 0 .. MaxRefresh
Disps == [index : Buffers, needFlip : BOOLEAN, fliped : BOOLEAN, union : Areas, handle : Nums]
Pars == [mode : {"DOUBLE", "IMMEDIATE"}, modifying : BOOLEAN, addrMask : BOOLEAN,
         screenAddr : Buffers, show : BOOLEAN, doRefresh : BOOLEAN, vblflag : BOOLEAN,
         num : Nums, puts : 0 .. MaxPut, ok : BOOLEAN]
Vos == [reg : Buffers, live : Buffers]
Calls == [pc : Places, rect : Areas, osd : Buffers, idle : Buffers]

\* what the types do not say: a callback has a number, a refresh a rectangle, and
\* whatever makes a flip due has left something to copy
Drawing == {"gate", "addr", "pick", "copy", "submit", "ilock", "icopy", "iblit", "iblock",
            "iswap", "ivbl", "iwait"}
Numbered(q) == \A i \in 1 .. Len(q) : q[i].src = Canvas => q[i].num # 0

Shape ==
    /\ frames # <<>>
    /\ Numbered(tde)
    /\ par.num = 0 => call.pc \in {"idle", "gate", "size"}
    /\ call.pc \in Drawing => call.rect \in Rects
    /\ call.pc \in {"copy", "submit"} => disp.handle = 0 /\ ~disp.needFlip
    /\ disp.handle # 0 \/ disp.needFlip \/ disp.fliped => disp.union # NoRect
    /\ call.pc = "icopy" => disp.union # NoRect
    /\ call.pc = "gate" => par.num < MaxRefresh

Types ==
    /\ buf \in [Buffers -> Pictures]
    /\ disp \in Disps /\ vo \in Vos /\ par \in Pars /\ call \in Calls
    /\ tde \in Seq(Job) /\ fin \in Seq(1 .. MaxRefresh) /\ frames \in Seq(Pictures)
    /\ taint \subseteq {"race", "timeout", "switch", "failed", "endjob"}

TInv == Types /\ Shape

LEMMA TypesAre == TypeOK <=> Types
  BY DEF TypeOK, Types, Disps, Vos, Pars, Calls, Places, Areas, Nums

-----------------------------------------------------------------------------
(***************************************************************************)
(* Rectangles and jobs.                                                     *)
(***************************************************************************)
LEMMA RectIs == ASSUME NEW r \in Rects
                PROVE  /\ r.x \in Nat /\ r.w \in Nat /\ r.w > 0 /\ r.x + r.w <= Width
                       /\ r = [x |-> r.x, w |-> r.w] /\ r # NoRect
  BY HifbAssumption DEF Rects, Cells, NoRect

LEMMA UnionIs == ASSUME NEW a \in Areas, NEW b \in Rects
                 PROVE  UniteRect(a, b) \in Rects
<1>1. CASE a = NoRect
  BY <1>1 DEF UniteRect, NoRect
<1>2. CASE a \in Rects
  <2>1. /\ a.x \in Nat /\ a.w \in Nat /\ a.w > 0 /\ a.x + a.w <= Width
        /\ b.x \in Nat /\ b.w \in Nat /\ b.w > 0 /\ b.x + b.w <= Width
        /\ Width \in Nat
    BY <1>2, RectIs, HifbAssumption
  <2> DEFINE x == Min2(a.x, b.x)
             w == Max2(a.x + a.w, b.x + b.w) - x
  <2>2. x \in Nat /\ x < Width /\ w \in 1 .. Width /\ x + w <= Width
    BY <2>1 DEF Min2, Max2
  <2>3. UniteRect(a, b) = [x |-> x, w |-> w]
    BY <2>1 DEF UniteRect
  <2> HIDE DEF x, w
  <2> QED
    BY <2>1, <2>2, <2>3 DEF Rects, Cells
<1> QED
  BY <1>1, <1>2 DEF Areas

LEMMA DrawIs == ASSUME NEW m \in [Buffers -> Pictures], NEW j \in Job
                PROVE  Draw(m, j) \in [Buffers -> Pictures]
<1>1. j.src \in 0 .. 2 /\ j.dst \in Buffers /\ j.num \in 0 .. MaxRefresh
  BY DEF Job
<1>2. j.src # Canvas => m[j.src] \in Pictures
  BY <1>1 DEF Canvas, Buffers
<1>3. [c \in Cells |-> IF c \notin Covers(j.rect) THEN m[j.dst][c]
                       ELSE IF j.src = Canvas THEN j.num ELSE m[j.src][c]] \in Pictures
  BY <1>1, <1>2 DEF Pictures
<1> QED
  BY <1>1, <1>3 DEF Draw
-----------------------------------------------------------------------------
(***************************************************************************)
(* Types.                                                                   *)
(***************************************************************************)
\* a step of a call that only goes on to p
LEMMA GotoIs == ASSUME call \in Calls, NEW p \in Places, Goto(p)
                PROVE  /\ call' \in Calls /\ call'.pc = p /\ call'.rect = call.rect
                       /\ call'.osd = call.osd /\ call'.idle = call.idle
  BY DEF Goto, Calls

LEMMA NoCallIs == /\ NoCall \in Calls /\ NoCall.pc = "idle"
  BY DEF NoCall, Calls, Places, Areas, Buffers

LEMMA OtherBuffer == ASSUME NEW b \in Buffers PROVE 1 - b \in Buffers /\ 1 - b # b /\ 1 - (1 - b) = b
  BY DEF Buffers

LEMMA TInit == Init => TInv
<1> SUFFICES ASSUME Init PROVE TInv
  OBVIOUS
<1>1. Width \in Nat /\ MaxRefresh \in Nat /\ MaxPut \in Nat
  BY HifbAssumption
<1>2. [c \in Cells |-> 0] \in Pictures
  BY <1>1 DEF Pictures
<1>3. buf \in [Buffers -> Pictures]
  BY <1>2 DEF Init, Buffers
<1>4. disp \in Disps
  BY <1>1 DEF Init, Disps, Buffers, Areas, Nums
<1>5. par \in Pars /\ par.num = 0
  BY <1>1 DEF Init, Pars, Buffers, Nums
<1>6. vo \in Vos
  BY DEF Init, Vos, Buffers
<1>7. frames \in Seq(Pictures) /\ frames # <<>>
  BY <1>2 DEF Init
<1>8. call \in Calls /\ call.pc = "idle"
  BY NoCallIs DEF Init
<1>9. Types
  BY <1>3, <1>4, <1>5, <1>6, <1>7, <1>8 DEF Init, Types
<1>10. Shape
  BY <1>1, <1>5, <1>7, <1>8 DEF Init, Shape, Numbered, Drawing
<1> QED
  BY <1>9, <1>10 DEF TInv

-----------------------------------------------------------------------------
(***************************************************************************)
(* What each step does to the fields of the records.                        *)
(***************************************************************************)
LEMMA ParIs == ASSUME NEW p \in Pars
               PROVE  /\ p.mode \in {"DOUBLE", "IMMEDIATE"} /\ p.modifying \in BOOLEAN
                      /\ p.addrMask \in BOOLEAN /\ p.screenAddr \in Buffers /\ p.show \in BOOLEAN
                      /\ p.doRefresh \in BOOLEAN /\ p.vblflag \in BOOLEAN /\ p.num \in Nums
                      /\ p.puts \in 0 .. MaxPut /\ p.ok \in BOOLEAN
  BY DEF Pars

LEMMA DispIs == ASSUME NEW d \in Disps
                PROVE  /\ d.index \in Buffers /\ d.needFlip \in BOOLEAN /\ d.fliped \in BOOLEAN
                       /\ d.union \in Areas /\ d.handle \in Nums
  BY DEF Disps

LEMMA CallIs == ASSUME NEW c \in Calls
                PROVE  /\ c.pc \in Places /\ c.rect \in Areas
                       /\ c.osd \in Buffers /\ c.idle \in Buffers
  BY DEF Calls

\* the fields of par that the interrupts look at
Keeps(p, q) == /\ q.mode = p.mode /\ q.modifying = p.modifying /\ q.addrMask = p.addrMask
               /\ q.screenAddr = p.screenAddr /\ q.show = p.show
               /\ q.doRefresh = p.doRefresh /\ q.vblflag = p.vblflag

Taints == {"race", "timeout", "switch", "failed", "endjob"}

LEMMA MarkIs == ASSUME taint \subseteq Taints, NEW why, why \subseteq Taints, Mark(why)
                PROVE  taint' \subseteq Taints /\ (taint' = {} => taint = {} /\ why = {})
  BY Zenon DEF Mark

LEMMA EndJobIs == ASSUME NEW ok \in BOOLEAN, NEW job \in BOOLEAN
                  PROVE  EndJob(ok, job) \subseteq Taints /\ (EndJob(ok, job) = {} => (ok => job))
  BY DEF EndJob, Taints

\* a blit queues its job or does not, and the caller goes on only if it has
LEMMA QueueIs == ASSUME NEW job \in BOOLEAN, NEW j, Queue(job, j)
                 PROVE  /\ tde' = tde \/ tde' = Append(tde, j)
                        /\ job => tde' = Append(tde, j)
                        /\ ~job => tde' = tde
  BY DEF Queue

LEMMA RefreshIs ==
    ASSUME TInv, Refresh
    PROVE  /\ call.pc = "idle" /\ par.num < MaxRefresh
           /\ UNCHANGED <<buf, disp, par, vo, tde, fin, frames, taint>>
           /\ call' \in Calls /\ call'.pc = "gate" /\ call'.rect \in Rects
           /\ call'.idle = 1 - disp.index
<1>1. PICK r \in Rects : call' = [NoCall EXCEPT !.pc = "gate", !.rect = r, !.idle = 1 - disp.index]
  BY DEF Refresh
<1>2. 1 - disp.index \in Buffers
  BY OtherBuffer, DispIs DEF TInv, Types
<1>3. call' = [pc |-> "gate", rect |-> r, osd |-> 0, idle |-> 1 - disp.index]
  BY <1>1 DEF NoCall
<1>4. call' \in Calls
  BY <1>2, <1>3 DEF Calls, Places, Areas, Buffers
<1>5. call'.pc = "gate" /\ call'.rect = r /\ call'.idle = 1 - disp.index
  BY <1>3
<1> QED
  BY <1>4, <1>5 DEF Refresh, At

LEMMA PassGateIs ==
    ASSUME TInv, PassGate
    PROVE  /\ call.pc = "gate" /\ UNCHANGED <<buf, disp, vo, tde, fin, frames>>
           /\ call' \in Calls /\ call'.pc = (IF par.mode = "DOUBLE" THEN "addr" ELSE "ilock")
           /\ call'.rect = call.rect /\ call'.idle = call.idle
           /\ par' \in Pars /\ par'.num = par.num + 1 /\ Keeps(par, par')
           /\ taint' \subseteq Taints
           /\ taint' = {} => taint = {} /\ par.doRefresh
<1> DEFINE p == IF par.mode = "DOUBLE" THEN "addr" ELSE "ilock"
<1>1. call \in Calls /\ call.pc = "gate" /\ par \in Pars /\ p \in Places /\ par.num < MaxRefresh
  BY DEF TInv, Types, Shape, PassGate, At, Places
<1>2. call' \in Calls /\ call'.pc = p /\ call'.rect = call.rect /\ call'.idle = call.idle
  BY <1>1, GotoIs DEF PassGate
<1>3. par' = [par EXCEPT !.num = @ + 1] /\ par.num + 1 \in Nums
  BY <1>1, ParIs, HifbAssumption DEF PassGate, Nums
<1>4. par' \in Pars
  BY <1>1, <1>3 DEF Pars
<1>5. par'.num = par.num + 1 /\ Keeps(par, par')
  BY <1>1, <1>3 DEF Pars, Keeps
<1>6. /\ taint' \subseteq Taints
      /\ taint' = {} => taint = {} /\ par.doRefresh
  BY MarkIs DEF PassGate, TInv, Types, Taints
<1> QED
  BY <1>1, <1>2, <1>4, <1>5, <1>6 DEF PassGate

LEMMA GetLayerAddrIs ==
    ASSUME TInv, GetLayerAddr
    PROVE  /\ call.pc = "addr" /\ UNCHANGED <<buf, disp, par, vo, tde, fin, frames, taint>>
           /\ call' \in Calls /\ call'.pc = "pick" /\ call'.osd \in {vo.reg, vo.live}
           /\ call'.rect = call.rect /\ call'.idle = call.idle
<1>1. call \in Calls /\ vo \in Vos
  BY DEF TInv, Types
<1>2. PICK a \in {vo.reg, vo.live} : call' = [call EXCEPT !.osd = a, !.pc = "pick"]
  BY DEF GetLayerAddr
<1>3. a \in Buffers
  BY <1>1 DEF Vos
<1>4. /\ call' \in Calls /\ call'.pc = "pick" /\ call'.osd = a
      /\ call'.rect = call.rect /\ call'.idle = call.idle
  BY <1>1, <1>2, <1>3 DEF Calls, Places
<1> QED
  BY <1>4 DEF GetLayerAddr, At

LEMMA PickIdleIs ==
    ASSUME TInv, PickIdle
    PROVE  /\ call.pc = "pick" /\ UNCHANGED <<buf, par, vo, tde, fin, frames, taint>>
           /\ call' \in Calls /\ call'.pc = "copy" /\ call'.osd = call.osd
           /\ call'.rect = call.rect /\ call'.idle = 1 - disp.index
           /\ disp' \in Disps /\ disp'.index = disp.index
           /\ disp'.handle = 0 /\ disp'.needFlip = FALSE
           /\ disp'.fliped = disp.fliped /\ disp'.union = disp.union
<1>1. call \in Calls /\ disp \in Disps
  BY DEF TInv, Types
<1>2. 1 - disp.index \in Buffers
  BY <1>1, OtherBuffer, DispIs
<1>3. /\ call' \in Calls /\ call'.pc = "copy" /\ call'.osd = call.osd
      /\ call'.rect = call.rect /\ call'.idle = 1 - disp.index
  BY <1>1, <1>2 DEF PickIdle, Calls, Places
<1>4. disp' = [disp EXCEPT !.needFlip = FALSE, !.handle = 0] /\ 0 \in Nums
  BY HifbAssumption DEF PickIdle, Nums
<1>5. disp' \in Disps
  BY <1>1, <1>4 DEF Disps
<1>6. /\ disp'.index = disp.index /\ disp'.handle = 0 /\ disp'.needFlip = FALSE
      /\ disp'.fliped = disp.fliped /\ disp'.union = disp.union
  BY <1>1, <1>4 DEF Disps
<1> QED
  BY <1>3, <1>5, <1>6 DEF PickIdle, At

LEMMA JobAppended ==
    ASSUME NEW q \in Seq(Job), Numbered(q), NEW j \in Job, j.src = Canvas => j.num # 0
    PROVE  /\ Append(q, j) \in Seq(Job) /\ Numbered(Append(q, j))
           /\ Len(Append(q, j)) = Len(q) + 1 /\ Len(q) \in Nat
           /\ \A i \in 1 .. Len(q) : Append(q, j)[i] = q[i]
           /\ Append(q, j)[Len(q) + 1] = j
<1>1. /\ Append(q, j) \in Seq(Job) /\ Len(Append(q, j)) = Len(q) + 1 /\ Len(q) \in Nat
      /\ \A i \in 1 .. Len(q) : Append(q, j)[i] = q[i]
      /\ Append(q, j)[Len(q) + 1] = j
  OBVIOUS
<1>2. Numbered(Append(q, j))
  BY <1>1 DEF Numbered
<1> QED
  BY <1>1, <1>2

LEMMA CopyUnionIs ==
    ASSUME TInv, NEW job \in BOOLEAN, CopyUnion(job)
    PROVE  /\ call.pc = "copy" /\ UNCHANGED <<buf, par, vo, fin, frames>>
           /\ taint' \subseteq Taints /\ (taint' = {} => taint = {})
           /\ call' \in Calls /\ call'.pc = "submit"
           /\ call'.rect = call.rect /\ call'.idle = call.idle
           /\ disp' \in Disps /\ disp'.index = disp.index
           /\ disp'.handle = disp.handle /\ disp'.needFlip = disp.needFlip
           /\ disp'.fliped => disp'.union # NoRect
           /\ disp.fliped /\ call.osd = disp.index => disp'.union = NoRect /\ ~disp'.fliped
           /\ ~(disp.fliped /\ call.osd = disp.index) =>
                disp'.union = disp.union /\ disp'.fliped = disp.fliped
           /\ \/ tde' = tde /\ (disp.fliped /\ call.osd = disp.index /\ taint' = {} =>
                                  disp.union \in Rects /\ IsContain(call.rect, disp.union))
              \/ /\ disp.fliped /\ call.osd = disp.index
                 /\ \E j \in Job : /\ tde' = Append(tde, j) /\ j.src # Canvas /\ j.dst = call.idle
                                   /\ j.src = disp.index /\ j.rect = disp.union
<1> DEFINE must == disp.fliped /\ call.osd = disp.index
           copy == must /\ ~IsContain(call.rect, disp.union)
<1>1. call \in Calls /\ disp \in Disps /\ call.pc = "copy"
  BY DEF TInv, Types, CopyUnion, At
<1>2. call' \in Calls /\ call'.pc = "submit" /\ call'.rect = call.rect /\ call'.idle = call.idle
  BY <1>1, GotoIs DEF CopyUnion, Places
<1>3. /\ disp' = IF must THEN [disp EXCEPT !.union = NoRect, !.fliped = FALSE] ELSE disp
      /\ tde' = IF copy /\ job THEN Append(tde, CopyJob(disp.index)) ELSE tde
  BY DEF CopyUnion, Queue
<1>4. disp.fliped => disp.union # NoRect
  BY DEF TInv, Shape
<1>5. disp' \in Disps
  BY <1>1, <1>3 DEF Disps, Areas
<1>6. /\ disp'.index = disp.index /\ disp'.handle = disp.handle
      /\ disp'.needFlip = disp.needFlip
      /\ disp'.fliped => disp'.union # NoRect
      /\ must => disp'.union = NoRect /\ ~disp'.fliped
      /\ ~must => disp'.union = disp.union /\ disp'.fliped = disp.fliped
  BY <1>1, <1>3, <1>4 DEF Disps
<1>7. ASSUME must
      PROVE  /\ CopyJob(disp.index) \in Job /\ disp.union \in Rects
             /\ CopyJob(disp.index).src # Canvas /\ CopyJob(disp.index).dst = call.idle
             /\ CopyJob(disp.index).src = disp.index /\ CopyJob(disp.index).rect = disp.union
  <2>1. disp.index \in {0, 1} /\ disp.union \in Rects /\ call.idle \in Buffers
    BY <1>1, <1>4, <1>7, DispIs, CallIs DEF Areas, Buffers
  <2> QED
    BY <2>1, HifbAssumption DEF CopyJob, Job, Canvas
<1>8. /\ taint' \subseteq Taints /\ (taint' = {} => taint = {})
      /\ taint' = {} /\ copy => job
  <2>1. Mark(IF copy THEN EndJob(TRUE, job) ELSE {}) /\ taint \subseteq Taints
    BY DEF CopyUnion, TInv, Types, Taints
  <2> HIDE DEF must, copy
  <2> QED
    BY <2>1, MarkIs, EndJobIs
<1>9. \/ tde' = tde /\ (must /\ taint' = {} =>
                         disp.union \in Rects /\ IsContain(call.rect, disp.union))
      \/ copy /\ tde' = Append(tde, CopyJob(disp.index))
  BY <1>3, <1>7, <1>8
<1> QED
  BY <1>1, <1>2, <1>5, <1>6, <1>7, <1>8, <1>9 DEF CopyUnion

LEMMA ReturnIs ==
    ASSUME par \in Pars, NEW ok \in BOOLEAN, Return(ok)
    PROVE  /\ call' \in Calls /\ call'.pc = "idle"
           /\ par' \in Pars /\ par'.num = par.num /\ Keeps(par, par')
<1>1. call' = NoCall /\ par' = [par EXCEPT !.ok = ok]
  BY DEF Return
<1>2. par' \in Pars
  BY <1>1 DEF Pars
<1>3. par'.num = par.num /\ Keeps(par, par')
  BY <1>1 DEF Pars, Keeps
<1> QED
  BY <1>1, <1>2, <1>3, NoCallIs

LEMMA CopyUnionFailsIs ==
    ASSUME TInv, NEW job \in BOOLEAN, CopyUnionFails(job)
    PROVE  /\ call.pc = "copy" /\ UNCHANGED <<buf, disp, vo, fin, frames, taint>>
           /\ disp.fliped /\ call.osd = disp.index
           /\ call' \in Calls /\ call'.pc = "idle"
           /\ par' \in Pars /\ par'.num = par.num /\ Keeps(par, par')
           /\ \/ tde' = tde
              \/ \E j \in Job : /\ tde' = Append(tde, j) /\ j.src # Canvas /\ j.dst = call.idle
                                /\ j.src = disp.index /\ j.rect = disp.union
<1>1. par \in Pars /\ Return(FALSE) /\ disp \in Disps /\ call \in Calls /\ disp.fliped
  BY DEF TInv, Types, CopyUnionFails
<1>2. disp.index \in {0, 1} /\ disp.union \in Rects /\ call.idle \in Buffers
  BY <1>1, DispIs, CallIs DEF TInv, Shape, Areas, Buffers
<1>3. /\ CopyJob(disp.index) \in Job
      /\ CopyJob(disp.index).src # Canvas /\ CopyJob(disp.index).dst = call.idle
      /\ CopyJob(disp.index).src = disp.index /\ CopyJob(disp.index).rect = disp.union
  BY <1>2, HifbAssumption DEF CopyJob, Job, Canvas
<1>4. tde' = tde \/ tde' = Append(tde, CopyJob(disp.index))
  BY DEF CopyUnionFails, Queue
<1> QED
  BY <1>1, <1>3, <1>4, ReturnIs DEF CopyUnionFails, At

LEMMA DrawnIs ==
    ASSUME Types, frames # <<>>
    PROVE  Append(frames, Drawn) \in Seq(Pictures) /\ Append(frames, Drawn) # <<>>
<1>1. frames \in Seq(Pictures) /\ Len(frames) \in 1 .. Len(frames)
  BY DEF Types
<1>2. Newest \in Pictures
  BY <1>1 DEF Newest
<1>3. par.num \in 0 .. MaxRefresh
  BY ParIs DEF Types, Nums
<1>4. Drawn \in Pictures
  BY <1>2, <1>3 DEF Drawn, Pictures
<1> QED
  BY <1>1, <1>4

LEMMA DrawJobIs ==
    ASSUME Types, call.rect \in Rects, par.num # 0
    PROVE  /\ DrawJob \in Job /\ DrawJob.src = Canvas /\ DrawJob.num = par.num
           /\ DrawJob.dst = call.idle /\ DrawJob.rect = call.rect
<1>1. call.idle \in Buffers /\ par.num \in 0 .. MaxRefresh
  BY CallIs, ParIs DEF Types, Nums
<1> QED
  BY <1>1 DEF DrawJob, Job, Canvas

LEMMA SubmitIs ==
    ASSUME TInv, NEW ok \in BOOLEAN, NEW job \in BOOLEAN, Submit(ok, job)
    PROVE  /\ call.pc = "submit" /\ UNCHANGED <<buf, vo, fin>>
           /\ call' \in Calls /\ call'.pc = "idle"
           /\ par' \in Pars /\ par'.num = par.num /\ Keeps(par, par')
           /\ disp' \in Disps /\ disp'.index = disp.index
           /\ disp'.handle = par.num /\ disp'.needFlip = disp.needFlip
           /\ disp'.fliped = disp.fliped
           /\ disp'.union = UniteRect(disp.union, call.rect) /\ disp'.union # NoRect
           /\ frames' \in Seq(Pictures) /\ frames' # <<>>
           /\ DrawJob \in Job /\ DrawJob.src = Canvas /\ DrawJob.num = par.num
           /\ DrawJob.dst = call.idle /\ DrawJob.rect = call.rect
           /\ tde' = tde \/ tde' = Append(tde, DrawJob)
           /\ taint' \subseteq Taints
           /\ taint' = {} => /\ taint = {} /\ tde' = Append(tde, DrawJob)
                             /\ frames' = Append(frames, Drawn)
<1>1. /\ par \in Pars /\ disp \in Disps /\ call.pc = "submit" /\ call.rect \in Rects
      /\ par.num # 0 /\ frames # <<>> /\ Types /\ Return(ok)
  BY DEF TInv, Types, Shape, Submit, At, Drawing
<1>2. disp' = [disp EXCEPT !.union = UniteRect(@, call.rect), !.handle = par.num]
  BY DEF Submit
<1>3. /\ UniteRect(disp.union, call.rect) \in Rects
      /\ UniteRect(disp.union, call.rect) \in Areas /\ UniteRect(disp.union, call.rect) # NoRect
      /\ par.num \in Nums
  BY <1>1, DispIs, ParIs, UnionIs, RectIs DEF Areas
<1>4. disp' \in Disps
  BY <1>1, <1>2, <1>3 DEF Disps
<1>5. /\ disp'.index = disp.index /\ disp'.handle = par.num /\ disp'.needFlip = disp.needFlip
      /\ disp'.fliped = disp.fliped
      /\ disp'.union = UniteRect(disp.union, call.rect) /\ disp'.union # NoRect
  BY <1>1, <1>2, <1>3 DEF Disps
<1>6. /\ tde' = tde \/ tde' = Append(tde, DrawJob)
      /\ job => tde' = Append(tde, DrawJob)
      /\ taint' = {} => frames' = Append(frames, Drawn)
      /\ frames' = frames \/ frames' = Append(frames, Drawn)
  BY DEF Submit, Queue, Record
<1>7. frames' \in Seq(Pictures) /\ frames' # <<>>
  BY <1>1, <1>6, DrawnIs DEF Types
<1>8. /\ taint' \subseteq Taints
      /\ taint' = {} => taint = {} /\ ok /\ job
  <2> DEFINE why == IF ok THEN EndJob(ok, job) ELSE {"failed"}
  <2>1. Mark(why) /\ taint \subseteq Taints
    BY DEF Submit, TInv, Types, Taints
  <2>2. why \subseteq Taints /\ (why = {} => ok /\ job)
    BY EndJobIs DEF Taints
  <2> HIDE DEF why
  <2> QED
    BY <2>1, <2>2, MarkIs
<1>9. taint' = {} => /\ taint = {} /\ tde' = Append(tde, DrawJob)
                     /\ frames' = Append(frames, Drawn)
  BY <1>6, <1>8
<1> QED
  BY <1>1, <1>4, <1>5, <1>6, <1>7, <1>8, <1>9, ReturnIs, DrawJobIs DEF Submit

LEMMA ImmediateLockIs ==
    ASSUME TInv, ImmediateLock
    PROVE  /\ call.pc = "ilock" /\ UNCHANGED <<buf, par, vo, tde, fin, frames, taint>>
           /\ call' \in Calls /\ call'.pc \in {"icopy", "iblit"}
           /\ call'.rect = call.rect /\ call'.idle = call.idle
           /\ call'.pc = "icopy" => disp'.union # NoRect
           /\ call'.pc = "iblit" => ~(disp.union.w > 0) \/ IsContain(call.rect, disp.union)
           /\ disp'.union = disp.union
           /\ disp' \in Disps /\ disp'.index = disp.index
           /\ disp'.handle = 0 /\ disp'.needFlip = FALSE /\ disp'.fliped = FALSE
<1>1. call \in Calls /\ disp \in Disps
  BY DEF TInv, Types
<1> DEFINE p == IF disp.union.w > 0 /\ ~IsContain(call.rect, disp.union)
                THEN "icopy" ELSE "iblit"
<1>2. /\ call' \in Calls /\ call'.pc = p
      /\ call'.rect = call.rect /\ call'.idle = call.idle
  BY <1>1, GotoIs DEF ImmediateLock, Places
<1>3. disp' = [disp EXCEPT !.fliped = FALSE, !.needFlip = FALSE, !.handle = 0] /\ 0 \in Nums
  BY HifbAssumption DEF ImmediateLock, Nums
<1>4. disp' \in Disps
  BY <1>1, <1>3 DEF Disps
<1>5. /\ disp'.index = disp.index /\ disp'.handle = 0 /\ disp'.needFlip = FALSE
      /\ disp'.fliped = FALSE /\ disp'.union = disp.union
  BY <1>1, <1>3 DEF Disps
<1>6. p = "icopy" => disp.union # NoRect
  <2>1. NoRect.w = 0
    BY DEF NoRect
  <2> QED
    BY <2>1
<1>7. p = "iblit" => ~(disp.union.w > 0) \/ IsContain(call.rect, disp.union)
  OBVIOUS
<1> QED
  BY <1>2, <1>4, <1>5, <1>6, <1>7 DEF ImmediateLock, At

LEMMA ImmediateCopyIs ==
    ASSUME TInv, NEW ok \in BOOLEAN, NEW job \in BOOLEAN, ImmediateCopy(ok, job)
    PROVE  /\ call.pc = "icopy" /\ UNCHANGED <<buf, disp, vo, fin, frames>>
           /\ taint' \subseteq Taints /\ (taint' = {} => taint = {})
           /\ call' \in Calls /\ par' \in Pars /\ par'.num = par.num /\ Keeps(par, par')
           /\ \/ call'.pc = "idle"
              \/ call'.pc = "iblit" /\ call'.rect = call.rect /\ call'.idle = call.idle
           /\ \/ tde' = tde /\ (taint' = {} => call'.pc = "idle")
              \/ \E j \in Job : /\ tde' = Append(tde, j) /\ j.src # Canvas /\ j.dst = call.idle
                                /\ j.src = 1 - call.idle /\ j.rect = disp.union
<1>1. /\ par \in Pars /\ disp \in Disps /\ call \in Calls /\ call.pc = "icopy"
      /\ disp.union \in Rects /\ taint \subseteq Taints
  BY DispIs DEF TInv, Types, Shape, ImmediateCopy, At, Areas, Taints
<1>2. /\ taint' \subseteq Taints /\ (taint' = {} => taint = {})
      /\ taint' = {} => (ok => job)
  BY <1>1, MarkIs, EndJobIs DEF ImmediateCopy
<1>3. /\ CopyJob(1 - call.idle) \in Job /\ CopyJob(1 - call.idle).src # Canvas
      /\ CopyJob(1 - call.idle).dst = call.idle
      /\ CopyJob(1 - call.idle).src = 1 - call.idle
      /\ CopyJob(1 - call.idle).rect = disp.union
  <2>1. call.idle \in Buffers /\ 1 - call.idle \in {0, 1}
    BY <1>1, CallIs, OtherBuffer DEF Buffers
  <2> QED
    BY <1>1, <2>1, HifbAssumption DEF CopyJob, Job, Canvas
<1>4. Queue(job, CopyJob(1 - call.idle))
  BY DEF ImmediateCopy
<1>5. /\ call' \in Calls /\ par' \in Pars /\ par'.num = par.num /\ Keeps(par, par')
      /\ \/ call'.pc = "idle"
         \/ ok /\ call'.pc = "iblit" /\ call'.rect = call.rect /\ call'.idle = call.idle
  <2>1. CASE ok
    <3>1. Goto("iblit") /\ UNCHANGED par
      BY <2>1 DEF ImmediateCopy
    <3> QED
      BY <1>1, <2>1, <3>1, GotoIs DEF Places, Keeps
  <2>2. CASE ~ok
    <3>1. Return(FALSE)
      BY <2>2 DEF ImmediateCopy
    <3> QED
      BY <1>1, <3>1, ReturnIs
  <2> QED
    BY <2>1, <2>2
<1>6. \/ tde' = tde /\ (taint' = {} => call'.pc = "idle")
      \/ tde' = Append(tde, CopyJob(1 - call.idle))
  BY <1>2, <1>4, <1>5, QueueIs
<1> QED
  BY <1>1, <1>2, <1>3, <1>5, <1>6 DEF ImmediateCopy

LEMMA ImmediateBlitIs ==
    ASSUME TInv, NEW ok \in BOOLEAN, NEW job \in BOOLEAN, ImmediateBlit(ok, job)
    PROVE  /\ call.pc = "iblit" /\ UNCHANGED <<buf, vo, fin, frames>>
           /\ taint' \subseteq Taints /\ (taint' = {} => taint = {})
           /\ call' \in Calls /\ par' \in Pars /\ par'.num = par.num /\ Keeps(par, par')
           /\ disp' \in Disps /\ disp'.index = disp.index
           /\ disp'.handle = par.num /\ disp'.needFlip = disp.needFlip /\ disp'.union # NoRect
           /\ disp'.union = call.rect
           /\ DrawJob \in Job /\ DrawJob.src = Canvas /\ DrawJob.num = par.num
           /\ DrawJob.dst = call.idle /\ DrawJob.rect = call.rect
           /\ \/ call'.pc = "idle"
              \/ /\ call'.pc \in {"iblock", "iswap"} /\ (taint' = {} => call'.pc = "iblock")
                 /\ call'.rect = call.rect /\ call'.idle = call.idle
           /\ \/ tde' = tde /\ (taint' = {} => call'.pc = "idle")
              \/ tde' = Append(tde, DrawJob)
<1>1. /\ par \in Pars /\ disp \in Disps /\ call \in Calls /\ call.pc = "iblit"
      /\ call.rect \in Rects /\ par.num # 0 /\ Types /\ taint \subseteq Taints
  BY DEF TInv, Types, Shape, ImmediateBlit, At, Drawing, Taints
<1>2. disp' = [disp EXCEPT !.union = call.rect, !.handle = par.num] /\ par.num \in Nums
  BY <1>1, ParIs DEF ImmediateBlit
<1>3. disp' \in Disps
  BY <1>1, <1>2 DEF Disps, Areas
<1>4. /\ disp'.index = disp.index /\ disp'.handle = par.num /\ disp'.needFlip = disp.needFlip
      /\ disp'.union # NoRect /\ disp'.union = call.rect
  <2>1. call.rect # NoRect
    BY <1>1, RectIs
  <2> QED
    BY <1>1, <1>2, <2>1 DEF Disps
<1>5. /\ taint' \subseteq Taints /\ (taint' = {} => taint = {})
      /\ taint' = {} => (ok => job)
  BY <1>1, MarkIs, EndJobIs DEF ImmediateBlit
<1>6. /\ call' \in Calls /\ par' \in Pars /\ par'.num = par.num /\ Keeps(par, par')
      /\ \/ call'.pc = "idle"
         \/ /\ ok /\ call'.pc = (IF job THEN "iblock" ELSE "iswap")
            /\ call'.rect = call.rect /\ call'.idle = call.idle
  <2>1. CASE ok
    <3> DEFINE p == IF job THEN "iblock" ELSE "iswap"
    <3>1. Goto(p) /\ UNCHANGED par
      BY <2>1 DEF ImmediateBlit
    <3>2. p \in Places
      BY DEF Places
    <3> HIDE DEF p
    <3>3. /\ call' \in Calls /\ call'.pc = p
          /\ call'.rect = call.rect /\ call'.idle = call.idle
      BY <1>1, <3>1, <3>2, GotoIs
    <3> QED
      BY <1>1, <2>1, <3>1, <3>3 DEF p, Keeps
  <2>2. CASE ~ok
    <3>1. Return(FALSE)
      BY <2>2 DEF ImmediateBlit
    <3> QED
      BY <1>1, <3>1, ReturnIs
  <2> QED
    BY <2>1, <2>2
<1>7. Queue(job, DrawJob)
  BY DEF ImmediateBlit
<1>8. \/ tde' = tde /\ (taint' = {} => call'.pc = "idle")
      \/ tde' = Append(tde, DrawJob)
  BY <1>5, <1>6, <1>7, QueueIs
<1>9. \/ call'.pc = "idle"
      \/ /\ call'.pc \in {"iblock", "iswap"} /\ (taint' = {} => call'.pc = "iblock")
         /\ call'.rect = call.rect /\ call'.idle = call.idle
  BY <1>5, <1>6
<1>10. /\ DrawJob \in Job /\ DrawJob.src = Canvas /\ DrawJob.num = par.num
       /\ DrawJob.dst = call.idle /\ DrawJob.rect = call.rect
  BY <1>1, DrawJobIs
<1> QED
  BY <1>1, <1>3, <1>4, <1>5, <1>6, <1>8, <1>9, <1>10 DEF ImmediateBlit

LEMMA ImmediateSwapIs ==
    ASSUME TInv, ImmediateSwap
    PROVE  /\ call.pc = "iswap" \/ (call.pc = "iblock" /\ tde = <<>> /\ fin = <<>>)
           /\ UNCHANGED <<buf, vo, tde, fin, taint>>
           /\ call' \in Calls /\ call'.pc = "ivbl" /\ call'.rect = call.rect
           /\ disp' \in Disps /\ disp'.index = call.idle
           /\ disp'.needFlip = disp.needFlip /\ disp'.fliped = disp.fliped
           /\ disp'.union = disp.union /\ disp'.handle = disp.handle
           /\ par' \in Pars /\ par'.num = par.num /\ par'.mode = par.mode /\ ~par'.modifying
           /\ par'.addrMask /\ par'.screenAddr = call.idle /\ ~par'.vblflag
           /\ par'.doRefresh = par.doRefresh
           /\ frames' \in Seq(Pictures) /\ frames' # <<>>
           /\ taint' = {} => frames' = Append(frames, Drawn)
<1>1. /\ par \in Pars /\ disp \in Disps /\ call \in Calls
      /\ call.pc = "iswap" \/ (call.pc = "iblock" /\ tde = <<>> /\ fin = <<>>)
      /\ call.idle \in Buffers /\ Types /\ frames # <<>>
  BY CallIs DEF TInv, Types, Shape, ImmediateSwap, At
<1>2. /\ call' \in Calls /\ call'.pc = "ivbl" /\ call'.rect = call.rect
  BY <1>1, GotoIs DEF ImmediateSwap, Places
<1>3. disp' = [disp EXCEPT !.index = call.idle]
  BY DEF ImmediateSwap
<1>4. disp' \in Disps
  BY <1>1, <1>3 DEF Disps
<1>5. /\ disp'.index = call.idle /\ disp'.needFlip = disp.needFlip
      /\ disp'.fliped = disp.fliped /\ disp'.union = disp.union /\ disp'.handle = disp.handle
  BY <1>1, <1>3 DEF Disps
<1>6. par' = [par EXCEPT !.modifying = FALSE, !.addrMask = TRUE,
                         !.screenAddr = call.idle, !.vblflag = FALSE]
  BY DEF ImmediateSwap
<1>7. par' \in Pars
  BY <1>1, <1>6 DEF Pars
<1>8. /\ par'.num = par.num /\ par'.mode = par.mode /\ ~par'.modifying
      /\ par'.addrMask /\ par'.screenAddr = call.idle /\ ~par'.vblflag
      /\ par'.doRefresh = par.doRefresh
  BY <1>1, <1>6 DEF Pars
<1>9. /\ frames' \in Seq(Pictures) /\ frames' # <<>>
      /\ taint' = {} => frames' = Append(frames, Drawn)
  BY <1>1, DrawnIs DEF ImmediateSwap, Record, Types
<1> QED
  BY <1>1, <1>2, <1>4, <1>5, <1>7, <1>8, <1>9 DEF ImmediateSwap

LEMMA ImmediateClearVblIs ==
    ASSUME TInv, ImmediateClearVbl
    PROVE  /\ call.pc = "ivbl" /\ UNCHANGED <<buf, disp, vo, tde, fin, frames, taint>>
           /\ call' \in Calls /\ call'.pc = "iwait" /\ call'.rect = call.rect
           /\ par' \in Pars /\ par'.num = par.num /\ par'.mode = par.mode
           /\ par'.modifying = par.modifying /\ par'.addrMask = par.addrMask
           /\ par'.screenAddr = par.screenAddr /\ ~par'.vblflag
           /\ par'.doRefresh = par.doRefresh
<1>1. par \in Pars /\ call \in Calls /\ par' = [par EXCEPT !.vblflag = FALSE]
  BY DEF TInv, Types, ImmediateClearVbl
<1>2. par' \in Pars
  BY <1>1 DEF Pars
<1>3. /\ par'.num = par.num /\ par'.mode = par.mode
      /\ par'.modifying = par.modifying /\ par'.addrMask = par.addrMask
      /\ par'.screenAddr = par.screenAddr /\ ~par'.vblflag /\ par'.doRefresh = par.doRefresh
  BY <1>1 DEF Pars
<1>4. call' \in Calls /\ call'.pc = "iwait" /\ call'.rect = call.rect
  BY <1>1, GotoIs DEF ImmediateClearVbl, Places
<1> QED
  BY <1>2, <1>3, <1>4 DEF ImmediateClearVbl, At

LEMMA ImmediateReturnIs ==
    ASSUME TInv, ImmediateReturn
    PROVE  /\ call.pc = "iwait" /\ UNCHANGED <<buf, disp, vo, tde, fin, frames>>
           /\ call' \in Calls /\ call'.pc = "idle"
           /\ par' \in Pars /\ par'.num = par.num /\ Keeps(par, par')
           /\ taint' \subseteq Taints
           /\ taint' = {} => taint = {} /\ par.vblflag
<1>1. par \in Pars /\ Return(TRUE) /\ taint \subseteq Taints
  BY DEF TInv, Types, ImmediateReturn, Taints
<1>2. Mark(IF par.vblflag THEN {} ELSE {"timeout"})
  BY DEF ImmediateReturn
<1>3. /\ taint' \subseteq Taints
      /\ taint' = {} => taint = {} /\ par.vblflag
  BY <1>1, <1>2, MarkIs DEF Taints
<1> QED
  BY <1>1, <1>3, ReturnIs DEF ImmediateReturn, At

LEMMA PutLayerInfoIs ==
    ASSUME TInv, PutLayerInfo
    PROVE  /\ call.pc = "idle" /\ UNCHANGED <<buf, disp, vo, tde, fin, frames>>
           /\ call' \in Calls /\ call'.pc = "size"
           /\ par' \in Pars /\ par'.num = par.num
           /\ par'.addrMask = par.addrMask /\ par'.screenAddr = par.screenAddr
           /\ par'.doRefresh = par.doRefresh
           /\ taint' \subseteq Taints
           /\ taint' = {} => taint = {} /\ (par'.mode = par.mode \/ par.num = 0)
<1>1. par \in Pars /\ call \in Calls /\ taint \subseteq Taints /\ par.puts < MaxPut
  BY DEF TInv, Types, PutLayerInfo, Taints
<1>2. PICK m \in {"DOUBLE", "IMMEDIATE"} :
        /\ par' = [par EXCEPT !.modifying = TRUE, !.mode = m, !.puts = @ + 1]
        /\ Mark(IF m = par.mode \/ par.num = 0 THEN {} ELSE {"switch"})
  BY DEF PutLayerInfo
<1>3. par.puts + 1 \in 0 .. MaxPut
  BY <1>1, ParIs, HifbAssumption
<1>4. par' \in Pars
  BY <1>1, <1>2, <1>3 DEF Pars
<1>5. /\ par'.num = par.num /\ par'.mode = m
      /\ par'.addrMask = par.addrMask /\ par'.screenAddr = par.screenAddr
      /\ par'.doRefresh = par.doRefresh
  BY <1>1, <1>2 DEF Pars
<1>6. /\ taint' \subseteq Taints
      /\ taint' = {} => taint = {} /\ (m = par.mode \/ par.num = 0)
  BY <1>1, <1>2, MarkIs DEF Taints
<1>7. call' \in Calls /\ call'.pc = "size"
  BY <1>1, GotoIs DEF PutLayerInfo, Places
<1>8. /\ taint' \subseteq Taints
      /\ taint' = {} => taint = {} /\ (par'.mode = par.mode \/ par.num = 0)
  BY <1>5, <1>6
<1>9. call.pc = "idle" /\ UNCHANGED <<buf, disp, vo, tde, fin, frames>>
  BY DEF PutLayerInfo, At
<1> QED
  BY <1>4, <1>5, <1>7, <1>8, <1>9

LEMMA PutSizeIs ==
    ASSUME TInv, NEW ok \in BOOLEAN, PutSize(ok)
    PROVE  /\ call.pc = "size" /\ UNCHANGED <<buf, disp, vo, tde, fin, frames, taint>>
           /\ call' \in Calls /\ call'.pc = "idle"
           /\ par' \in Pars /\ par'.num = par.num /\ par'.mode = par.mode
           /\ par'.addrMask = par.addrMask /\ par'.screenAddr = par.screenAddr
           /\ par'.doRefresh = par.doRefresh
<1>1. par \in Pars /\ call \in Calls
  BY DEF TInv, Types
<1>2. par' = [par EXCEPT !.modifying = FALSE] \/ par' = par
  BY DEF PutSize
<1>3. par' \in Pars
  BY <1>1, <1>2 DEF Pars
<1>4. /\ par'.num = par.num /\ par'.mode = par.mode
      /\ par'.addrMask = par.addrMask /\ par'.screenAddr = par.screenAddr
      /\ par'.doRefresh = par.doRefresh
  BY <1>1, <1>2 DEF Pars
<1>5. call' \in Calls /\ call'.pc = "idle"
  BY <1>1, GotoIs DEF PutSize, Places
<1> QED
  BY <1>3, <1>4, <1>5 DEF PutSize, At

LEMMA PutShowIs ==
    ASSUME TInv, PutShow
    PROVE  /\ call.pc = "idle" /\ UNCHANGED <<buf, disp, vo, tde, fin, call, frames, taint>>
           /\ par' \in Pars /\ par'.num = par.num /\ par'.mode = par.mode
           /\ par'.addrMask = par.addrMask /\ par'.screenAddr = par.screenAddr
           /\ par'.doRefresh = par.doRefresh
<1>1. par \in Pars /\ par.puts < MaxPut
  BY DEF TInv, Types, PutShow
<1>2. par' = [par EXCEPT !.show = ~@, !.modifying = FALSE, !.puts = @ + 1]
  BY DEF PutShow
<1>3. par.puts + 1 \in 0 .. MaxPut
  BY <1>1, ParIs, HifbAssumption
<1>4. par' \in Pars
  BY <1>1, <1>2, <1>3 DEF Pars
<1>5. /\ par'.num = par.num /\ par'.mode = par.mode
      /\ par'.addrMask = par.addrMask /\ par'.screenAddr = par.screenAddr
      /\ par'.doRefresh = par.doRefresh
  BY <1>1, <1>2 DEF Pars
<1> QED
  BY <1>4, <1>5 DEF PutShow, At

LEMMA TdeFinishIs ==
    ASSUME TInv, TdeFinish
    PROVE  /\ tde # <<>> /\ UNCHANGED <<disp, par, vo, call, frames, taint>>
           /\ buf' \in [Buffers -> Pictures] /\ buf' = Draw(buf, tde[1])
           /\ tde' \in Seq(Job) /\ Len(tde) \in Nat /\ Len(tde') = Len(tde) - 1
           /\ \A i \in 1 .. Len(tde') : i + 1 \in 1 .. Len(tde) /\ tde'[i] = tde[i + 1]
           /\ tde[1] \in Job /\ 1 \in 1 .. Len(tde)
           /\ fin' \in Seq(1 .. MaxRefresh)
           /\ \/ fin' = fin
              \/ tde[1].src = Canvas /\ tde[1].num \in 1 .. MaxRefresh /\ fin' = Append(fin, tde[1].num)
<1>1. tde \in Seq(Job) /\ fin \in Seq(1 .. MaxRefresh) /\ tde # <<>> /\ Numbered(tde)
  BY DEF TInv, Types, Shape, TdeFinish
<1>2. /\ Head(tde) = tde[1] /\ tde[1] \in Job /\ 1 \in 1 .. Len(tde) /\ Len(tde) \in Nat
      /\ Tail(tde) \in Seq(Job) /\ Len(Tail(tde)) = Len(tde) - 1
      /\ \A i \in 1 .. Len(Tail(tde)) : i + 1 \in 1 .. Len(tde) /\ Tail(tde)[i] = tde[i + 1]
  BY <1>1
<1>3. buf' \in [Buffers -> Pictures] /\ buf' = Draw(buf, tde[1])
  BY <1>2, DrawIs DEF TdeFinish, TInv, Types
<1>4. tde[1].src = Canvas => tde[1].num \in 1 .. MaxRefresh
  <2>1. tde[1].num \in 0 .. MaxRefresh
    BY <1>2 DEF Job
  <2>2. tde[1].src = Canvas => tde[1].num # 0
    BY <1>1, <1>2 DEF Numbered
  <2> QED
    BY <2>1, <2>2, HifbAssumption
<1>5. fin' = IF tde[1].src = Canvas THEN Append(fin, tde[1].num) ELSE fin
  BY <1>2 DEF TdeFinish
<1>6. tde[1].src = Canvas => Append(fin, tde[1].num) \in Seq(1 .. MaxRefresh)
  BY <1>1, <1>4
<1>7. /\ fin' \in Seq(1 .. MaxRefresh)
      /\ \/ fin' = fin
         \/ tde[1].src = Canvas /\ tde[1].num \in 1 .. MaxRefresh /\ fin' = Append(fin, tde[1].num)
  BY <1>1, <1>4, <1>5, <1>6
<1>8. tde' = Tail(tde)
  BY DEF TdeFinish
<1> QED
  BY <1>1, <1>2, <1>3, <1>7, <1>8 DEF TdeFinish

LEMMA TdeCallbackIs ==
    ASSUME TInv, TdeCallback
    PROVE  /\ UNCHANGED <<buf, par, vo, tde, call, frames, taint>>
           /\ fin # <<>> /\ fin[1] \in 1 .. MaxRefresh /\ 1 \in 1 .. Len(fin)
           /\ fin' \in Seq(1 .. MaxRefresh)
           /\ \A i \in 1 .. Len(fin') : i + 1 \in 1 .. Len(fin) /\ fin'[i] = fin[i + 1]
           /\ disp' \in Disps /\ disp'.index = disp.index /\ disp'.handle = disp.handle
           /\ disp'.fliped = disp.fliped /\ disp'.union = disp.union
           /\ \/ disp'.needFlip = disp.needFlip
              \/ disp'.needFlip /\ par.mode = "DOUBLE" /\ disp.handle = fin[1]
<1>1. fin \in Seq(1 .. MaxRefresh) /\ fin # <<>> /\ disp \in Disps
  BY DEF TInv, Types, TdeCallback
<1>2. /\ Head(fin) = fin[1] /\ fin[1] \in 1 .. MaxRefresh /\ 1 \in 1 .. Len(fin)
      /\ Tail(fin) \in Seq(1 .. MaxRefresh)
      /\ \A i \in 1 .. Len(Tail(fin)) : i + 1 \in 1 .. Len(fin) /\ Tail(fin)[i] = fin[i + 1]
  <2> DEFINE Handles == 1 .. MaxRefresh
  <2>1. fin \in Seq(Handles) /\ fin # <<>>
    BY <1>1
  <2> HIDE DEF Handles
  <2>2. /\ Head(fin) = fin[1] /\ fin[1] \in Handles /\ 1 \in 1 .. Len(fin)
        /\ Tail(fin) \in Seq(Handles)
        /\ \A i \in 1 .. Len(Tail(fin)) : i + 1 \in 1 .. Len(fin) /\ Tail(fin)[i] = fin[i + 1]
    BY <2>1
  <2> QED
    BY <2>2 DEF Handles
<1>3. /\ disp' = IF par.mode = "DOUBLE" /\ disp.handle = fin[1]
                 THEN [disp EXCEPT !.needFlip = TRUE] ELSE disp
      /\ fin' = Tail(fin)
  BY <1>2 DEF TdeCallback
<1>4. disp' \in Disps
  BY <1>1, <1>3 DEF Disps
<1>5. /\ disp'.index = disp.index /\ disp'.handle = disp.handle
      /\ disp'.fliped = disp.fliped /\ disp'.union = disp.union
      /\ \/ disp'.needFlip = disp.needFlip
         \/ disp'.needFlip /\ par.mode = "DOUBLE" /\ disp.handle = fin[1]
  BY <1>1, <1>3 DEF Disps
<1>6. UNCHANGED <<buf, par, vo, tde, call, frames, taint>>
  BY DEF TdeCallback
<1> QED
  BY <1>1, <1>2, <1>3, <1>4, <1>5, <1>6, Zenon

\* the interrupt that updates the layer: turned or not
LEMMA VoUpdateIs ==
    ASSUME TInv, VoUpdate,
           NEW at, at = IF par.addrMask THEN par.screenAddr ELSE disp.index,
           NEW flip, flip = (par.mode = "DOUBLE" /\ disp.needFlip),
           NEW to, to = IF flip THEN 1 - at ELSE at
    PROVE  /\ disp' \in Disps /\ disp'.index = to /\ disp'.handle = disp.handle
           /\ disp'.union = disp.union /\ disp'.fliped = (disp.fliped \/ flip)
           /\ disp'.needFlip = (disp.needFlip /\ ~flip)
           /\ vo' \in Vos /\ vo'.live = vo.live
           /\ vo'.reg = IF flip \/ par.addrMask THEN to ELSE vo.reg
           /\ par' \in Pars /\ par'.num = par.num /\ par'.mode = par.mode
           /\ par'.modifying = par.modifying /\ ~par'.addrMask
           /\ par'.vblflag /\ ~par'.doRefresh
           /\ taint' \subseteq Taints
           /\ taint' = {} => taint = {} /\ ~(flip /\ call.pc \in {"addr", "pick"})
<1>1. par \in Pars /\ disp \in Disps /\ vo \in Vos /\ taint \subseteq Taints
  BY DEF TInv, Types, Taints
<1>2. flip \in BOOLEAN /\ at \in Buffers /\ to \in Buffers
  BY <1>1, ParIs, DispIs, OtherBuffer
<1>3. disp' = [disp EXCEPT !.index = to, !.fliped = @ \/ flip, !.needFlip = @ /\ ~flip]
  BY DEF VoUpdate
<1>4. disp' \in Disps
  BY <1>1, <1>2, <1>3 DEF Disps
<1>5. /\ disp'.index = to /\ disp'.handle = disp.handle
      /\ disp'.union = disp.union /\ disp'.fliped = (disp.fliped \/ flip)
      /\ disp'.needFlip = (disp.needFlip /\ ~flip)
  BY <1>1, <1>3 DEF Disps
<1>6. vo' = IF flip \/ par.addrMask THEN [vo EXCEPT !.reg = to] ELSE vo
  BY DEF VoUpdate
<1>7. /\ vo' \in Vos /\ vo'.live = vo.live
      /\ vo'.reg = IF flip \/ par.addrMask THEN to ELSE vo.reg
  BY <1>1, <1>2, <1>6 DEF Vos
<1>8. par' = [par EXCEPT !.doRefresh = FALSE, !.vblflag = TRUE, !.addrMask = FALSE,
                         !.screenAddr = IF flip THEN to ELSE @]
  BY DEF VoUpdate
<1>9. par' \in Pars
  BY <1>1, <1>2, <1>8 DEF Pars
<1>10. /\ par'.num = par.num /\ par'.mode = par.mode /\ par'.modifying = par.modifying
       /\ ~par'.addrMask /\ par'.vblflag /\ ~par'.doRefresh
  BY <1>1, <1>8 DEF Pars
<1>11. Mark(IF flip /\ call.pc \in {"addr", "pick"} THEN {"race"} ELSE {})
  BY DEF VoUpdate
<1>12. /\ taint' \subseteq Taints
       /\ taint' = {} => taint = {} /\ ~(flip /\ call.pc \in {"addr", "pick"})
  <2> DEFINE why == IF flip /\ call.pc \in {"addr", "pick"} THEN {"race"} ELSE {}
  <2>1. why \subseteq Taints /\ (why = {} => ~(flip /\ call.pc \in {"addr", "pick"}))
    BY DEF Taints
  <2> HIDE DEF why
  <2> QED
    BY <1>1, <1>11, <2>1, MarkIs DEF why
<1> QED
  BY <1>4, <1>5, <1>7, <1>9, <1>10, <1>12

LEMMA NoUpdateIs ==
    ASSUME TInv, VerticalTiming, ~(par.show /\ ~par.modifying)
    PROVE  /\ UNCHANGED <<buf, disp, vo, tde, fin, call, frames, taint>>
           /\ par' \in Pars /\ par'.num = par.num /\ par'.mode = par.mode
           /\ par'.modifying = par.modifying /\ par'.addrMask = par.addrMask
           /\ par'.screenAddr = par.screenAddr /\ ~par'.doRefresh
           /\ par'.vblflag => par.vblflag \/ par.modifying
<1>1. par \in Pars
  BY DEF TInv, Types
<1>2. par' = [par EXCEPT !.doRefresh = FALSE, !.vblflag = @ \/ par.show]
  BY DEF VerticalTiming
<1>3. par' \in Pars
  BY <1>1, <1>2 DEF Pars
<1>4. /\ par'.num = par.num /\ par'.mode = par.mode
      /\ par'.modifying = par.modifying /\ par'.addrMask = par.addrMask
      /\ par'.screenAddr = par.screenAddr /\ ~par'.doRefresh
      /\ par'.vblflag = (par.vblflag \/ par.show)
  BY <1>1, <1>2 DEF Pars
<1> QED
  BY <1>3, <1>4 DEF VerticalTiming

LEMMA FrameStartIs ==
    ASSUME TInv, FrameStart
    PROVE  /\ UNCHANGED <<buf, disp, tde, fin, call, frames, taint>>
           /\ vo' \in Vos /\ vo'.reg = vo.reg /\ vo'.live = vo.reg
           /\ par' \in Pars /\ par'.num = par.num /\ par'.mode = par.mode
           /\ par'.modifying = par.modifying /\ par'.addrMask = par.addrMask
           /\ par'.screenAddr = par.screenAddr /\ par'.vblflag = par.vblflag
<1>1. par \in Pars /\ vo \in Vos
  BY DEF TInv, Types
<1>2. par' = [par EXCEPT !.doRefresh = TRUE] /\ vo' = [vo EXCEPT !.live = vo.reg]
  BY DEF FrameStart
<1>3. par' \in Pars /\ vo' \in Vos
  BY <1>1, <1>2 DEF Pars, Vos
<1>4. /\ vo'.reg = vo.reg /\ vo'.live = vo.reg
      /\ par'.num = par.num /\ par'.mode = par.mode
      /\ par'.modifying = par.modifying /\ par'.addrMask = par.addrMask
      /\ par'.screenAddr = par.screenAddr /\ par'.vblflag = par.vblflag
  BY <1>1, <1>2 DEF Pars, Vos
<1> QED
  BY <1>3, <1>4 DEF FrameStart

-----------------------------------------------------------------------------
\* every step keeps the types and the shape
LEMMA TStep == TInv /\ [Next]_vars => TInv'
<1> SUFFICES ASSUME TInv, [Next]_vars PROVE TInv'
  OBVIOUS
<1> USE DEF Taints
<1>1. CASE Refresh
  <2>1. Types'
    BY <1>1, RefreshIs DEF TInv, Types
  <2>2. Shape'
    BY <1>1, RefreshIs, ParIs, DispIs, CallIs DEF TInv, Types, Shape, Drawing, Numbered
  <2> QED
    BY <2>1, <2>2 DEF TInv
<1>2. CASE PassGate
  <2>1. Types'
    BY <1>2, PassGateIs DEF TInv, Types
  <2>2. par.num \in Nat /\ par'.num # 0
    BY <1>2, PassGateIs, ParIs, HifbAssumption DEF TInv, Types, Nums
  <2>3. Shape'
    BY <1>2, <2>2, PassGateIs DEF TInv, Shape, Drawing, Numbered
  <2> QED
    BY <2>1, <2>3 DEF TInv
<1>3. CASE GetLayerAddr
  <2>1. Types'
    BY <1>3, GetLayerAddrIs DEF TInv, Types
  <2>2. Shape'
    BY <1>3, GetLayerAddrIs, ParIs, DispIs, CallIs DEF TInv, Types, Shape, Drawing, Numbered
  <2> QED
    BY <2>1, <2>2 DEF TInv
<1>4. CASE PickIdle
  <2>1. Types'
    BY <1>4, PickIdleIs DEF TInv, Types
  <2>2. Shape'
    BY <1>4, PickIdleIs, ParIs, DispIs, CallIs DEF TInv, Types, Shape, Drawing, Numbered
  <2> QED
    BY <2>1, <2>2 DEF TInv
<1>5. ASSUME NEW job \in BOOLEAN, CopyUnion(job) PROVE TInv'
  <2>1. tde \in Seq(Job) /\ Numbered(tde)
    BY DEF TInv, Types, Shape
  <2>2. tde' = tde \/ \E j \in Job : tde' = Append(tde, j) /\ j.src # Canvas
    BY <1>5, CopyUnionIs
  <2>3. tde' \in Seq(Job) /\ Numbered(tde')
    BY <2>1, <2>2, JobAppended
  <2>4. Types'
    BY <1>5, CopyUnionIs, <2>3 DEF TInv, Types
  <2>5. Shape'
    BY <1>5, CopyUnionIs, <2>3, ParIs, DispIs, CallIs DEF TInv, Types, Shape, Drawing
  <2> QED
    BY <2>4, <2>5 DEF TInv
<1>6. ASSUME NEW job \in BOOLEAN, CopyUnionFails(job) PROVE TInv'
  <2>1. tde \in Seq(Job) /\ Numbered(tde)
    BY DEF TInv, Types, Shape
  <2>2. tde' = tde \/ \E j \in Job : tde' = Append(tde, j) /\ j.src # Canvas
    BY <1>6, CopyUnionFailsIs
  <2>3. tde' \in Seq(Job) /\ Numbered(tde')
    BY <2>1, <2>2, JobAppended
  <2>4. Types'
    BY <1>6, CopyUnionFailsIs, <2>3 DEF TInv, Types
  <2>5. Shape'
    BY <1>6, CopyUnionFailsIs, <2>3, ParIs, DispIs, CallIs DEF TInv, Types, Shape, Drawing
  <2> QED
    BY <2>4, <2>5 DEF TInv
<1>7. ASSUME NEW ok \in BOOLEAN, NEW job \in BOOLEAN, Submit(ok, job) PROVE TInv'
  <2>1. tde \in Seq(Job) /\ Numbered(tde)
    BY DEF TInv, Types, Shape
  <2>2. \/ tde' = tde
        \/ tde' = Append(tde, DrawJob) /\ DrawJob \in Job /\ DrawJob.num # 0
    <3>1. par.num # 0
      BY <1>7, SubmitIs DEF TInv, Shape
    <3> QED
      BY <3>1, <1>7, SubmitIs
  <2>3. tde' \in Seq(Job) /\ Numbered(tde')
    BY <2>1, <2>2, JobAppended
  <2>4. Types'
    BY <1>7, SubmitIs, <2>3 DEF TInv, Types
  <2>5. Shape'
    BY <1>7, SubmitIs, <2>3, ParIs, DispIs, CallIs DEF TInv, Types, Shape, Drawing
  <2> QED
    BY <2>4, <2>5 DEF TInv
<1>8. CASE ImmediateLock
  <2>1. Types'
    BY <1>8, ImmediateLockIs DEF TInv, Types
  <2>2. Shape'
    BY <1>8, ImmediateLockIs, ParIs, DispIs, CallIs DEF TInv, Types, Shape, Drawing, Numbered
  <2> QED
    BY <2>1, <2>2 DEF TInv
<1>9. ASSUME NEW ok \in BOOLEAN, NEW job \in BOOLEAN, ImmediateCopy(ok, job) PROVE TInv'
  <2>1. tde \in Seq(Job) /\ Numbered(tde)
    BY DEF TInv, Types, Shape
  <2>2. tde' = tde \/ \E j \in Job : tde' = Append(tde, j) /\ j.src # Canvas
    BY <1>9, ImmediateCopyIs
  <2>3. tde' \in Seq(Job) /\ Numbered(tde')
    BY <2>1, <2>2, JobAppended
  <2>4. Types'
    BY <1>9, ImmediateCopyIs, <2>3 DEF TInv, Types
  <2>5. Shape'
    BY <1>9, ImmediateCopyIs, <2>3, ParIs, DispIs, CallIs DEF TInv, Types, Shape, Drawing
  <2> QED
    BY <2>4, <2>5 DEF TInv
<1>10. ASSUME NEW ok \in BOOLEAN, NEW job \in BOOLEAN, ImmediateBlit(ok, job) PROVE TInv'
  <2>1. tde \in Seq(Job) /\ Numbered(tde)
    BY DEF TInv, Types, Shape
  <2>2. \/ tde' = tde
        \/ tde' = Append(tde, DrawJob) /\ DrawJob \in Job /\ DrawJob.num # 0
    <3>1. par.num # 0
      BY <1>10, ImmediateBlitIs DEF TInv, Shape
    <3> QED
      BY <3>1, <1>10, ImmediateBlitIs
  <2>3. tde' \in Seq(Job) /\ Numbered(tde')
    BY <2>1, <2>2, JobAppended
  <2>4. Types'
    BY <1>10, ImmediateBlitIs, <2>3 DEF TInv, Types
  <2>5. Shape'
    BY <1>10, ImmediateBlitIs, <2>3, ParIs, DispIs, CallIs DEF TInv, Types, Shape, Drawing
  <2> QED
    BY <2>4, <2>5 DEF TInv
<1>11. CASE ImmediateSwap
  <2>1. Types'
    BY <1>11, ImmediateSwapIs DEF TInv, Types
  <2>2. Shape'
    BY <1>11, ImmediateSwapIs, ParIs, DispIs, CallIs DEF TInv, Types, Shape, Drawing, Numbered
  <2> QED
    BY <2>1, <2>2 DEF TInv
<1>12. CASE ImmediateClearVbl
  <2>1. Types'
    BY <1>12, ImmediateClearVblIs DEF TInv, Types
  <2>2. Shape'
    BY <1>12, ImmediateClearVblIs, ParIs, DispIs, CallIs DEF TInv, Types, Shape, Drawing, Numbered
  <2> QED
    BY <2>1, <2>2 DEF TInv
<1>13. CASE ImmediateReturn
  <2>1. Types'
    BY <1>13, ImmediateReturnIs DEF TInv, Types
  <2>2. Shape'
    BY <1>13, ImmediateReturnIs, ParIs, DispIs, CallIs DEF TInv, Types, Shape, Drawing, Numbered
  <2> QED
    BY <2>1, <2>2 DEF TInv
<1>14. CASE PutLayerInfo
  <2>1. Types'
    BY <1>14, PutLayerInfoIs DEF TInv, Types
  <2>2. Shape'
    BY <1>14, PutLayerInfoIs, ParIs, DispIs, CallIs DEF TInv, Types, Shape, Drawing, Numbered
  <2> QED
    BY <2>1, <2>2 DEF TInv
<1>15. ASSUME NEW ok \in BOOLEAN, PutSize(ok) PROVE TInv'
  <2>1. Types'
    BY <1>15, PutSizeIs DEF TInv, Types
  <2>2. Shape'
    BY <1>15, PutSizeIs, ParIs, DispIs, CallIs DEF TInv, Types, Shape, Drawing, Numbered
  <2> QED
    BY <2>1, <2>2 DEF TInv
<1>16. CASE PutShow
  <2>1. Types'
    BY <1>16, PutShowIs DEF TInv, Types
  <2>2. Shape'
    BY <1>16, PutShowIs, ParIs, DispIs, CallIs DEF TInv, Types, Shape, Drawing, Numbered
  <2> QED
    BY <2>1, <2>2 DEF TInv
<1>17. CASE TdeFinish
  <2>1. Types'
    BY <1>17, TdeFinishIs DEF TInv, Types
  <2>2. Shape'
    <3>1. UNCHANGED <<disp, par, call, frames>>
      BY <1>17, TdeFinishIs
    <3>2. Numbered(tde')
      BY <1>17, TdeFinishIs DEF TInv, Shape, Numbered
    <3> QED
      BY <3>1, <3>2 DEF TInv, Shape, Drawing
  <2> QED
    BY <2>1, <2>2 DEF TInv
<1>18. CASE TdeCallback
  <2>1. Types'
    BY <1>18, TdeCallbackIs DEF TInv, Types
  <2>2. Shape'
    BY <1>18, TdeCallbackIs, ParIs, DispIs, CallIs DEF TInv, Types, Shape, Drawing, Numbered
  <2> QED
    BY <2>1, <2>2 DEF TInv
<1>19. CASE FrameStart
  <2>1. Types'
    BY <1>19, FrameStartIs DEF TInv, Types
  <2>2. Shape'
    BY <1>19, FrameStartIs, ParIs, DispIs, CallIs DEF TInv, Types, Shape, Drawing, Numbered
  <2> QED
    BY <2>1, <2>2 DEF TInv
<1>20. CASE VerticalTiming
  <2>1. CASE par.show /\ ~par.modifying
    <3>1. VoUpdate /\ UNCHANGED <<buf, tde, fin, call, frames>>
      BY <1>20, <2>1 DEF VerticalTiming
    <3> DEFINE at == IF par.addrMask THEN par.screenAddr ELSE disp.index
               flip == par.mode = "DOUBLE" /\ disp.needFlip
               to == IF flip THEN 1 - at ELSE at
    <3>2. Types'
      BY <3>1, VoUpdateIs DEF TInv, Types
    <3>3. Shape'
      BY <3>1, VoUpdateIs DEF TInv, Types, Shape, Drawing, Numbered
    <3> QED
      BY <3>2, <3>3 DEF TInv
  <2>2. CASE ~(par.show /\ ~par.modifying)
    <3>1. Types'
      BY <1>20, <2>2, NoUpdateIs DEF TInv, Types
    <3>2. Shape'
      BY <1>20, <2>2, NoUpdateIs DEF TInv, Types, Shape, Drawing, Numbered
    <3> QED
      BY <3>1, <3>2 DEF TInv
  <2> QED
    BY <2>1, <2>2
<1>21. CASE UNCHANGED vars
  BY <1>21 DEF vars, TInv, Types, Shape, Numbered, Drawing
<1> QED
  BY <1>1, <1>2, <1>3, <1>4, <1>5, <1>6, <1>7, <1>8, <1>9, <1>10, <1>11, <1>12, <1>13, <1>14, <1>15, <1>16, <1>17, <1>18, <1>19, <1>20, <1>21 DEF Next, Ioctl

-----------------------------------------------------------------------------
(***************************************************************************)
(* Who may turn the layer, and when.  All of it holds as long as nothing   *)
(* outside the protocol has happened.                                       *)
(***************************************************************************)
Doubling == {"addr", "pick", "copy", "submit"}
Straight == {"ilock", "icopy", "iblit", "iblock"}
Swapping == {"ivbl", "iwait"}

Turning ==
    \* a refresh goes the way of the mode it began in; with no refresh nothing is due
    /\ call.pc \in Doubling => par.mode = "DOUBLE"
    /\ call.pc \in Straight \cup Swapping => par.mode = "IMMEDIATE"
    /\ par.num = 0 => tde = <<>> /\ fin = <<>> /\ ~disp.needFlip
    /\ call.pc # "iswap"
    \* the register has the buffer of the index, or a refresh waits for it to
    /\ IF par.addrMask THEN par.screenAddr = disp.index ELSE vo.reg = disp.index
    /\ par.addrMask => call.pc \in Swapping
    /\ call.pc \in Swapping => tde = <<>> /\ ~par.modifying /\ (par.vblflag => ~par.addrMask)
    \* between the interrupt and the frame start nothing draws
    /\ vo.live # vo.reg => /\ ~par.doRefresh /\ tde = <<>>
                           /\ call.pc \notin Doubling \cup Straight
    \* a flip is due only when the engine has finished and before a buffer is picked
    /\ disp.needFlip => /\ par.mode = "DOUBLE" /\ tde = <<>>
                        /\ call.pc \in {"idle", "gate", "addr", "pick", "size"}
    /\ call.pc \in {"copy", "submit"} => call.idle = 1 - disp.index
    /\ par.mode = "IMMEDIATE" /\ call.pc \in {"gate"} \cup Straight => call.idle = 1 - disp.index

\* refreshes whose blit may have been submitted
Submitted == IF call.pc \in Doubling THEN par.num - 1 ELSE par.num

Queued ==
    /\ \A i \in 1 .. Len(tde) : tde[i].dst = 1 - disp.index
    /\ \A i \in 1 .. Len(tde) : tde[i].src = Canvas => tde[i].num <= Submitted
    /\ \A i \in 1 .. Len(fin) : fin[i] <= Submitted
    \* the callback that makes a flip due is the one of the last job
    /\ par.mode = "DOUBLE" =>
         /\ \A i \in 1 .. Len(fin) : fin[i] = disp.handle => tde = <<>>
         /\ \A i \in 1 .. Len(tde) : tde[i].src = Canvas /\ tde[i].num = disp.handle => i = Len(tde)

IInv == TInv /\ (taint = {} => Turning /\ Queued)

LEMMA PInit == Init => IInv
<1> SUFFICES ASSUME Init PROVE IInv
  OBVIOUS
<1>1. TInv
  BY TInit
<1>2. call.pc = "idle" /\ call.idle = 0
  BY DEF Init, NoCall
<1>3. Turning /\ Queued
  BY <1>2 DEF Init, Turning, Queued, Doubling, Straight, Swapping, Submitted
<1> QED
  BY <1>1, <1>3 DEF IInv

LEMMA Numbers ==
    ASSUME Types, Numbered(tde)
    PROVE  /\ par.num \in Nat /\ disp.handle \in Nat /\ Submitted \in Int
           /\ Len(tde) \in Nat /\ Len(fin) \in Nat
           /\ \A i \in 1 .. Len(tde) : /\ tde[i] \in Job /\ tde[i].num \in Nat
                                       /\ tde[i].src = Canvas => tde[i].num > 0
           /\ \A i \in 1 .. Len(fin) : fin[i] \in Nat /\ fin[i] > 0
<1>1. par.num \in Nat /\ disp.handle \in Nat
  BY ParIs, DispIs, HifbAssumption DEF Types, Nums
<1>2. tde \in Seq(Job) /\ Len(tde) \in Nat
  BY DEF Types
<1>3. ASSUME NEW i \in 1 .. Len(tde)
      PROVE  tde[i] \in Job /\ tde[i].num \in Nat /\ (tde[i].src = Canvas => tde[i].num > 0)
  <2>1. tde[i] \in Job
    BY <1>2
  <2>2. tde[i].num \in Nat
    BY <2>1, HifbAssumption DEF Job
  <2>3. tde[i].src = Canvas => tde[i].num # 0
    BY DEF Numbered
  <2> QED
    BY <2>1, <2>2, <2>3
<1>4. Len(fin) \in Nat /\ \A i \in 1 .. Len(fin) : fin[i] \in 1 .. MaxRefresh
  <2> DEFINE Handles == 1 .. MaxRefresh
  <2>1. fin \in Seq(Handles)
    BY DEF Types
  <2> HIDE DEF Handles
  <2>2. Len(fin) \in Nat /\ \A i \in 1 .. Len(fin) : fin[i] \in Handles
    BY <2>1
  <2> QED
    BY <2>2 DEF Handles
<1>5. \A i \in 1 .. Len(fin) : fin[i] \in Nat /\ fin[i] > 0
  BY <1>4, HifbAssumption
<1> QED
  BY <1>1, <1>2, <1>3, <1>4, <1>5 DEF Submitted

\* a step that gives the engine nothing
LEMMA QueueStays ==
    ASSUME TInv, Queued, tde' = tde, fin' = fin, disp'.index = disp.index,
           Submitted' \in Int, Submitted <= Submitted',
           par'.mode = "DOUBLE" => \/ par.mode = "DOUBLE" /\ disp'.handle = disp.handle
                                   \/ disp'.handle = 0
    PROVE  Queued'
<1>1. Types /\ Numbered(tde)
  BY DEF TInv, Shape
<1>2. \A i \in 1 .. Len(tde) : /\ tde[i].dst = 1 - disp.index
                               /\ tde[i].src = Canvas => tde[i].num <= Submitted'
  BY <1>1, Numbers DEF Queued
<1>3. \A i \in 1 .. Len(fin) : fin[i] <= Submitted'
  BY <1>1, Numbers DEF Queued
<1>4. ASSUME par'.mode = "DOUBLE"
      PROVE  /\ \A i \in 1 .. Len(fin) : fin[i] = disp'.handle => tde = <<>>
             /\ \A i \in 1 .. Len(tde) :
                  tde[i].src = Canvas /\ tde[i].num = disp'.handle => i = Len(tde)
  <2>1. CASE disp'.handle = 0
    BY <1>1, <2>1, Numbers
  <2>2. CASE par.mode = "DOUBLE" /\ disp'.handle = disp.handle
    BY <2>2 DEF Queued
  <2> QED
    BY <1>4, <2>1, <2>2
<1> QED
  BY <1>2, <1>3, <1>4 DEF Queued

\* a step that gives the engine one job more
LEMMA QueueGrows ==
    ASSUME TInv, Queued, NEW j \in Job, tde' = Append(tde, j), fin' = fin,
           disp'.index = disp.index, j.dst = 1 - disp.index,
           Submitted' \in Int, Submitted <= Submitted',
           j.src = Canvas => j.num <= Submitted',
           par'.mode = "DOUBLE" => disp'.handle = 0 \/ disp'.handle > Submitted
    PROVE  Queued'
<1>1. Types /\ Numbered(tde)
  BY DEF TInv, Shape
<1>2. /\ Len(tde') = Len(tde) + 1 /\ Len(tde) \in Nat
      /\ \A i \in 1 .. Len(tde) : tde'[i] = tde[i]
      /\ tde'[Len(tde) + 1] = j
  BY <1>1 DEF Types
<1>3. ASSUME NEW i \in 1 .. Len(tde')
      PROVE  \/ i \in 1 .. Len(tde) /\ tde'[i] = tde[i]
             \/ i = Len(tde') /\ tde'[i] = j
  BY <1>2
<1>4. \A i \in 1 .. Len(tde') : tde'[i].dst = 1 - disp'.index
  BY <1>3 DEF Queued
<1>5. \A i \in 1 .. Len(tde') : tde'[i].src = Canvas => tde'[i].num <= Submitted'
  <2>1. \A i \in 1 .. Len(tde) : tde[i].src = Canvas => tde[i].num <= Submitted'
    BY <1>1, Numbers DEF Queued
  <2> QED
    BY <1>3, <2>1
<1>6. \A i \in 1 .. Len(fin) : fin[i] <= Submitted'
  BY <1>1, Numbers DEF Queued
<1>7. ASSUME par'.mode = "DOUBLE"
      PROVE  /\ \A i \in 1 .. Len(fin) : fin[i] # disp'.handle
             /\ \A i \in 1 .. Len(tde') :
                  tde'[i].src = Canvas /\ tde'[i].num = disp'.handle => i = Len(tde')
  <2>1. \A i \in 1 .. Len(fin) : fin[i] # disp'.handle
    BY <1>1, <1>7, Numbers DEF Queued
  <2>2. \A i \in 1 .. Len(tde) : tde[i].src = Canvas => tde[i].num # disp'.handle
    BY <1>1, <1>7, Numbers DEF Queued
  <2> QED
    BY <1>3, <2>1, <2>2
<1> QED
  BY <1>4, <1>5, <1>6, <1>7 DEF Queued

LEMMA RefreshTurns == ASSUME TInv, Turning, Queued, Refresh, taint' = {}
             PROVE  Turning' /\ Queued'
<1>1. Turning'
  BY RefreshIs DEF TInv, Types, Shape, Turning, Doubling, Straight, Swapping
<1>2. Queued'
  BY RefreshIs DEF TInv, Types, Shape, Turning, Queued, Submitted, Doubling, Straight, Swapping
<1> QED
  BY <1>1, <1>2

LEMMA PassGateTurns == ASSUME TInv, Turning, Queued, PassGate, taint' = {}
             PROVE  Turning' /\ Queued'
<1>1. Turning'
  <2>1. par.num \in Nat /\ Types /\ Numbered(tde)
    BY Numbers DEF TInv, Shape
  <2>2. par'.num # 0
    BY <2>1, PassGateIs
  <2>3. /\ vo' = vo /\ tde' = tde /\ disp' = disp /\ call'.idle = call.idle
        /\ par'.mode = par.mode /\ par'.addrMask = par.addrMask
        /\ par'.screenAddr = par.screenAddr
        /\ call.pc = "gate" /\ par.doRefresh
        /\ call'.pc = (IF par.mode = "DOUBLE" THEN "addr" ELSE "ilock")
    BY PassGateIs DEF Keeps
  <2>4. vo.live = vo.reg /\ ~par.addrMask /\ par.mode \in {"DOUBLE", "IMMEDIATE"}
    BY <2>3, ParIs DEF TInv, Types, Turning, Swapping
  <2> QED
    BY <2>2, <2>3, <2>4 DEF Turning, Doubling, Straight, Swapping
<1>2. Queued'
  <2>1. /\ call.pc = "gate" /\ call'.pc = (IF par.mode = "DOUBLE" THEN "addr" ELSE "ilock")
        /\ par'.num = par.num + 1 /\ par'.mode = par.mode /\ disp' = disp
        /\ tde' = tde /\ fin' = fin
    BY PassGateIs DEF Keeps
  <2>2. par.num \in Nat /\ Submitted \in Int /\ Types /\ Numbered(tde)
    BY Numbers DEF TInv, Shape
  <2>3. Submitted' \in Int /\ Submitted <= Submitted'
    BY <2>1, <2>2 DEF Submitted, Doubling
  <2> QED
    BY <2>1, <2>3, QueueStays
<1> QED
  BY <1>1, <1>2

LEMMA GetLayerAddrTurns == ASSUME TInv, Turning, Queued, GetLayerAddr, taint' = {}
             PROVE  Turning' /\ Queued'
<1>1. Turning'
  BY GetLayerAddrIs DEF TInv, Types, Shape, Turning, Doubling, Straight, Swapping
<1>2. Queued'
  BY GetLayerAddrIs DEF TInv, Types, Shape, Turning, Queued, Submitted, Doubling, Straight, Swapping
<1> QED
  BY <1>1, <1>2

LEMMA PickIdleTurns == ASSUME TInv, Turning, Queued, PickIdle, taint' = {}
             PROVE  Turning' /\ Queued'
<1>1. Turning'
  BY PickIdleIs DEF TInv, Types, Shape, Turning, Doubling, Straight, Swapping
<1>2. Queued'
  <2>1. /\ disp'.index = disp.index /\ disp'.handle = 0 /\ tde' = tde /\ fin' = fin
        /\ par' = par /\ call.pc = "pick" /\ call'.pc = "copy"
    BY PickIdleIs
  <2>2. par.num \in Nat /\ Types /\ Numbered(tde)
    BY Numbers DEF TInv, Shape
  <2>3. Submitted' \in Int /\ Submitted <= Submitted'
    BY <2>1, <2>2 DEF Submitted, Doubling
  <2> QED
    BY <2>1, <2>3, QueueStays
<1> QED
  BY <1>1, <1>2

LEMMA CopyUnionTurns == ASSUME TInv, Turning, Queued,
                               NEW job \in BOOLEAN, CopyUnion(job), taint' = {}
             PROVE  Turning' /\ Queued'
<1>1. Turning'
  BY CopyUnionIs DEF TInv, Types, Shape, Turning, Doubling, Straight, Swapping
<1>2. Queued'
  <2>1. /\ disp'.index = disp.index /\ disp'.handle = 0 /\ fin' = fin /\ par' = par
        /\ call.pc = "copy" /\ call'.pc = "submit" /\ call.idle = 1 - disp.index
    BY CopyUnionIs DEF TInv, Shape, Turning
  <2>2. par.num \in Nat /\ Submitted \in Int /\ Types /\ Numbered(tde)
    BY Numbers DEF TInv, Shape
  <2>3. Submitted' \in Int /\ Submitted <= Submitted'
    BY <2>1, <2>2 DEF Submitted, Doubling
  <2>4. CASE tde' = tde
    BY <2>1, <2>3, <2>4, QueueStays
  <2>5. ASSUME NEW j \in Job, tde' = Append(tde, j), j.src # Canvas, j.dst = call.idle
        PROVE  Queued'
    <3>1. j.dst = 1 - disp.index
      BY <2>1, <2>5
    <3> QED
      BY <2>1, <2>3, <2>5, <3>1, QueueGrows
  <2> QED
    BY <2>4, <2>5, CopyUnionIs
<1> QED
  BY <1>1, <1>2

LEMMA CopyUnionFailsTurns == ASSUME TInv, Turning, Queued,
                                    NEW job \in BOOLEAN, CopyUnionFails(job), taint' = {}
             PROVE  Turning' /\ Queued'
<1>1. Turning'
  BY CopyUnionFailsIs DEF TInv, Types, Shape, Turning, Doubling, Straight, Swapping, Keeps
<1>2. Queued'
  <2>1. /\ disp' = disp /\ disp.handle = 0 /\ fin' = fin /\ par'.mode = par.mode
        /\ par'.num = par.num /\ call.pc = "copy" /\ call'.pc = "idle"
        /\ call.idle = 1 - disp.index
    BY CopyUnionFailsIs DEF Keeps, TInv, Shape, Turning
  <2>2. par.num \in Nat /\ Submitted \in Int /\ Types /\ Numbered(tde)
    BY Numbers DEF TInv, Shape
  <2>3. Submitted' \in Int /\ Submitted <= Submitted'
    BY <2>1, <2>2 DEF Submitted, Doubling
  <2>4. CASE tde' = tde
    BY <2>1, <2>3, <2>4, QueueStays
  <2>5. ASSUME NEW j \in Job, tde' = Append(tde, j), j.src # Canvas, j.dst = call.idle
        PROVE  Queued'
    <3>1. j.dst = 1 - disp.index
      BY <2>1, <2>5
    <3> QED
      BY <2>1, <2>3, <2>5, <3>1, QueueGrows
  <2> QED
    BY <2>4, <2>5, CopyUnionFailsIs
<1> QED
  BY <1>1, <1>2

LEMMA SubmitTurns == ASSUME TInv, Turning, Queued, NEW ok \in BOOLEAN,
                            NEW job \in BOOLEAN, Submit(ok, job), taint' = {}
             PROVE  Turning' /\ Queued'
<1>1. Turning'
  BY SubmitIs DEF TInv, Types, Shape, Turning, Doubling, Straight, Swapping, Keeps
<1>2. Queued'
  <2>1. /\ disp'.index = disp.index /\ disp'.handle = par.num /\ fin' = fin
        /\ par'.num = par.num /\ call.pc = "submit" /\ call'.pc = "idle"
        /\ DrawJob \in Job /\ DrawJob.num = par.num
    BY SubmitIs
  <2>2. DrawJob.dst = 1 - disp.index
    BY <2>1, SubmitIs DEF Turning
  <2>3. par.num \in Nat /\ Submitted \in Int /\ Types /\ Numbered(tde)
    BY Numbers DEF TInv, Shape
  <2>4. Submitted = par.num - 1 /\ Submitted' = par.num
    BY <2>1 DEF Submitted, Doubling
  <2>5. tde' = Append(tde, DrawJob)
    BY SubmitIs
  <2>6. Submitted' \in Int /\ Submitted <= Submitted' /\ disp'.handle > Submitted
        /\ DrawJob.num <= Submitted'
    BY <2>1, <2>3, <2>4
  <2> QED
    BY <2>1, <2>2, <2>5, <2>6, QueueGrows
<1> QED
  BY <1>1, <1>2

LEMMA ImmediateLockTurns == ASSUME TInv, Turning, Queued, ImmediateLock, taint' = {}
             PROVE  Turning' /\ Queued'
<1>1. Turning'
  BY ImmediateLockIs DEF TInv, Types, Shape, Turning, Doubling, Straight, Swapping
<1>2. Queued'
  BY ImmediateLockIs DEF TInv, Types, Shape, Turning, Queued, Submitted, Doubling, Straight, Swapping
<1> QED
  BY <1>1, <1>2

LEMMA ImmediateCopyTurns == ASSUME TInv, Turning, Queued, NEW ok \in BOOLEAN,
                            NEW job \in BOOLEAN, ImmediateCopy(ok, job), taint' = {}
             PROVE  Turning' /\ Queued'
<1>1. Turning'
  BY ImmediateCopyIs DEF TInv, Types, Shape, Turning, Doubling, Straight, Swapping, Keeps
<1>2. Queued'
  <2>1. /\ disp' = disp /\ fin' = fin /\ par'.mode = par.mode /\ par'.num = par.num
        /\ call.pc = "icopy" /\ call'.pc \in {"idle", "iblit"}
    BY ImmediateCopyIs DEF Keeps
  <2>2. par.mode = "IMMEDIATE" /\ call.idle = 1 - disp.index
    BY <2>1 DEF Turning, Straight
  <2>3. par.num \in Nat /\ Submitted \in Int /\ Types /\ Numbered(tde)
    BY Numbers DEF TInv, Shape
  <2>4. Submitted' \in Int /\ Submitted <= Submitted'
    BY <2>1, <2>3 DEF Submitted, Doubling
  <2>5. CASE tde' = tde
    BY <2>1, <2>2, <2>4, <2>5, QueueStays
  <2>6. ASSUME NEW j \in Job, tde' = Append(tde, j), j.src # Canvas, j.dst = call.idle
        PROVE  Queued'
    <3>1. j.dst = 1 - disp.index
      BY <2>2, <2>6
    <3> QED
      BY <2>1, <2>2, <2>4, <2>6, <3>1, QueueGrows
  <2> QED
    BY <2>5, <2>6, ImmediateCopyIs
<1> QED
  BY <1>1, <1>2

LEMMA ImmediateBlitTurns == ASSUME TInv, Turning, Queued, NEW ok \in BOOLEAN,
                            NEW job \in BOOLEAN, ImmediateBlit(ok, job), taint' = {}
             PROVE  Turning' /\ Queued'
<1>1. Turning'
  BY ImmediateBlitIs DEF TInv, Types, Shape, Turning, Doubling, Straight, Swapping, Keeps
<1>2. Queued'
  <2>1. /\ disp'.index = disp.index /\ fin' = fin /\ par'.mode = par.mode
        /\ par'.num = par.num /\ call.pc = "iblit" /\ call'.pc \in {"idle", "iblock"}
        /\ DrawJob \in Job /\ DrawJob.num = par.num
    BY ImmediateBlitIs DEF Keeps
  <2>2. par.mode = "IMMEDIATE" /\ DrawJob.dst = 1 - disp.index
    BY <2>1, ImmediateBlitIs DEF Turning, Straight
  <2>3. par.num \in Nat /\ Submitted \in Int /\ Types /\ Numbered(tde)
    BY Numbers DEF TInv, Shape
  <2>4. /\ Submitted' \in Int /\ Submitted <= Submitted' /\ DrawJob.num <= Submitted'
    BY <2>1, <2>3 DEF Submitted, Doubling
  <2>5. CASE tde' = tde
    BY <2>1, <2>2, <2>4, <2>5, QueueStays
  <2>6. CASE tde' = Append(tde, DrawJob)
    BY <2>1, <2>2, <2>4, <2>6, QueueGrows
  <2> QED
    BY <2>5, <2>6, ImmediateBlitIs
<1> QED
  BY <1>1, <1>2

LEMMA ImmediateSwapTurns == ASSUME TInv, Turning, Queued, ImmediateSwap, taint' = {}
             PROVE  Turning' /\ Queued'
<1>1. Turning'
  BY ImmediateSwapIs DEF TInv, Types, Shape, Turning, Doubling, Straight, Swapping
<1>2. Queued'
  BY ImmediateSwapIs DEF TInv, Types, Shape, Turning, Queued, Submitted, Doubling, Straight, Swapping
<1> QED
  BY <1>1, <1>2

LEMMA ImmediateClearVblTurns == ASSUME TInv, Turning, Queued, ImmediateClearVbl, taint' = {}
             PROVE  Turning' /\ Queued'
<1>1. Turning'
  BY ImmediateClearVblIs DEF TInv, Types, Shape, Turning, Doubling, Straight, Swapping
<1>2. Queued'
  BY ImmediateClearVblIs DEF TInv, Types, Shape, Turning, Queued, Submitted, Doubling, Straight, Swapping
<1> QED
  BY <1>1, <1>2

LEMMA ImmediateReturnTurns == ASSUME TInv, Turning, Queued, ImmediateReturn, taint' = {}
             PROVE  Turning' /\ Queued'
<1>1. Turning'
  BY ImmediateReturnIs DEF TInv, Types, Shape, Turning, Doubling, Straight, Swapping, Keeps
<1>2. Queued'
  BY ImmediateReturnIs DEF TInv, Types, Shape, Turning, Queued, Submitted, Doubling, Straight, Swapping, Keeps
<1> QED
  BY <1>1, <1>2

LEMMA PutLayerInfoTurns == ASSUME TInv, Turning, Queued, PutLayerInfo, taint' = {}
             PROVE  Turning' /\ Queued'
<1>1. Turning'
  BY PutLayerInfoIs DEF TInv, Types, Shape, Turning, Doubling, Straight, Swapping
<1>2. Queued'
  BY PutLayerInfoIs DEF TInv, Types, Shape, Turning, Queued, Submitted, Doubling, Straight, Swapping
<1> QED
  BY <1>1, <1>2

LEMMA PutSizeTurns == ASSUME TInv, Turning, Queued, NEW ok \in BOOLEAN, PutSize(ok), taint' = {}
             PROVE  Turning' /\ Queued'
<1>1. Turning'
  BY PutSizeIs DEF TInv, Types, Shape, Turning, Doubling, Straight, Swapping
<1>2. Queued'
  BY PutSizeIs DEF TInv, Types, Shape, Turning, Queued, Submitted, Doubling, Straight, Swapping
<1> QED
  BY <1>1, <1>2

LEMMA PutShowTurns == ASSUME TInv, Turning, Queued, PutShow, taint' = {}
             PROVE  Turning' /\ Queued'
<1>1. Turning'
  BY PutShowIs DEF TInv, Types, Shape, Turning, Doubling, Straight, Swapping
<1>2. Queued'
  BY PutShowIs DEF TInv, Types, Shape, Turning, Queued, Submitted, Doubling, Straight, Swapping
<1> QED
  BY <1>1, <1>2

LEMMA TdeFinishTurns == ASSUME TInv, Turning, Queued, TdeFinish, taint' = {}
             PROVE  Turning' /\ Queued'
<1>1. Turning'
  BY TdeFinishIs DEF TInv, Types, Shape, Turning, Doubling, Straight, Swapping
<1>2. Queued'
  <2>1. Types /\ Numbered(tde)
    BY DEF TInv, Shape
  <2>2. /\ Len(tde) \in Nat /\ Len(tde') = Len(tde) - 1 /\ 1 \in 1 .. Len(tde)
        /\ \A i \in 1 .. Len(tde') : i + 1 \in 1 .. Len(tde) /\ tde'[i] = tde[i + 1]
        /\ disp' = disp /\ par' = par /\ Submitted' = Submitted
    BY TdeFinishIs DEF Submitted
  <2>3. \A i \in 1 .. Len(fin') :
          \/ i \in 1 .. Len(fin) /\ fin'[i] = fin[i]
          \/ tde[1].src = Canvas /\ fin'[i] = tde[1].num
    <3>1. fin \in Seq(1 .. MaxRefresh) /\ Len(fin) \in Nat
      BY <2>1 DEF Types
    <3>2. CASE fin' = fin
      BY <3>2
    <3>3. CASE tde[1].src = Canvas /\ tde[1].num \in 1 .. MaxRefresh
               /\ fin' = Append(fin, tde[1].num)
      BY <3>1, <3>3
    <3> QED
      BY <3>2, <3>3, TdeFinishIs
  <2>4. \A i \in 1 .. Len(tde') : /\ tde'[i].dst = 1 - disp'.index
                                  /\ tde'[i].src = Canvas => tde'[i].num <= Submitted'
    BY <2>2 DEF Queued
  <2>5. \A i \in 1 .. Len(fin') : fin'[i] <= Submitted'
    BY <2>2, <2>3 DEF Queued
  <2>6. ASSUME par.mode = "DOUBLE"
        PROVE  /\ \A i \in 1 .. Len(fin') : fin'[i] = disp.handle => tde' = <<>>
               /\ \A i \in 1 .. Len(tde') :
                    tde'[i].src = Canvas /\ tde'[i].num = disp.handle => i = Len(tde')
    <3>1. tde \in Seq(Job) /\ tde' \in Seq(Job) /\ tde # <<>>
      BY <2>1, TdeFinishIs DEF Types
    <3>2. ASSUME tde[1].src = Canvas, tde[1].num = disp.handle
          PROVE  tde' = <<>>
      <4>1. 1 = Len(tde)
        BY <2>2, <2>6, <3>2 DEF Queued
      <4> QED
        BY <2>2, <3>1, <4>1
    <3>3. \A i \in 1 .. Len(fin) : fin[i] # disp.handle
      BY <2>6, <3>1 DEF Queued
    <3>4. \A i \in 1 .. Len(fin') : fin'[i] = disp.handle => tde' = <<>>
      BY <2>3, <3>2, <3>3
    <3>5. ASSUME NEW i \in 1 .. Len(tde'), tde'[i].src = Canvas, tde'[i].num = disp.handle
          PROVE  i = Len(tde')
      <4>1. i + 1 = Len(tde)
        BY <2>2, <2>6, <3>5 DEF Queued
      <4> QED
        BY <2>2, <4>1
    <3> QED
      BY <3>4, <3>5
  <2> QED
    BY <2>2, <2>4, <2>5, <2>6 DEF Queued
<1> QED
  BY <1>1, <1>2

LEMMA TdeCallbackTurns == ASSUME TInv, Turning, Queued, TdeCallback, taint' = {}
             PROVE  Turning' /\ Queued'
<1>1. Turning'
  <2>1. /\ par' = par /\ call' = call /\ vo' = vo /\ tde' = tde /\ disp'.index = disp.index
        /\ fin # <<>> /\ par.num # 0
    BY TdeCallbackIs DEF Turning
  <2>2. CASE disp'.needFlip = disp.needFlip
    BY <2>1, <2>2 DEF Turning
  <2>3. CASE par.mode = "DOUBLE" /\ disp.handle = fin[1]
    <3>1. Types /\ Numbered(tde) /\ 1 \in 1 .. Len(fin)
      BY TdeCallbackIs DEF TInv, Shape
    <3>2. tde = <<>> /\ disp.handle # 0
      BY <2>3, <3>1, Numbers DEF Queued
    <3>3. call.pc \notin {"copy", "submit", "iswap"} \cup Straight \cup Swapping
      BY <2>3, <3>2 DEF TInv, Shape, Turning, Straight, Swapping
    <3>4. call.pc \in {"idle", "gate", "addr", "pick", "size"}
      BY <3>1, <3>3, CallIs DEF Types, Places, Straight, Swapping
    <3> QED
      BY <2>1, <2>3, <3>2, <3>4 DEF Turning
  <2> QED
    BY <2>2, <2>3, TdeCallbackIs
<1>2. Queued'
  <2>1. /\ UNCHANGED <<par, tde, call>> /\ disp'.index = disp.index
        /\ disp'.handle = disp.handle
        /\ \A i \in 1 .. Len(fin') : i + 1 \in 1 .. Len(fin) /\ fin'[i] = fin[i + 1]
    BY TdeCallbackIs
  <2>2. Submitted' = Submitted
    BY <2>1 DEF Submitted
  <2> QED
    BY <2>1, <2>2 DEF Queued
<1> QED
  BY <1>1, <1>2

LEMMA FrameStartTurns == ASSUME TInv, Turning, Queued, FrameStart, taint' = {}
             PROVE  Turning' /\ Queued'
<1>1. Turning'
  BY FrameStartIs DEF TInv, Types, Shape, Turning, Doubling, Straight, Swapping
<1>2. Queued'
  BY FrameStartIs DEF TInv, Types, Shape, Turning, Queued, Submitted, Doubling, Straight, Swapping
<1> QED
  BY <1>1, <1>2

LEMMA VerticalTimingTurns == ASSUME TInv, Turning, Queued, VerticalTiming, taint' = {}
                             PROVE  Turning' /\ Queued'
<1>1. par.doRefresh /\ par \in Pars /\ UNCHANGED <<buf, tde, fin, call, frames>>
  BY DEF VerticalTiming, TInv, Types
<1>2. vo.live = vo.reg
  BY <1>1 DEF Turning
<1>3. CASE ~(par.show /\ ~par.modifying)
  <2>1. Turning'
    BY <1>2, <1>3, NoUpdateIs DEF Turning, Swapping
  <2>2. Submitted' = Submitted
    BY <1>3, NoUpdateIs DEF Submitted
  <2>3. Queued'
    BY <1>3, <2>2, NoUpdateIs DEF Queued
  <2> QED
    BY <2>1, <2>3
<1>4. CASE par.show /\ ~par.modifying
  <2> DEFINE at == IF par.addrMask THEN par.screenAddr ELSE disp.index
             flip == par.mode = "DOUBLE" /\ disp.needFlip
             to == IF flip THEN 1 - at ELSE at
  <2>1. VoUpdate
    BY <1>4 DEF VerticalTiming
  <2>2. /\ disp'.index = to /\ disp'.handle = disp.handle
        /\ disp'.needFlip = (disp.needFlip /\ ~flip)
        /\ vo'.live = vo.live /\ vo'.reg = IF flip \/ par.addrMask THEN to ELSE vo.reg
        /\ par'.num = par.num /\ par'.mode = par.mode /\ par'.modifying = par.modifying
        /\ ~par'.addrMask /\ par'.vblflag /\ ~par'.doRefresh
        /\ ~(flip /\ call.pc \in {"addr", "pick"})
    <3>1. /\ at = IF par.addrMask THEN par.screenAddr ELSE disp.index
          /\ flip = (par.mode = "DOUBLE" /\ disp.needFlip)
          /\ to = IF flip THEN 1 - at ELSE at
      OBVIOUS
    <3> HIDE DEF at, flip, to
    <3> QED
      BY <2>1, <3>1, VoUpdateIs
  <2>3. at = disp.index
    BY DEF Turning
  <2>4. Submitted' = Submitted
    BY <1>1, <2>2 DEF Submitted
  <2>5. CASE flip
    <3>1. /\ tde = <<>> /\ call.pc \in {"idle", "gate", "size"} /\ to = 1 - disp.index
          /\ par.mode = "DOUBLE" /\ ~disp'.needFlip /\ vo'.reg = to
      BY <2>2, <2>3, <2>5 DEF Turning
    <3>2. Turning'
      BY <1>1, <2>2, <3>1 DEF Turning, Doubling, Straight, Swapping
    <3>3. Queued'
      BY <1>1, <2>2, <2>4, <3>1 DEF Queued
    <3> QED
      BY <3>2, <3>3
  <2>6. CASE ~flip
    <3>1. /\ to = disp.index /\ (disp'.needFlip => disp.needFlip)
          /\ vo'.reg = IF par.addrMask THEN disp.index ELSE vo.reg
      BY <2>2, <2>3, <2>6
    <3>2. par.addrMask => tde = <<>> /\ call.pc \in Swapping
      BY DEF Turning
    <3>3. vo'.reg = disp.index
      BY <3>1 DEF Turning
    <3>4. Turning'
      <4> HIDE DEF to, flip, at
      <4> QED
        BY <1>1, <1>2, <2>2, <3>1, <3>2, <3>3 DEF Turning, Doubling, Straight, Swapping
    <3>5. Queued'
      BY <1>1, <2>2, <2>4, <3>1 DEF Queued
    <3> QED
      BY <3>4, <3>5
  <2> QED
    BY <2>5, <2>6
<1> QED
  BY <1>3, <1>4

LEMMA PStep == IInv /\ [Next]_vars => IInv'
<1> SUFFICES ASSUME IInv, [Next]_vars PROVE IInv'
  OBVIOUS
<1>1. TInv /\ TInv'
  BY TStep DEF IInv
<1> SUFFICES ASSUME taint' = {} PROVE Turning' /\ Queued'
  BY <1>1 DEF IInv
<1>2. ASSUME taint = {}
      PROVE  Turning /\ Queued
  BY <1>2 DEF IInv
<1>3. CASE Refresh
  BY <1>1, <1>2, <1>3, RefreshIs, RefreshTurns
<1>4. CASE PassGate
  BY <1>1, <1>2, <1>4, PassGateIs, PassGateTurns
<1>5. CASE GetLayerAddr
  BY <1>1, <1>2, <1>5, GetLayerAddrIs, GetLayerAddrTurns
<1>6. CASE PickIdle
  BY <1>1, <1>2, <1>6, PickIdleIs, PickIdleTurns
<1>7. ASSUME NEW job \in BOOLEAN, CopyUnion(job) PROVE Turning' /\ Queued'
  BY <1>1, <1>2, <1>7, CopyUnionIs, CopyUnionTurns
<1>8. ASSUME NEW job \in BOOLEAN, CopyUnionFails(job) PROVE Turning' /\ Queued'
  BY <1>1, <1>2, <1>8, CopyUnionFailsIs, CopyUnionFailsTurns
<1>9. ASSUME NEW ok \in BOOLEAN, NEW job \in BOOLEAN, Submit(ok, job) PROVE Turning' /\ Queued'
  BY <1>1, <1>2, <1>9, SubmitIs, SubmitTurns
<1>10. CASE ImmediateLock
  BY <1>1, <1>2, <1>10, ImmediateLockIs, ImmediateLockTurns
<1>11. ASSUME NEW ok \in BOOLEAN, NEW job \in BOOLEAN, ImmediateCopy(ok, job) PROVE Turning' /\ Queued'
  BY <1>1, <1>2, <1>11, ImmediateCopyIs, ImmediateCopyTurns
<1>12. ASSUME NEW ok \in BOOLEAN, NEW job \in BOOLEAN, ImmediateBlit(ok, job) PROVE Turning' /\ Queued'
  BY <1>1, <1>2, <1>12, ImmediateBlitIs, ImmediateBlitTurns
<1>13. CASE ImmediateSwap
  BY <1>1, <1>2, <1>13, ImmediateSwapIs, ImmediateSwapTurns
<1>14. CASE ImmediateClearVbl
  BY <1>1, <1>2, <1>14, ImmediateClearVblIs, ImmediateClearVblTurns
<1>15. CASE ImmediateReturn
  BY <1>1, <1>2, <1>15, ImmediateReturnIs, ImmediateReturnTurns
<1>16. CASE PutLayerInfo
  BY <1>1, <1>2, <1>16, PutLayerInfoIs, PutLayerInfoTurns
<1>17. ASSUME NEW ok \in BOOLEAN, PutSize(ok) PROVE Turning' /\ Queued'
  BY <1>1, <1>2, <1>17, PutSizeIs, PutSizeTurns
<1>18. CASE PutShow
  BY <1>1, <1>2, <1>18, PutShowIs, PutShowTurns
<1>19. CASE TdeFinish
  BY <1>1, <1>2, <1>19, TdeFinishIs, TdeFinishTurns
<1>20. CASE TdeCallback
  BY <1>1, <1>2, <1>20, TdeCallbackIs, TdeCallbackTurns
<1>21. CASE FrameStart
  BY <1>1, <1>2, <1>21, FrameStartIs, FrameStartTurns
<1>22. CASE VerticalTiming
  <2>1. taint = {}
    <3>1. CASE par.show /\ ~par.modifying
      BY <1>1, <1>22, <3>1, VoUpdateIs DEF VerticalTiming
    <3>2. CASE ~(par.show /\ ~par.modifying)
      BY <1>1, <1>22, <3>2, NoUpdateIs
    <3> QED
      BY <3>1, <3>2
  <2> QED
    BY <1>1, <1>2, <1>22, <2>1, VerticalTimingTurns
<1>23. CASE UNCHANGED vars
  BY <1>2, <1>23 DEF vars, Turning, Queued, Submitted
<1> QED
  BY <1>3, <1>4, <1>5, <1>6, <1>7, <1>8, <1>9, <1>10, <1>11, <1>12, <1>13, <1>14, <1>15, <1>16, <1>17, <1>18, <1>19, <1>20, <1>21, <1>22, <1>23 DEF Next, Ioctl

LEMMA Inductive == Spec => []IInv
<1>1. Init => IInv
  BY PInit
<1>2. IInv /\ [Next]_vars => IInv'
  BY PStep
<1> QED
  BY <1>1, <1>2, PTL DEF Spec

(***************************************************************************)
(* TypeOK: every value keeps its type; the index and the address stay      *)
(* buffer numbers and the union rectangle stays on the screen.             *)
(***************************************************************************)
THEOREM TypeCorrect == Spec => []TypeOK
<1>1. IInv => TypeOK
  BY TypesAre DEF IInv, TInv
<1> QED
  BY <1>1, Inductive, PTL

(***************************************************************************)
(* NoTearing: the engine never draws into the buffer that is scanned out   *)
(* (hifb_refresh_2buf, hifb_vo_callback), for every screen and every       *)
(* number of refreshes, in both modes.                                     *)
(***************************************************************************)
THEOREM NeverTears == Spec => []NoTearing
<1>1. ASSUME IInv, taint = {}, NEW i \in DOMAIN tde
      PROVE  tde[i].dst # vo.live
  <2>1. TInv /\ Turning /\ Queued
    BY <1>1 DEF IInv
  <2>2. tde \in Seq(Job) /\ DOMAIN tde = 1 .. Len(tde) /\ tde # <<>> /\ disp.index \in Buffers
    BY <1>1, <2>1, DispIs DEF TInv, Types
  <2>3. vo.live = vo.reg /\ vo.reg = disp.index
    BY <2>1, <2>2 DEF Turning
  <2>4. tde[i].dst = 1 - disp.index
    BY <2>1, <2>2 DEF Queued
  <2> QED
    BY <2>2, <2>3, <2>4, OtherBuffer
<1>2. IInv => NoTearing
  BY <1>1 DEF NoTearing
<1> QED
  BY <1>2, Inductive, PTL

-----------------------------------------------------------------------------
(***************************************************************************)
(* What a queue of jobs draws.  All of them draw to one buffer; m is what   *)
(* it has now, s what the buffer that is copied from has.                   *)
(***************************************************************************)
Paint(j, s, c) == IF j.src = Canvas THEN j.num ELSE s[c]

\* the jobs of q will have cell c at v: as the last one that covers it has it
Comes(q, m, s, c, v) ==
    \/ v = m[c] /\ \A i \in 1 .. Len(q) : c \notin Covers(q[i].rect)
    \/ \E i \in 1 .. Len(q) : /\ c \in Covers(q[i].rect) /\ v = Paint(q[i], s, c)
                              /\ \A k \in 1 .. Len(q) : k > i => c \notin Covers(q[k].rect)

LEMMA ComesNothing == ASSUME NEW m, NEW s, NEW c, NEW v
                      PROVE  Comes(<<>>, m, s, c, v) <=> v = m[c]
  BY DEF Comes

LEMMA ComesPush ==
    ASSUME NEW q \in Seq(Job), NEW j \in Job, NEW m, NEW s, NEW c, NEW v
    PROVE  /\ c \in Covers(j.rect) /\ v = Paint(j, s, c) => Comes(Append(q, j), m, s, c, v)
           /\ c \notin Covers(j.rect) /\ Comes(q, m, s, c, v) =>
                Comes(Append(q, j), m, s, c, v)
<1> DEFINE p == Append(q, j)
<1>1. /\ Len(p) = Len(q) + 1 /\ Len(q) \in Nat /\ p[Len(q) + 1] = j
      /\ \A i \in 1 .. Len(q) : p[i] = q[i]
  OBVIOUS
<1> DEFINE N == Len(q)
<1>2. /\ N \in Nat /\ p[N + 1] = j /\ N + 1 \in 1 .. N + 1 /\ Len(p) = N + 1
      /\ \A i \in 1 .. N : p[i] = q[i] /\ i \in 1 .. N + 1
      /\ \A i \in 1 .. N + 1 : i \in 1 .. N \/ i = N + 1
      /\ \A k \in 1 .. N + 1 : ~(k > N + 1)
  BY <1>1
<1> HIDE DEF p
<1>3. ASSUME c \in Covers(j.rect), v = Paint(j, s, c) PROVE Comes(p, m, s, c, v)
  <2> HIDE DEF N
  <2>1. /\ c \in Covers(p[N + 1].rect) /\ v = Paint(p[N + 1], s, c)
        /\ \A k \in 1 .. N + 1 : k > N + 1 => c \notin Covers(p[k].rect)
    BY <1>2, <1>3
  <2> QED
    BY <1>2, <2>1 DEF Comes
<1>4. ASSUME c \notin Covers(j.rect), Comes(q, m, s, c, v) PROVE Comes(p, m, s, c, v)
  <2>1. CASE v = m[c] /\ \A i \in 1 .. N : c \notin Covers(q[i].rect)
    <3> HIDE DEF N
    <3>1. \A i \in 1 .. N + 1 : c \notin Covers(p[i].rect)
      BY <1>2, <1>4, <2>1
    <3> QED
      BY <1>2, <2>1, <3>1 DEF Comes
  <2>2. ASSUME NEW i \in 1 .. N, c \in Covers(q[i].rect), v = Paint(q[i], s, c),
               \A k \in 1 .. N : k > i => c \notin Covers(q[k].rect)
        PROVE  Comes(p, m, s, c, v)
    <3> HIDE DEF N
    <3>1. \A k \in 1 .. N + 1 : k > i => c \notin Covers(p[k].rect)
      BY <1>2, <1>4, <2>2
    <3>2. i \in 1 .. N + 1 /\ c \in Covers(p[i].rect) /\ v = Paint(p[i], s, c)
      BY <1>2, <2>2
    <3> QED
      BY <1>2, <3>1, <3>2 DEF Comes
  <2> QED
    BY <1>4, <2>1, <2>2 DEF Comes
<1> QED
  BY <1>3, <1>4 DEF p

LEMMA ComesPop ==
    ASSUME NEW q, NEW t, Len(q) \in Nat, Len(t) = Len(q) - 1, 1 \in 1 .. Len(q),
           \A i \in 1 .. Len(t) : t[i] = q[i + 1],
           NEW m, NEW n, NEW s, NEW c, NEW v, Comes(q, m, s, c, v),
           n[c] = IF c \in Covers(q[1].rect) THEN Paint(q[1], s, c) ELSE m[c]
    PROVE  Comes(t, n, s, c, v)
<1> DEFINE N == Len(t)
<1>1. /\ N \in Nat /\ Len(q) = N + 1
      /\ \A i \in 1 .. N : t[i] = q[i + 1]
      /\ \A i \in 1 .. N : i + 1 \in 1 .. N + 1 /\ i + 1 > 1
      /\ \A i \in 1 .. N + 1 : i # 1 => i - 1 \in 1 .. N /\ t[i - 1] = q[i]
  <2>1. N \in Nat /\ Len(q) = N + 1
    OBVIOUS
  <2>2. \A i \in 1 .. N : t[i] = q[i + 1]
    OBVIOUS
  <2> HIDE DEF N
  <2>3. \A i \in 1 .. N : i + 1 \in 1 .. N + 1 /\ i + 1 > 1
    BY <2>1
  <2>4. ASSUME NEW i \in 1 .. N + 1, i # 1 PROVE i - 1 \in 1 .. N /\ t[i - 1] = q[i]
    <3>1. i - 1 \in 1 .. N /\ (i - 1) + 1 = i
      BY <2>1, <2>4
    <3> QED
      BY <2>2, <3>1
  <2> QED
    BY <2>1, <2>2, <2>3, <2>4, Zenon
<1>2. CASE v = m[c] /\ \A i \in 1 .. N + 1 : c \notin Covers(q[i].rect)
  <2>1. v = n[c]
    BY <1>1, <1>2
  <2>2. \A i \in 1 .. N : c \notin Covers(t[i].rect)
    <3> HIDE DEF N
    <3> QED
      BY <1>1, <1>2
  <2> QED
    BY <2>1, <2>2 DEF Comes
<1>3. ASSUME NEW i \in 1 .. N + 1, c \in Covers(q[i].rect), v = Paint(q[i], s, c),
             \A k \in 1 .. N + 1 : k > i => c \notin Covers(q[k].rect)
      PROVE  Comes(t, n, s, c, v)
  <2> HIDE DEF N
  <2>1. CASE i = 1
    <3>1. v = n[c]
      BY <1>3, <2>1
    <3>2. \A k \in 1 .. N : c \notin Covers(t[k].rect)
      BY <1>1, <1>3, <2>1
    <3> QED
      BY <3>1, <3>2 DEF Comes, N
  <2>2. CASE i # 1
    <3>1. i - 1 \in 1 .. N /\ t[i - 1] = q[i]
      BY <1>1, <2>2
    <3>2. \A k \in 1 .. N : k > i - 1 => c \notin Covers(t[k].rect)
      <4>1. \A k \in 1 .. N : k > i - 1 => k + 1 > i
        BY <1>1
      <4> QED
        BY <1>1, <1>3, <4>1
    <3> QED
      BY <1>3, <3>1, <3>2 DEF Comes, N
  <2> QED
    BY <2>1, <2>2
<1> QED
  BY <1>1, <1>2, <1>3 DEF Comes

-----------------------------------------------------------------------------
(***************************************************************************)
(* Which cells of a rectangle others have.                                  *)
(***************************************************************************)
LEMMA NoCells == Covers(NoRect) = {}
  BY DEF Covers, NoRect

LEMMA AreaIs == ASSUME NEW r \in Areas
                PROVE  /\ r.x \in Nat /\ r.w \in Nat /\ (r = NoRect \/ r.w > 0)
                       /\ ~(r.w > 0) => Covers(r) = {}
<1>1. CASE r = NoRect
  BY <1>1, NoCells DEF NoRect
<1>2. CASE r \in Rects
  BY <1>2, RectIs
<1> QED
  BY <1>1, <1>2 DEF Areas

LEMMA ContainedIs == ASSUME NEW p \in Areas, NEW c \in Areas, IsContain(p, c)
                     PROVE  Covers(c) \subseteq Covers(p)
<1>1. p.x \in Nat /\ p.w \in Nat /\ c.x \in Nat /\ c.w \in Nat
  BY AreaIs
<1>2. c.x >= p.x /\ c.x + c.w <= p.x + p.w
  BY <1>1 DEF IsContain
<1> QED
  BY <1>1, <1>2 DEF Covers

LEMMA UnitedIs == ASSUME NEW a \in Areas, NEW b \in Rects
                  PROVE  Covers(a) \cup Covers(b) \subseteq Covers(UniteRect(a, b))
<1>1. /\ a.x \in Nat /\ a.w \in Nat /\ b.x \in Nat /\ b.w \in Nat
  BY AreaIs, RectIs
<1>2. CASE a.w = 0
  <2>1. Covers(a) = {}
    BY <1>2, AreaIs
  <2> QED
    BY <1>2, <2>1 DEF UniteRect
<1>3. CASE a.w # 0
  <2> DEFINE x == Min2(a.x, b.x)
             e == Max2(a.x + a.w, b.x + b.w)
  <2>1. UniteRect(a, b) = [x |-> x, w |-> e - x]
    BY <1>3 DEF UniteRect
  <2>2. /\ x \in Nat /\ e \in Nat /\ x <= a.x /\ x <= b.x
        /\ a.x + a.w <= e /\ b.x + b.w <= e
    BY <1>1 DEF Min2, Max2
  <2> HIDE DEF x, e
  <2>3. Covers(UniteRect(a, b)) = x .. e - 1
    BY <2>1, <2>2 DEF Covers
  <2>4. ASSUME NEW c \in a.x .. a.x + a.w - 1 PROVE c \in x .. e - 1
    BY <1>1, <2>2
  <2>5. ASSUME NEW c \in b.x .. b.x + b.w - 1 PROVE c \in x .. e - 1
    BY <1>1, <2>2
  <2> QED
    BY <2>3, <2>4, <2>5 DEF Covers
<1> QED
  BY <1>2, <1>3

-----------------------------------------------------------------------------
(***************************************************************************)
(* What is in the buffers, as long as nothing outside the protocol has      *)
(* happened.                                                                *)
(***************************************************************************)
\* cell c of the idle buffer is v when the engine has done its jobs
Will(c, v) == Comes(tde, buf[1 - disp.index], buf[disp.index], c, v)

\* the cells that the buffer of the index does not have as the newest picture has
\* them, and those that the idle one will not have so
Old == IF par.mode = "DOUBLE" /\ ~disp.fliped THEN Covers(disp.union) ELSE {}
Missing ==
    IF par.mode = "DOUBLE"
    THEN IF disp.fliped THEN Covers(disp.union)
         ELSE IF call.pc = "submit" THEN Covers(call.rect) ELSE {}
    ELSE IF call.pc = "iblit" THEN Covers(call.rect) ELSE Covers(disp.union)

Complete ==
    /\ \A c \in Cells \ Old : buf[disp.index][c] = Newest[c]
    /\ \A c \in Cells \ Missing : Will(c, Newest[c])
    /\ call.pc = "iblock" =>
         disp.union = call.rect /\ \A c \in Cells : Will(c, Drawn[c])

\* whatever is or comes on the screen is a picture
Whole(b) == \E k \in 1 .. Len(frames) : buf[b] = frames[k]

OnScreen ==
    /\ Whole(vo.live) /\ Whole(vo.reg) /\ Whole(disp.index)
    /\ vo.live # vo.reg => ~par.addrMask /\ (par.mode = "DOUBLE" => disp.fliped)
    /\ par.num = 0 => vo.live = vo.reg /\ buf[0] = Newest /\ buf[1] = Newest

\* copies come from the buffer of the index, an address read is that buffer's, and
\* no flip is due, nor can one become due, before something was drawn after the last
Copying(q) == \A i \in 1 .. Len(q) : q[i].src # Canvas

Orderly ==
    /\ \A i \in 1 .. Len(tde) : tde[i].src # Canvas => tde[i].src = disp.index
    /\ call.pc \in {"pick", "copy"} => call.osd = disp.index
    /\ par.mode = "DOUBLE" =>
         /\ \A i \in 1 .. Len(fin) :
              fin[i] = disp.handle => i = Len(fin) /\ ~disp.needFlip /\ ~disp.fliped
         /\ disp.fliped => Copying(tde) /\ ~disp.needFlip /\ call.pc # "submit"

LEMMA NoneCopying == Copying(<<>>)
  BY DEF Copying

Pictured == Orderly /\ Complete /\ OnScreen

LEMMA PicturesAre ==
    ASSUME Types, frames # <<>>
    PROVE  /\ buf[0] \in Pictures /\ buf[1] \in Pictures /\ Newest \in Pictures
           /\ disp.index \in Buffers /\ 1 - disp.index \in Buffers /\ 1 - disp.index # disp.index
           /\ buf[disp.index] \in Pictures /\ buf[1 - disp.index] \in Pictures
           /\ Len(frames) \in 1 .. Len(frames)
<1>1. disp.index \in Buffers /\ buf \in [Buffers -> Pictures]
  BY DispIs DEF Types
<1>2. 1 - disp.index \in Buffers /\ 1 - disp.index # disp.index
  BY <1>1, OtherBuffer
<1>3. frames \in Seq(Pictures) /\ Len(frames) \in 1 .. Len(frames)
  BY DEF Types
<1>4. 0 \in Buffers /\ 1 \in Buffers
  BY DEF Buffers
<1> QED
  BY <1>1, <1>2, <1>3, <1>4 DEF Newest

\* a step that leaves the buffers, the jobs and the address alone
LEMMA CompleteStays ==
    ASSUME Complete, UNCHANGED <<buf, tde, frames>>, disp'.index = disp.index,
           Old \subseteq Old', Missing \subseteq Missing',
           call'.pc = "iblock" => /\ call.pc = "iblock" /\ call'.rect = call.rect
                                  /\ disp'.union = disp.union /\ par'.num = par.num
    PROVE  Complete'
<1>1. Newest' = Newest
  BY DEF Newest
<1>2. \A c \in Cells \ Old' : buf[disp.index][c] = Newest[c]
  BY DEF Complete
<1>3. \A c \in Cells \ Missing' : Will(c, Newest[c])'
  BY <1>1 DEF Complete, Will
<1>4. ASSUME call'.pc = "iblock"
      PROVE  disp'.union = call'.rect /\ \A c \in Cells : Will(c, Drawn[c])'
  <2>1. Drawn' = Drawn
    BY <1>1, <1>4 DEF Drawn
  <2>2. \A c \in Cells : Will(c, Drawn[c])
    BY <1>4 DEF Complete
  <2> QED
    BY <1>4, <2>1, <2>2 DEF Complete, Will
<1> QED
  BY <1>1, <1>2, <1>3, <1>4 DEF Complete

LEMMA OnScreenStays ==
    ASSUME OnScreen, UNCHANGED <<buf, vo, frames>>, disp'.index = disp.index,
           vo.live # vo.reg =>
             /\ par'.addrMask = par.addrMask
             /\ par'.mode = "DOUBLE" => par.mode = "DOUBLE" /\ (disp.fliped => disp'.fliped),
           par'.num = 0 => par.num = 0
    PROVE  OnScreen'
<1>1. Newest' = Newest
  BY DEF Newest
<1>2. Whole(vo.live)' /\ Whole(vo.reg)' /\ Whole(disp.index)'
  BY DEF OnScreen, Whole
<1> QED
  BY <1>1, <1>2 DEF OnScreen

\* a step that does not look at the pictures at all
LEMMA PlainStep ==
    ASSUME Pictured, UNCHANGED <<buf, vo, tde, frames>>,
           disp'.index = disp.index, disp'.fliped = disp.fliped, disp'.union = disp.union,
           par'.mode = par.mode, par'.addrMask = par.addrMask, par'.num = 0 => par.num = 0,
           \/ UNCHANGED call /\ par'.num = par.num
           \/ {call.pc, call'.pc} \cap {"submit", "iblit", "iblock"} = {}
    PROVE  Complete' /\ OnScreen'
<1>1. Old' = Old
  BY DEF Old
<1>2. Missing' = Missing
  BY DEF Missing
<1>3. call'.pc = "iblock" => /\ call.pc = "iblock" /\ call'.rect = call.rect
                             /\ par'.num = par.num
  OBVIOUS
<1>4. Complete'
  BY <1>1, <1>2, <1>3, CompleteStays DEF Pictured
<1>5. OnScreen'
  BY OnScreenStays DEF Pictured
<1> QED
  BY <1>4, <1>5

LEMMA OrderlyStays ==
    ASSUME Pictured, UNCHANGED <<tde, fin>>, disp'.index = disp.index,
           call'.pc \in {"pick", "copy"} => call'.osd = disp.index,
           par'.mode = "DOUBLE" =>
             /\ par.mode = "DOUBLE" /\ (disp'.fliped => disp.fliped)
             /\ disp'.needFlip => disp.needFlip
             /\ disp'.handle = disp.handle \/ \A i \in 1 .. Len(fin) : fin[i] # disp'.handle
             /\ call'.pc = "submit" => call.pc = "submit"
    PROVE  Orderly'
<1>1. \A i \in 1 .. Len(tde') : tde'[i].src # Canvas => tde'[i].src = disp'.index
  BY DEF Pictured, Orderly
<1>2. ASSUME par'.mode = "DOUBLE"
      PROVE  /\ \A i \in 1 .. Len(fin') :
                  fin'[i] = disp'.handle => i = Len(fin') /\ ~disp'.needFlip /\ ~disp'.fliped
             /\ disp'.fliped => Copying(tde') /\ ~disp'.needFlip /\ call'.pc # "submit"
  <2>1. /\ \A i \in 1 .. Len(fin) :
              fin[i] = disp.handle => i = Len(fin) /\ ~disp.needFlip /\ ~disp.fliped
        /\ disp.fliped => Copying(tde) /\ ~disp.needFlip /\ call.pc # "submit"
    BY <1>2 DEF Pictured, Orderly
  <2> QED
    BY <1>2, <2>1
<1> QED
  BY <1>1, <1>2 DEF Orderly

LEMMA InitPictured == Init => Pictured
<1> SUFFICES ASSUME Init PROVE Pictured
  OBVIOUS
<1> DEFINE blank == [c \in Cells |-> 0]
<1>1. /\ buf[0] = blank /\ buf[1] = blank /\ frames = <<blank>> /\ tde = <<>> /\ fin = <<>>
      /\ disp.index = 0 /\ ~disp.fliped /\ disp.union = NoRect /\ vo.live = 0 /\ vo.reg = 0
      /\ call.pc = "idle"
  BY DEF Init, NoCall
<1>2. Newest = blank /\ Len(frames) = 1 /\ frames[1] = blank
  BY <1>1 DEF Newest
<1> HIDE DEF blank
<1>3. Orderly
  BY <1>1, NoneCopying DEF Orderly
<1>4. Complete
  <2>1. \A c : Will(c, Newest[c])
    BY <1>1, <1>2, ComesNothing DEF Will
  <2> QED
    BY <1>1, <1>2, <2>1 DEF Complete
<1>5. OnScreen
  BY <1>1, <1>2 DEF OnScreen, Whole
<1> QED
  BY <1>3, <1>4, <1>5 DEF Pictured

-----------------------------------------------------------------------------
LEMMA RefreshPictured ==
    ASSUME TInv, Turning, Queued, Pictured, Refresh, taint' = {}
    PROVE  Pictured'
<1>1. /\ call.pc = "idle" /\ call'.pc = "gate"
      /\ UNCHANGED <<buf, disp, par, vo, tde, fin, frames>>
  BY RefreshIs
<1>2. Complete' /\ OnScreen'
  BY <1>1, PlainStep
<1>3. Orderly'
  BY <1>1, OrderlyStays
<1> QED
  BY <1>2, <1>3 DEF Pictured

LEMMA PassGatePictured ==
    ASSUME TInv, Turning, Queued, Pictured, PassGate, taint' = {}
    PROVE  Pictured'
<1>1. /\ call.pc = "gate" /\ call'.pc \in {"addr", "ilock"}
      /\ UNCHANGED <<buf, disp, vo, tde, fin, frames>>
      /\ par'.mode = par.mode /\ par'.addrMask = par.addrMask /\ par'.num = par.num + 1
  BY PassGateIs DEF Keeps
<1>2. par'.num # 0
  <2>1. par.num \in Nat
    BY Numbers DEF TInv, Shape
  <2> QED
    BY <1>1, <2>1
<1>3. Complete' /\ OnScreen'
  BY <1>1, <1>2, PlainStep
<1>4. Orderly'
  BY <1>1, OrderlyStays
<1> QED
  BY <1>3, <1>4 DEF Pictured

\* the address in effect, or on its way, is the one of the buffer shown
LEMMA GetLayerAddrPictured ==
    ASSUME TInv, Turning, Queued, Pictured, GetLayerAddr, taint' = {}
    PROVE  Pictured'
<1>1. /\ call.pc = "addr" /\ call'.pc = "pick" /\ call'.osd \in {vo.reg, vo.live}
      /\ UNCHANGED <<buf, disp, par, vo, tde, fin, frames>>
  BY GetLayerAddrIs
<1>2. vo.live = vo.reg /\ vo.reg = disp.index
  BY <1>1 DEF Turning, Doubling, Swapping
<1>3. Complete' /\ OnScreen'
  BY <1>1, PlainStep
<1>4. Orderly'
  BY <1>1, <1>2, OrderlyStays
<1> QED
  BY <1>3, <1>4 DEF Pictured

LEMMA PickIdlePictured ==
    ASSUME TInv, Turning, Queued, Pictured, PickIdle, taint' = {}
    PROVE  Pictured'
<1>1. /\ call.pc = "pick" /\ call'.pc = "copy" /\ call'.osd = call.osd
      /\ UNCHANGED <<buf, par, vo, tde, fin, frames>>
      /\ disp'.index = disp.index /\ disp'.handle = 0 /\ disp'.needFlip = FALSE
      /\ disp'.fliped = disp.fliped /\ disp'.union = disp.union
  BY PickIdleIs
<1>2. call.osd = disp.index
  BY <1>1 DEF Pictured, Orderly
<1>3. \A i \in 1 .. Len(fin) : fin[i] # 0
  BY Numbers DEF TInv, Shape
<1>4. par.mode = "DOUBLE"
  BY <1>1 DEF Turning, Doubling
<1>5. Complete' /\ OnScreen'
  BY <1>1, PlainStep
<1>6. Orderly'
  BY <1>1, <1>2, <1>3, <1>4, OrderlyStays
<1> QED
  BY <1>5, <1>6 DEF Pictured

LEMMA ImmediateClearVblPictured ==
    ASSUME TInv, Turning, Queued, Pictured, ImmediateClearVbl, taint' = {}
    PROVE  Pictured'
<1>1. /\ call.pc = "ivbl" /\ call'.pc = "iwait"
      /\ UNCHANGED <<buf, disp, vo, tde, fin, frames>>
      /\ par'.mode = par.mode /\ par'.addrMask = par.addrMask /\ par'.num = par.num
  BY ImmediateClearVblIs
<1>2. Complete' /\ OnScreen'
  BY <1>1, PlainStep
<1>3. Orderly'
  BY <1>1, OrderlyStays
<1> QED
  BY <1>2, <1>3 DEF Pictured

LEMMA ImmediateReturnPictured ==
    ASSUME TInv, Turning, Queued, Pictured, ImmediateReturn, taint' = {}
    PROVE  Pictured'
<1>1. /\ call.pc = "iwait" /\ call'.pc = "idle"
      /\ UNCHANGED <<buf, disp, vo, tde, fin, frames>>
      /\ par'.mode = par.mode /\ par'.addrMask = par.addrMask /\ par'.num = par.num
  BY ImmediateReturnIs DEF Keeps
<1>2. Complete' /\ OnScreen'
  BY <1>1, PlainStep
<1>3. Orderly'
  BY <1>1, OrderlyStays
<1> QED
  BY <1>2, <1>3 DEF Pictured

\* the mode changes only while both buffers are as they were at the start
LEMMA PutLayerInfoPictured ==
    ASSUME TInv, Turning, Queued, Pictured, PutLayerInfo, taint' = {}
    PROVE  Pictured'
<1>1. /\ call.pc = "idle" /\ call'.pc = "size"
      /\ UNCHANGED <<buf, disp, vo, tde, fin, frames>>
      /\ par'.num = par.num /\ (par'.mode = par.mode \/ par.num = 0)
      /\ par'.addrMask = par.addrMask
  BY PutLayerInfoIs
<1>2. CASE par'.mode = par.mode
  <2>1. Complete' /\ OnScreen'
    BY <1>1, <1>2, PlainStep
  <2>2. Orderly'
    BY <1>1, <1>2, OrderlyStays
  <2> QED
    BY <2>1, <2>2 DEF Pictured
<1>3. CASE par.num = 0
  <2>1. /\ tde = <<>> /\ fin = <<>> /\ ~disp.needFlip
        /\ vo.live = vo.reg /\ buf[0] = Newest /\ buf[1] = Newest
    BY <1>3 DEF Turning, Pictured, OnScreen
  <2>2. Newest' = Newest
    BY <1>1 DEF Newest
  <2>3. buf[disp.index] = Newest /\ buf[1 - disp.index] = Newest
    <3>1. disp.index \in {0, 1}
      BY PicturesAre DEF TInv, Shape, Buffers
    <3> QED
      BY <2>1, <3>1
  <2>4. Complete'
    <3>1. \A c : Will(c, Newest[c])'
      BY <1>1, <2>1, <2>2, <2>3, ComesNothing DEF Will
    <3> QED
      BY <1>1, <2>2, <2>3, <3>1 DEF Complete
  <2>5. OnScreen'
    BY <1>1, <2>1, <2>2 DEF Pictured, OnScreen, Whole
  <2>6. Orderly'
    BY <1>1, <2>1, NoneCopying DEF Orderly
  <2> QED
    BY <2>4, <2>5, <2>6 DEF Pictured
<1> QED
  BY <1>1, <1>2, <1>3

LEMMA PutSizePictured ==
    ASSUME TInv, Turning, Queued, Pictured, NEW ok \in BOOLEAN, PutSize(ok), taint' = {}
    PROVE  Pictured'
<1>1. /\ call.pc = "size" /\ call'.pc = "idle"
      /\ UNCHANGED <<buf, disp, vo, tde, fin, frames>>
      /\ par'.mode = par.mode /\ par'.addrMask = par.addrMask /\ par'.num = par.num
  BY PutSizeIs
<1>2. Complete' /\ OnScreen'
  BY <1>1, PlainStep
<1>3. Orderly'
  BY <1>1, OrderlyStays
<1> QED
  BY <1>2, <1>3 DEF Pictured

LEMMA PutShowPictured ==
    ASSUME TInv, Turning, Queued, Pictured, PutShow, taint' = {}
    PROVE  Pictured'
<1>1. /\ call.pc = "idle" /\ UNCHANGED <<buf, disp, vo, tde, fin, call, frames>>
      /\ par'.mode = par.mode /\ par'.addrMask = par.addrMask /\ par'.num = par.num
  BY PutShowIs
<1>2. Complete' /\ OnScreen'
  BY <1>1, PlainStep
<1>3. Orderly'
  BY <1>1, OrderlyStays
<1> QED
  BY <1>2, <1>3 DEF Pictured

LEMMA TdeCallbackPictured ==
    ASSUME TInv, Turning, Queued, Pictured, TdeCallback, taint' = {}
    PROVE  Pictured'
<1>1. /\ UNCHANGED <<buf, par, vo, tde, call, frames>>
      /\ 1 \in 1 .. Len(fin) /\ \A i \in 1 .. Len(fin') : i + 1 \in 1 .. Len(fin) /\ fin'[i] = fin[i + 1]
      /\ disp'.index = disp.index /\ disp'.handle = disp.handle
      /\ disp'.fliped = disp.fliped /\ disp'.union = disp.union
      /\ \/ disp'.needFlip = disp.needFlip
         \/ disp'.needFlip /\ par.mode = "DOUBLE" /\ disp.handle = fin[1]
  BY TdeCallbackIs
<1>2. Complete' /\ OnScreen'
  BY <1>1, PlainStep
<1>3. ASSUME par.mode = "DOUBLE"
      PROVE  /\ \A i \in 1 .. Len(fin') :
                  fin'[i] = disp.handle => i = Len(fin') /\ ~disp'.needFlip /\ ~disp.fliped
             /\ disp.fliped => Copying(tde) /\ ~disp'.needFlip /\ call.pc # "submit"
  <2>1. /\ \A i \in 1 .. Len(fin) :
              fin[i] = disp.handle => i = Len(fin) /\ ~disp.needFlip /\ ~disp.fliped
        /\ disp.fliped => Copying(tde) /\ ~disp.needFlip /\ call.pc # "submit"
    BY <1>3 DEF Pictured, Orderly
  <2>2. fin' = Tail(fin) /\ fin # <<>> /\ Len(fin) \in Nat /\ Len(fin') = Len(fin) - 1
    BY DEF TdeCallback, TInv, Types
  <2>3. CASE disp'.needFlip = disp.needFlip
    <3>1. ASSUME NEW i \in 1 .. Len(fin'), fin'[i] = disp.handle
          PROVE  i = Len(fin') /\ ~disp.needFlip /\ ~disp.fliped
      <4>1. i + 1 \in 1 .. Len(fin) /\ fin[i + 1] = disp.handle
        BY <1>1, <3>1
      <4>2. i + 1 = Len(fin) /\ ~disp.needFlip /\ ~disp.fliped
        BY <2>1, <4>1
      <4>3. Len(fin') = Len(fin) - 1 /\ Len(fin) \in Nat /\ i \in Int
        BY <2>2
      <4> QED
        BY <4>2, <4>3
    <3> QED
      BY <2>1, <2>3, <3>1
  <2>4. CASE disp.handle = fin[1]
    <3>1. 1 = Len(fin) /\ ~disp.fliped
      BY <1>1, <2>1, <2>4
    <3>2. Len(fin') = 0
      BY <2>2, <3>1
    <3> QED
      BY <3>1, <3>2
  <2> QED
    BY <1>1, <2>3, <2>4
<1>4. Orderly'
  <2>1. \A i \in 1 .. Len(tde) : tde[i].src # Canvas => tde[i].src = disp.index
    BY DEF Pictured, Orderly
  <2>2. call.pc \in {"pick", "copy"} => call.osd = disp.index
    BY DEF Pictured, Orderly
  <2> QED
    BY <1>1, <1>3, <2>1, <2>2 DEF Orderly
<1> QED
  BY <1>2, <1>4 DEF Pictured

-----------------------------------------------------------------------------
(***************************************************************************)
(* The steps that give the engine a job.                                    *)
(***************************************************************************)
\* a copy of the union rectangle makes the idle buffer complete
LEMMA CopyCompletes ==
    ASSUME TInv, Complete, Old = {}, Missing = Covers(disp.union),
           NEW j \in Job, j.src = disp.index, j.rect = disp.union
    PROVE  \A c \in Cells :
             Comes(Append(tde, j), buf[1 - disp.index], buf[disp.index], c, Newest[c])
<1>1. tde \in Seq(Job) /\ j.src # Canvas
  BY PicturesAre DEF TInv, Types, Shape, Buffers, Canvas
<1> SUFFICES ASSUME NEW c \in Cells
             PROVE  Comes(Append(tde, j), buf[1 - disp.index], buf[disp.index], c, Newest[c])
  OBVIOUS
<1>2. CASE c \in Covers(disp.union)
  <2>1. Paint(j, buf[disp.index], c) = Newest[c]
    BY <1>1 DEF Paint, Complete
  <2> QED
    BY <1>1, <1>2, <2>1, ComesPush, Zenon
<1>3. CASE c \notin Covers(disp.union)
  <2>1. Comes(tde, buf[1 - disp.index], buf[disp.index], c, Newest[c])
    BY <1>3 DEF Complete, Will
  <2> QED
    BY <1>1, <1>3, <2>1, ComesPush, Zenon
<1> QED
  BY <1>2, <1>3

\* a blit of the rectangle makes what it lacks elsewhere the picture after it
LEMMA DrawCompletes ==
    ASSUME TInv, Complete, Missing \subseteq Covers(call.rect),
           DrawJob \in Job, DrawJob.src = Canvas, DrawJob.num = par.num,
           DrawJob.rect = call.rect
    PROVE  \A c \in Cells :
             Comes(Append(tde, DrawJob), buf[1 - disp.index], buf[disp.index], c, Drawn[c])
<1>1. tde \in Seq(Job)
  BY DEF TInv, Types
<1> SUFFICES ASSUME NEW c \in Cells
             PROVE  Comes(Append(tde, DrawJob), buf[1 - disp.index], buf[disp.index], c, Drawn[c])
  OBVIOUS
<1>2. Drawn[c] = IF c \in Covers(call.rect) THEN par.num ELSE Newest[c]
  BY DEF Drawn
<1>3. CASE c \in Covers(call.rect)
  <2>1. Paint(DrawJob, buf[disp.index], c) = Drawn[c]
    BY <1>2, <1>3 DEF Paint
  <2> QED
    BY <1>1, <1>3, <2>1, ComesPush, Zenon
<1>4. CASE c \notin Covers(call.rect)
  <2>1. Comes(tde, buf[1 - disp.index], buf[disp.index], c, Newest[c])
    BY <1>4 DEF Complete, Will
  <2> QED
    <3>1. Comes(tde, buf[1 - disp.index], buf[disp.index], c, Drawn[c])
      BY <1>2, <1>4, <2>1
    <3> QED
      BY <1>1, <1>4, <3>1, ComesPush, Zenon
<1> QED
  BY <1>3, <1>4

\* one job more, from the buffer of the index or the canvas
LEMMA SourcesGrow ==
    ASSUME TInv, Orderly, NEW j \in Job, tde' = Append(tde, j), disp'.index = disp.index,
           j.src # Canvas => j.src = disp.index
    PROVE  \A i \in 1 .. Len(tde') : tde'[i].src # Canvas => tde'[i].src = disp'.index
<1>1. /\ Len(tde') = Len(tde) + 1 /\ Len(tde) \in Nat
      /\ \A i \in 1 .. Len(tde) : tde'[i] = tde[i]
      /\ tde'[Len(tde) + 1] = j
  BY DEF TInv, Types
<1>2. \A i \in 1 .. Len(tde') : i \in 1 .. Len(tde) \/ i = Len(tde) + 1
  BY <1>1
<1> QED
  BY <1>1, <1>2 DEF Orderly

LEMMA CopyUnionPictured ==
    ASSUME TInv, Turning, Queued, Pictured, NEW job \in BOOLEAN, CopyUnion(job), taint' = {}
    PROVE  Pictured'
<1>1. /\ call.pc = "copy" /\ UNCHANGED <<buf, par, vo, fin, frames>>
      /\ call'.pc = "submit" /\ call'.rect = call.rect
      /\ disp'.index = disp.index /\ disp'.handle = disp.handle
  BY CopyUnionIs
<1>2. /\ par.mode = "DOUBLE" /\ call.osd = disp.index /\ disp.handle = 0
      /\ vo.live = vo.reg /\ Orderly /\ Complete /\ OnScreen
  BY <1>1 DEF Turning, Doubling, Pictured, Orderly, TInv, Shape
<1>3. /\ ~disp'.fliped
      /\ disp.fliped => disp'.union = NoRect
      /\ ~disp.fliped => disp'.union = disp.union
      /\ \/ tde' = tde /\ (disp.fliped => disp.union \in Rects
                                          /\ IsContain(call.rect, disp.union))
         \/ /\ disp.fliped
            /\ \E j \in Job : /\ tde' = Append(tde, j) /\ j.src # Canvas
                              /\ j.src = disp.index /\ j.rect = disp.union
  BY <1>2, CopyUnionIs
<1>4. Old' = Covers(disp'.union) /\ Missing' = Covers(call.rect)
  BY <1>1, <1>2, <1>3 DEF Old, Missing
<1>5. OnScreen'
  BY <1>1, <1>2, OnScreenStays
<1>6. \A i \in 1 .. Len(fin) : fin[i] # 0
  BY Numbers DEF TInv, Shape
<1>7. ASSUME \A i \in 1 .. Len(tde') : tde'[i].src # Canvas => tde'[i].src = disp'.index
      PROVE  Orderly'
  BY <1>1, <1>2, <1>3, <1>6, <1>7 DEF Orderly
<1>8. CASE ~disp.fliped
  <2>1. Old = Covers(disp.union) /\ Missing = {}
    BY <1>1, <1>2, <1>8 DEF Old, Missing
  <2>2. tde' = tde /\ disp'.union = disp.union
    BY <1>3, <1>8
  <2>3. Complete'
    BY <1>1, <1>2, <1>4, <2>1, <2>2, CompleteStays
  <2>4. Orderly'
    BY <1>1, <1>2, <1>7, <2>2 DEF Orderly
  <2> QED
    BY <1>5, <2>3, <2>4 DEF Pictured
<1>9. CASE disp.fliped
  <2>1. Old = {} /\ Missing = Covers(disp.union) /\ Old' = {}
    BY <1>1, <1>2, <1>3, <1>4, <1>9, NoCells DEF Old, Missing
  <2>2. CASE tde' = tde /\ disp.union \in Rects /\ IsContain(call.rect, disp.union)
    <3>1. Missing \subseteq Missing'
      <4>1. call.rect \in Areas /\ disp.union \in Areas
        BY CallIs, DispIs DEF TInv, Types
      <4> QED
        BY <1>4, <2>1, <2>2, <4>1, ContainedIs
    <3>2. Complete'
      BY <1>1, <1>2, <2>1, <2>2, <3>1, CompleteStays
    <3>3. Orderly'
      BY <1>1, <1>2, <1>7, <2>2 DEF Orderly
    <3> QED
      BY <1>5, <3>2, <3>3 DEF Pictured
  <2>3. ASSUME NEW j \in Job, tde' = Append(tde, j), j.src # Canvas,
               j.src = disp.index, j.rect = disp.union
        PROVE  Pictured'
    <3>1. \A c \in Cells :
            Comes(tde', buf[1 - disp.index], buf[disp.index], c, Newest[c])
      BY <1>2, <2>1, <2>3, CopyCompletes
    <3>2. Newest' = Newest
      BY <1>1 DEF Newest
    <3>3. \A c \in Cells : Will(c, Newest[c])'
      BY <1>1, <3>1, <3>2 DEF Will
    <3>4. \A c \in Cells : buf[disp.index][c] = Newest[c]
      BY <1>2, <2>1 DEF Complete
    <3>5. Complete'
      BY <1>1, <3>2, <3>3, <3>4 DEF Complete
    <3>6. Orderly'
      BY <1>1, <1>2, <1>7, <2>3, SourcesGrow
    <3> QED
      BY <1>5, <3>5, <3>6 DEF Pictured
  <2> QED
    BY <1>3, <1>9, <2>2, <2>3
<1> QED
  BY <1>8, <1>9

\* the copy of a call that fails may have been queued all the same
LEMMA CopyUnionFailsPictured ==
    ASSUME TInv, Turning, Queued, Pictured, NEW job \in BOOLEAN, CopyUnionFails(job), taint' = {}
    PROVE  Pictured'
<1>1. /\ call.pc = "copy" /\ call'.pc = "idle" /\ disp.fliped
      /\ UNCHANGED <<buf, disp, vo, fin, frames>>
      /\ par'.mode = par.mode /\ par'.addrMask = par.addrMask /\ par'.num = par.num
      /\ \/ tde' = tde
         \/ \E j \in Job : /\ tde' = Append(tde, j) /\ j.src # Canvas
                           /\ j.src = disp.index /\ j.rect = disp.union
  BY CopyUnionFailsIs DEF Keeps
<1>2. /\ par.mode = "DOUBLE" /\ disp.handle = 0 /\ vo.live = vo.reg
      /\ Orderly /\ Complete /\ OnScreen
  BY <1>1 DEF Turning, Doubling, Pictured, TInv, Shape
<1>3. CASE tde' = tde
  <2>1. Complete' /\ OnScreen'
    BY <1>1, <1>3, PlainStep
  <2>2. Orderly'
    BY <1>1, <1>3, OrderlyStays
  <2> QED
    BY <2>1, <2>2 DEF Pictured
<1>4. ASSUME NEW j \in Job, tde' = Append(tde, j), j.src # Canvas,
             j.src = disp.index, j.rect = disp.union
      PROVE  Pictured'
  <2>1. Old = {} /\ Missing = Covers(disp.union) /\ Old' = {}
    BY <1>1, <1>2 DEF Old, Missing
  <2>2. \A c \in Cells :
          Comes(tde', buf[1 - disp.index], buf[disp.index], c, Newest[c])
    BY <1>2, <1>4, <2>1, CopyCompletes
  <2>3. Newest' = Newest
    BY <1>1 DEF Newest
  <2>4. \A c \in Cells : Will(c, Newest[c])'
    BY <1>1, <2>2, <2>3 DEF Will
  <2>5. \A c \in Cells : buf[disp.index][c] = Newest[c]
    BY <1>2, <2>1 DEF Complete
  <2>6. Complete'
    BY <1>1, <2>3, <2>4, <2>5 DEF Complete
  <2>7. OnScreen'
    BY <1>1, <1>2, OnScreenStays
  <2>8. \A i \in 1 .. Len(tde') : tde'[i].src # Canvas => tde'[i].src = disp'.index
    BY <1>1, <1>2, <1>4, SourcesGrow
  <2>9. Copying(tde') /\ ~disp.needFlip /\ \A i \in 1 .. Len(fin) : fin[i] # 0
    <3>1. Copying(tde) /\ ~disp.needFlip /\ tde \in Seq(Job)
      BY <1>1, <1>2 DEF Orderly, TInv, Types
    <3>2. Copying(tde')
      BY <1>4, <3>1 DEF Copying
    <3>3. \A i \in 1 .. Len(fin) : fin[i] # 0
      BY Numbers DEF TInv, Shape
    <3> QED
      BY <3>1, <3>2, <3>3
  <2>10. Orderly'
    BY <1>1, <1>2, <2>8, <2>9 DEF Orderly
  <2> QED
    BY <2>6, <2>7, <2>10 DEF Pictured
<1> QED
  BY <1>1, <1>3, <1>4

\* a picture more: those there are stay what they are
LEMMA NewestGrows ==
    ASSUME Types, frames # <<>>, frames' = Append(frames, Drawn)
    PROVE  /\ Newest' = Drawn /\ Len(frames') \in 1 .. Len(frames')
           /\ frames'[Len(frames')] = Drawn
           /\ \A b : Whole(b) => \E k \in 1 .. Len(frames') : buf[b] = frames'[k]
<1>1. /\ Len(frames) \in Nat /\ Len(frames') = Len(frames) + 1
      /\ frames'[Len(frames) + 1] = Drawn
      /\ \A k \in 1 .. Len(frames) : frames'[k] = frames[k]
  BY DEF Types
<1>2. \A k \in 1 .. Len(frames) : k \in 1 .. Len(frames')
  BY <1>1
<1> QED
  BY <1>1, <1>2 DEF Newest, Whole

LEMMA SubmitPictured ==
    ASSUME TInv, Turning, Queued, Pictured, NEW ok \in BOOLEAN,
           NEW job \in BOOLEAN, Submit(ok, job), taint' = {}
    PROVE  Pictured'
<1>1. /\ call.pc = "submit" /\ UNCHANGED <<buf, vo, fin>> /\ call'.pc = "idle"
      /\ par'.mode = par.mode /\ par'.addrMask = par.addrMask /\ par'.num = par.num
      /\ disp'.index = disp.index /\ disp'.handle = par.num /\ disp'.needFlip = disp.needFlip
      /\ disp'.fliped = disp.fliped /\ disp'.union = UniteRect(disp.union, call.rect)
      /\ frames' = Append(frames, Drawn) /\ tde' = Append(tde, DrawJob)
      /\ DrawJob \in Job /\ DrawJob.src = Canvas /\ DrawJob.num = par.num
      /\ DrawJob.rect = call.rect
  BY SubmitIs DEF Keeps
<1>2. /\ par.mode = "DOUBLE" /\ vo.live = vo.reg /\ Orderly /\ Complete /\ OnScreen
      /\ ~disp.fliped /\ par.num # 0 /\ Types /\ frames # <<>>
      /\ disp.union \in Areas /\ call.rect \in Rects
  BY <1>1, DispIs DEF Turning, Doubling, Pictured, Orderly, TInv, Types, Shape, Drawing
<1>3. /\ Old = Covers(disp.union) /\ Missing = Covers(call.rect)
      /\ Old' = Covers(UniteRect(disp.union, call.rect)) /\ Missing' = {}
  BY <1>1, <1>2 DEF Old, Missing
<1>4. Newest' = Drawn
  BY <1>1, <1>2, NewestGrows
<1>5. \A c \in Cells : Will(c, Newest[c])'
  <2>1. \A c \in Cells :
          Comes(tde', buf[1 - disp.index], buf[disp.index], c, Drawn[c])
    BY <1>1, <1>2, <1>3, DrawCompletes
  <2> QED
    BY <1>1, <1>4, <2>1 DEF Will
<1>6. \A c \in Cells \ Old' : buf'[disp'.index][c] = Newest'[c]
  <2> SUFFICES ASSUME NEW c \in Cells, c \notin Old' PROVE buf[disp.index][c] = Drawn[c]
    BY <1>1, <1>4
  <2>1. c \notin Covers(disp.union) /\ c \notin Covers(call.rect)
    BY <1>2, <1>3, UnitedIs
  <2>2. Drawn[c] = Newest[c]
    BY <2>1 DEF Drawn
  <2> QED
    BY <1>2, <1>3, <2>1, <2>2 DEF Complete
<1>7. Complete'
  BY <1>1, <1>5, <1>6 DEF Complete
<1>8. OnScreen'
  BY <1>1, <1>2, NewestGrows DEF OnScreen, Whole
<1>9. Orderly'
  <2>1. \A i \in 1 .. Len(fin) : fin[i] # par.num
    <3>1. Submitted = par.num - 1 /\ par.num \in Nat
      BY <1>1, <1>2, Numbers DEF Submitted, Doubling, TInv, Shape
    <3>2. \A i \in 1 .. Len(fin) : fin[i] \in Nat /\ fin[i] <= Submitted
      BY <1>2, Numbers DEF Queued, TInv, Shape
    <3> QED
      BY <3>1, <3>2
  <2>2. \A i \in 1 .. Len(tde') : tde'[i].src # Canvas => tde'[i].src = disp'.index
    BY <1>1, <1>2, SourcesGrow
  <2> QED
    BY <1>1, <1>2, <2>1, <2>2 DEF Orderly
<1> QED
  BY <1>7, <1>8, <1>9 DEF Pictured

LEMMA ImmediateLockPictured ==
    ASSUME TInv, Turning, Queued, Pictured, ImmediateLock, taint' = {}
    PROVE  Pictured'
<1>1. /\ call.pc = "ilock" /\ UNCHANGED <<buf, par, vo, tde, fin, frames>>
      /\ call'.pc \in {"icopy", "iblit"} /\ call'.rect = call.rect
      /\ call'.pc = "iblit" => ~(disp.union.w > 0) \/ IsContain(call.rect, disp.union)
      /\ disp'.union = disp.union /\ disp'.index = disp.index
  BY ImmediateLockIs
<1>2. /\ par.mode = "IMMEDIATE" /\ Orderly /\ Complete /\ OnScreen
      /\ disp.union \in Areas /\ call.rect \in Areas
  BY <1>1, CallIs, DispIs DEF Turning, Straight, Pictured, TInv, Types
<1>3. Old = {} /\ Old' = {} /\ Missing = Covers(disp.union)
      /\ Missing' = IF call'.pc = "iblit" THEN Covers(call.rect) ELSE Covers(disp.union)
  BY <1>1, <1>2 DEF Old, Missing
<1>4. call'.pc = "iblit" => Covers(disp.union) \subseteq Covers(call.rect)
  BY <1>1, <1>2, AreaIs, ContainedIs
<1>5. Complete'
  BY <1>1, <1>2, <1>3, <1>4, CompleteStays
<1>6. OnScreen'
  BY <1>1, <1>2, OnScreenStays
<1>7. Orderly'
  BY <1>1, <1>2, OrderlyStays
<1> QED
  BY <1>5, <1>6, <1>7 DEF Pictured

LEMMA ImmediateCopyPictured ==
    ASSUME TInv, Turning, Queued, Pictured, NEW ok \in BOOLEAN,
           NEW job \in BOOLEAN, ImmediateCopy(ok, job), taint' = {}
    PROVE  Pictured'
<1>1. /\ call.pc = "icopy" /\ UNCHANGED <<buf, disp, vo, fin, frames>>
      /\ par'.mode = par.mode /\ par'.addrMask = par.addrMask /\ par'.num = par.num
      /\ call'.pc \in {"idle", "iblit"}
      /\ \/ call'.pc = "idle" /\ tde' = tde
         \/ \E j \in Job : /\ tde' = Append(tde, j) /\ j.src # Canvas
                           /\ j.src = 1 - call.idle /\ j.rect = disp.union
  BY ImmediateCopyIs DEF Keeps
<1>2. /\ par.mode = "IMMEDIATE" /\ Orderly /\ Complete /\ OnScreen
      /\ call.idle = 1 - disp.index /\ 1 - call.idle = disp.index
  <2>1. disp.index \in Buffers
    BY DispIs DEF TInv, Types
  <2> QED
    BY <1>1, <2>1, OtherBuffer DEF Turning, Straight, Pictured
<1>3. CASE call'.pc = "idle" /\ tde' = tde
  <2>1. Complete' /\ OnScreen'
    BY <1>1, <1>3, PlainStep
  <2>2. Orderly'
    BY <1>1, <1>2, <1>3, OrderlyStays
  <2> QED
    BY <2>1, <2>2 DEF Pictured
<1>4. ASSUME NEW j \in Job, tde' = Append(tde, j),
             j.src = disp.index, j.rect = disp.union
      PROVE  Pictured'
  <2>1. Old = {} /\ Missing = Covers(disp.union) /\ Old' = {}
    BY <1>1, <1>2 DEF Old, Missing
  <2>2. \A c \in Cells :
          Comes(tde', buf[1 - disp.index], buf[disp.index], c, Newest[c])
    BY <1>2, <1>4, <2>1, CopyCompletes
  <2>3. Newest' = Newest
    BY <1>1 DEF Newest
  <2>4. \A c \in Cells : Will(c, Newest[c])'
    BY <1>1, <2>2, <2>3 DEF Will
  <2>5. \A c \in Cells : buf[disp.index][c] = Newest[c]
    BY <1>2, <2>1 DEF Complete
  <2>6. Complete'
    BY <1>1, <1>4, <2>3, <2>4, <2>5 DEF Complete
  <2>7. OnScreen'
    BY <1>1, <1>2, OnScreenStays
  <2>8. \A i \in 1 .. Len(tde') : tde'[i].src # Canvas => tde'[i].src = disp'.index
    BY <1>1, <1>2, <1>4, SourcesGrow
  <2>9. Orderly'
    BY <1>1, <1>2, <1>4, <2>8 DEF Orderly
  <2> QED
    BY <2>6, <2>7, <2>9 DEF Pictured
<1> QED
  BY <1>1, <1>2, <1>3, <1>4

LEMMA ImmediateBlitPictured ==
    ASSUME TInv, Turning, Queued, Pictured, NEW ok \in BOOLEAN,
           NEW job \in BOOLEAN, ImmediateBlit(ok, job), taint' = {}
    PROVE  Pictured'
<1>1. /\ call.pc = "iblit" /\ UNCHANGED <<buf, vo, fin, frames>>
      /\ par'.mode = par.mode /\ par'.addrMask = par.addrMask /\ par'.num = par.num
      /\ disp'.index = disp.index /\ disp'.union = call.rect
      /\ DrawJob \in Job /\ DrawJob.src = Canvas /\ DrawJob.num = par.num
      /\ DrawJob.rect = call.rect
      /\ call'.pc = "idle" \/ (call'.pc = "iblock" /\ call'.rect = call.rect)
      /\ \/ call'.pc = "idle" /\ tde' = tde
         \/ tde' = Append(tde, DrawJob)
  BY ImmediateBlitIs DEF Keeps
<1>2. par.mode = "IMMEDIATE" /\ Orderly /\ Complete /\ OnScreen
  BY <1>1 DEF Turning, Straight, Pictured
<1>3. /\ Old = {} /\ Old' = {} /\ Missing = Covers(call.rect) /\ Missing' = Covers(call.rect)
  BY <1>1, <1>2 DEF Old, Missing
<1>4. OnScreen'
  BY <1>1, <1>2, OnScreenStays
<1>5. CASE call'.pc = "idle" /\ tde' = tde
  <2>1. Complete'
    BY <1>1, <1>2, <1>3, <1>5, CompleteStays
  <2>2. Orderly'
    BY <1>1, <1>2, <1>5, OrderlyStays
  <2> QED
    BY <1>4, <2>1, <2>2 DEF Pictured
<1>6. CASE tde' = Append(tde, DrawJob)
  <2>1. \A c \in Cells :
          Comes(tde', buf[1 - disp.index], buf[disp.index], c, Drawn[c])
    BY <1>1, <1>2, <1>3, <1>6, DrawCompletes
  <2>2. Newest' = Newest
    BY <1>1 DEF Newest
  <2>3. ASSUME call'.pc = "iblock"
        PROVE  \A c \in Cells : Will(c, Drawn[c])'
    <3>1. Drawn' = Drawn
      BY <1>1, <2>2, <2>3 DEF Drawn
    <3> QED
      BY <1>1, <2>1, <3>1 DEF Will
  <2>5. \A c \in Cells \ Covers(call.rect) : Will(c, Newest[c])'
    <3>1. \A c \in Cells \ Covers(call.rect) : Drawn[c] = Newest[c]
      BY DEF Drawn
    <3>2. \A c \in Cells \ Covers(call.rect) :
            Comes(tde', buf[1 - disp.index], buf[disp.index], c, Newest[c])
      BY <2>1, <3>1
    <3> QED
      BY <1>1, <2>2, <3>2 DEF Will
  <2>6. \A c \in Cells : buf[disp.index][c] = Newest[c]
    BY <1>2, <1>3 DEF Complete
  <2>7. Complete'
    BY <1>1, <1>3, <2>2, <2>3, <2>5, <2>6 DEF Complete
  <2>8. \A i \in 1 .. Len(tde') : tde'[i].src # Canvas => tde'[i].src = disp'.index
    BY <1>1, <1>2, <1>6, SourcesGrow
  <2>9. Orderly'
    BY <1>1, <1>2, <1>6, <2>8 DEF Orderly
  <2> QED
    BY <1>4, <2>7, <2>9 DEF Pictured
<1> QED
  BY <1>1, <1>5, <1>6

\* the idle buffer, which is complete, becomes the one shown; the other one lacks the
\* rectangle that was drawn
LEMMA ImmediateSwapPictured ==
    ASSUME TInv, Turning, Queued, Pictured, ImmediateSwap, taint' = {}
    PROVE  Pictured'
<1>1. /\ call.pc = "iblock" /\ tde = <<>> /\ fin = <<>> /\ UNCHANGED <<buf, vo, tde, fin>>
      /\ call'.pc = "ivbl" /\ disp'.index = call.idle /\ disp'.union = disp.union
      /\ par'.num = par.num /\ par'.mode = par.mode
      /\ frames' = Append(frames, Drawn)
  BY ImmediateSwapIs DEF Turning
<1>2. /\ par.mode = "IMMEDIATE" /\ Orderly /\ Complete /\ OnScreen
      /\ call.idle = 1 - disp.index /\ par.num # 0 /\ Types /\ frames # <<>>
      /\ vo.live = vo.reg
  BY <1>1 DEF Turning, Straight, Pictured, TInv, Shape
<1>3. /\ disp.index \in Buffers /\ 1 - (1 - disp.index) = disp.index
      /\ buf[1 - disp.index] \in Pictures
  BY <1>2, PicturesAre, OtherBuffer
<1>4. /\ Old = {} /\ Old' = {} /\ Missing' = Covers(disp.union)
      /\ disp.union = call.rect /\ \A c \in Cells : Will(c, Drawn[c])
  BY <1>1, <1>2 DEF Old, Missing, Complete
<1>5. /\ Newest' = Drawn
      /\ \A b : Whole(b) => \E k \in 1 .. Len(frames') : buf[b] = frames'[k]
      /\ Len(frames') \in 1 .. Len(frames') /\ frames'[Len(frames')] = Drawn
  BY <1>1, <1>2, NewestGrows
<1>6. \A c \in Cells : buf[1 - disp.index][c] = Drawn[c]
  BY <1>1, <1>4, ComesNothing DEF Will
<1>7. buf[1 - disp.index] = Drawn
  <2>1. buf[1 - disp.index] = [c \in Cells |-> buf[1 - disp.index][c]]
    BY <1>3 DEF Pictures
  <2>2. Drawn = [c \in Cells |-> Drawn[c]]
    BY DEF Drawn
  <2> QED
    BY <1>6, <2>1, <2>2
<1>8. Complete'
  <2>1. \A c \in Cells \ Missing' : buf[disp.index][c] = Drawn[c]
    <3>1. \A c \in Cells \ Missing' : Drawn[c] = Newest[c]
      BY <1>4 DEF Drawn
    <3> QED
      BY <1>2, <1>4, <3>1 DEF Complete
  <2>2. \A c \in Cells \ Missing' : Will(c, Newest[c])'
    BY <1>1, <1>2, <1>3, <1>5, <2>1, ComesNothing DEF Will
  <2> QED
    BY <1>1, <1>2, <1>5, <1>6, <2>2 DEF Complete
<1>9. OnScreen'
  BY <1>1, <1>2, <1>5, <1>7 DEF OnScreen, Whole
<1>10. Orderly'
  BY <1>1, <1>2 DEF Orderly
<1> QED
  BY <1>8, <1>9, <1>10 DEF Pictured

-----------------------------------------------------------------------------
(***************************************************************************)
(* The engine and the interrupts.                                           *)
(***************************************************************************)
LEMMA DrawDoes ==
    ASSUME NEW m \in [Buffers -> Pictures], NEW j \in Job, NEW b \in Buffers, j.dst # b,
           j.src # Canvas => j.src = b
    PROVE  /\ Draw(m, j)[b] = m[b]
           /\ \A c \in Cells :
                Draw(m, j)[j.dst][c] = IF c \in Covers(j.rect) THEN Paint(j, m[b], c)
                                       ELSE m[j.dst][c]
<1>1. j.dst \in Buffers
  BY DEF Job
<1> DEFINE drawn == [c \in Cells |-> IF c \notin Covers(j.rect) THEN m[j.dst][c]
                                     ELSE IF j.src = Canvas THEN j.num ELSE m[j.src][c]]
<1>2. Draw(m, j) = [m EXCEPT ![j.dst] = drawn]
  BY <1>1 DEF Draw
<1>3. \A c \in Cells : drawn[c] = IF c \in Covers(j.rect) THEN Paint(j, m[b], c)
                                  ELSE m[j.dst][c]
  BY DEF Paint
<1> HIDE DEF drawn
<1>4. Draw(m, j)[b] = m[b] /\ Draw(m, j)[j.dst] = drawn
  BY <1>1, <1>2
<1> QED
  BY <1>3, <1>4

LEMMA TdeFinishPictured ==
    ASSUME TInv, Turning, Queued, Pictured, TdeFinish, taint' = {}
    PROVE  Pictured'
<1>1. /\ tde # <<>> /\ UNCHANGED <<disp, par, vo, call, frames>> /\ buf' = Draw(buf, tde[1])
      /\ Len(tde) \in Nat /\ Len(tde') = Len(tde) - 1 /\ 1 \in 1 .. Len(tde) /\ tde[1] \in Job
      /\ \A i \in 1 .. Len(tde') : i + 1 \in 1 .. Len(tde) /\ tde'[i] = tde[i + 1]
      /\ \/ fin' = fin
         \/ tde[1].src = Canvas /\ fin' = Append(fin, tde[1].num)
  BY TdeFinishIs
<1>2. /\ Orderly /\ Complete /\ OnScreen /\ Types /\ frames # <<>> /\ par.num # 0
      /\ vo.live = vo.reg /\ vo.reg = disp.index
  BY <1>1 DEF Turning, Pictured, TInv, Shape
<1>3. /\ disp.index \in Buffers /\ 1 - disp.index # disp.index /\ buf \in [Buffers -> Pictures]
      /\ tde[1].dst = 1 - disp.index /\ (tde[1].src # Canvas => tde[1].src = disp.index)
  BY <1>1, <1>2, PicturesAre DEF Queued, Orderly, Types
<1>4. /\ buf'[disp.index] = buf[disp.index]
      /\ \A c \in Cells : buf'[1 - disp.index][c] =
           IF c \in Covers(tde[1].rect) THEN Paint(tde[1], buf[disp.index], c)
           ELSE buf[1 - disp.index][c]
  BY <1>1, <1>3, DrawDoes
<1>5. Newest' = Newest /\ Drawn' = Drawn /\ Old' = Old /\ Missing' = Missing
  BY <1>1 DEF Newest, Drawn, Old, Missing
<1>6. ASSUME NEW c \in Cells, NEW v, Will(c, v)
      PROVE  Comes(tde', buf'[1 - disp'.index], buf'[disp'.index], c, v)
  <2>1. Comes(tde, buf[1 - disp.index], buf[disp.index], c, v)
    BY <1>6 DEF Will
  <2>2. \A i \in 1 .. Len(tde') : tde'[i] = tde[i + 1]
    BY <1>1
  <2>3. buf'[1 - disp.index][c] = IF c \in Covers(tde[1].rect) THEN Paint(tde[1], buf[disp.index], c)
                                  ELSE buf[1 - disp.index][c]
    BY <1>4
  <2>4. Comes(tde', buf'[1 - disp.index], buf[disp.index], c, v)
    <3>1. Len(tde) \in Nat /\ Len(tde') = Len(tde) - 1 /\ 1 \in 1 .. Len(tde)
      BY <1>1
    <3> DEFINE m == buf[1 - disp.index]
               n == buf'[1 - disp.index]
               s == buf[disp.index]
               q == tde
               t == tde'
    <3>2. /\ Len(q) \in Nat /\ Len(t) = Len(q) - 1 /\ 1 \in 1 .. Len(q)
          /\ \A i \in 1 .. Len(t) : t[i] = q[i + 1]
          /\ Comes(q, m, s, c, v)
          /\ n[c] = IF c \in Covers(q[1].rect) THEN Paint(q[1], s, c) ELSE m[c]
      BY <2>1, <2>2, <2>3, <3>1
    <3> HIDE DEF m, n, s, q, t
    <3>3. Comes(t, n, s, c, v)
      BY <3>2, ComesPop
    <3> QED
      BY <3>3 DEF m, n, s, q, t
  <2> QED
    BY <1>1, <1>4, <2>4
<1>7. Complete'
  <2>1. \A c \in Cells \ Old : buf'[disp.index][c] = Newest[c]
    BY <1>2, <1>4 DEF Complete
  <2>2. \A c \in Cells \ Missing : Will(c, Newest[c])'
    <3>1. \A c \in Cells \ Missing :
            Comes(tde', buf'[1 - disp'.index], buf'[disp'.index], c, Newest[c])
      BY <1>2, <1>6 DEF Complete
    <3> QED
      BY <1>5, <3>1 DEF Will
  <2>3. ASSUME call.pc = "iblock"
        PROVE  disp.union = call.rect /\ \A c \in Cells : Will(c, Drawn[c])'
    <3>1. \A c \in Cells :
            Comes(tde', buf'[1 - disp'.index], buf'[disp'.index], c, Drawn[c])
      BY <1>2, <1>6, <2>3 DEF Complete
    <3> QED
      BY <1>2, <1>5, <2>3, <3>1 DEF Will, Complete
  <2> QED
    BY <1>1, <1>5, <2>1, <2>2, <2>3 DEF Complete
<1>8. OnScreen'
  BY <1>1, <1>2, <1>4 DEF OnScreen, Whole
<1>9. Orderly'
  <2>1. \A i \in 1 .. Len(tde') : tde'[i].src # Canvas => tde'[i].src = disp.index
    BY <1>1, <1>2 DEF Orderly
  <2>2. ASSUME par.mode = "DOUBLE"
        PROVE  /\ ~disp.needFlip /\ (disp.fliped => Copying(tde') /\ call.pc # "submit")
               /\ \A i \in 1 .. Len(fin') :
                    fin'[i] = disp.handle => i = Len(fin') /\ ~disp.fliped
    <3>1. /\ ~disp.needFlip
          /\ disp.fliped => Copying(tde) /\ call.pc # "submit"
      BY <1>1, <1>2, <2>2 DEF Orderly, Turning
    <3>2. \A i \in 1 .. Len(fin) : fin[i] # disp.handle
      BY <1>1, <2>2 DEF Queued
    <3>3. Copying(tde) => Copying(tde')
      BY <1>1 DEF Copying
    <3>4. CASE fin' = fin
      BY <3>1, <3>2, <3>3, <3>4
    <3>5. CASE tde[1].src = Canvas /\ fin' = Append(fin, tde[1].num)
      <4>1. /\ Len(fin') = Len(fin) + 1 /\ Len(fin) \in Nat
            /\ \A i \in 1 .. Len(fin) : fin'[i] = fin[i]
        BY <1>2, <3>5 DEF Types
      <4>2. \A i \in 1 .. Len(fin') : i \in 1 .. Len(fin) \/ i = Len(fin')
        BY <4>1
      <4>3. ~disp.fliped
        BY <1>1, <3>1, <3>5 DEF Copying
      <4> QED
        BY <3>1, <3>2, <4>1, <4>2, <4>3
    <3> QED
      BY <1>1, <3>4, <3>5
  <2>3. call.pc \in {"pick", "copy"} => call.osd = disp.index
    BY <1>2 DEF Orderly
  <2> QED
    BY <1>1, <2>1, <2>2, <2>3 DEF Orderly
<1> QED
  BY <1>7, <1>8, <1>9 DEF Pictured

LEMMA FrameStartPictured ==
    ASSUME TInv, Turning, Queued, Pictured, FrameStart, taint' = {}
    PROVE  Pictured'
<1>1. /\ UNCHANGED <<buf, disp, tde, fin, call, frames>>
      /\ vo'.reg = vo.reg /\ vo'.live = vo.reg
      /\ par'.num = par.num /\ par'.mode = par.mode
      /\ par'.addrMask = par.addrMask
  BY FrameStartIs
<1>2. Newest' = Newest /\ Old' = Old /\ Missing' = Missing
  BY <1>1 DEF Newest, Old, Missing
<1>3. Complete'
  BY <1>1, <1>2, CompleteStays DEF Pictured
<1>4. OnScreen'
  BY <1>1, <1>2 DEF Pictured, OnScreen, Whole
<1>5. Orderly'
  <2>1. call.pc \in {"pick", "copy"} => call.osd = disp.index
    BY DEF Pictured, Orderly
  <2> QED
    BY <1>1, <2>1, OrderlyStays
<1> QED
  BY <1>3, <1>4, <1>5 DEF Pictured

\* when a flip is due the idle buffer is complete, and the one shown until now lacks
\* what the union rectangle covers
LEMMA VerticalTimingPictured ==
    ASSUME TInv, Turning, Queued, Pictured, VerticalTiming, taint' = {}
    PROVE  Pictured'
<1>1. /\ par.doRefresh /\ UNCHANGED <<buf, tde, fin, call, frames>>
      /\ Orderly /\ Complete /\ OnScreen /\ Types /\ frames # <<>>
  BY DEF VerticalTiming, TInv, Shape, Pictured
<1>2. call.pc \in {"pick", "copy"} => call.osd = disp.index
  BY <1>1 DEF Orderly
<1>3. CASE ~(par.show /\ ~par.modifying)
  <2>1. UNCHANGED <<disp, vo>> /\ par'.num = par.num /\ par'.mode = par.mode
        /\ par'.addrMask = par.addrMask
    BY <1>3, NoUpdateIs
  <2>2. Complete' /\ OnScreen'
    BY <1>1, <2>1, PlainStep
  <2>3. Orderly'
    BY <1>1, <1>2, <2>1, OrderlyStays
  <2> QED
    BY <2>2, <2>3 DEF Pictured
<1>4. CASE par.show /\ ~par.modifying
  <2> DEFINE at == IF par.addrMask THEN par.screenAddr ELSE disp.index
             flip == par.mode = "DOUBLE" /\ disp.needFlip
             to == IF flip THEN 1 - at ELSE at
  <2>1. VoUpdate
    BY <1>4 DEF VerticalTiming
  <2>2. /\ disp'.index = to /\ disp'.handle = disp.handle /\ disp'.union = disp.union
        /\ disp'.fliped = (disp.fliped \/ flip)
        /\ disp'.needFlip = (disp.needFlip /\ ~flip)
        /\ vo'.live = vo.live /\ vo'.reg = IF flip \/ par.addrMask THEN to ELSE vo.reg
        /\ par'.num = par.num /\ par'.mode = par.mode /\ ~par'.addrMask
    <3>1. /\ at = IF par.addrMask THEN par.screenAddr ELSE disp.index
          /\ flip = (par.mode = "DOUBLE" /\ disp.needFlip)
          /\ to = IF flip THEN 1 - at ELSE at
      OBVIOUS
    <3> HIDE DEF at, flip, to
    <3> QED
      BY <2>1, <3>1, VoUpdateIs
  <2>3. at = disp.index
    BY DEF Turning
  <2>4. vo.live = vo.reg
    BY <1>1 DEF Turning
  <2>5. CASE flip
    <3>1. /\ par.mode = "DOUBLE" /\ disp.needFlip /\ to = 1 - disp.index
          /\ tde = <<>> /\ call.pc \in {"idle", "gate", "addr", "pick", "size"}
      BY <2>3, <2>5 DEF Turning
    <3>2. /\ disp.index \in Buffers /\ 1 - (1 - disp.index) = disp.index
          /\ buf[1 - disp.index] \in Pictures /\ Newest \in Pictures
      BY <1>1, PicturesAre, OtherBuffer
    <3>3. ~disp.fliped /\ \A i \in 1 .. Len(fin) : fin[i] # disp.handle
      BY <1>1, <3>1 DEF Orderly
    <3>4. /\ Old = Covers(disp.union) /\ Missing = {}
          /\ Old' = {} /\ Missing' = Covers(disp.union)
      BY <1>1, <2>2, <2>5, <3>1, <3>3 DEF Old, Missing
    <3>5. Newest' = Newest
      BY <1>1 DEF Newest
    <3>6. \A c \in Cells : buf[1 - disp.index][c] = Newest[c]
      BY <1>1, <3>1, <3>4, ComesNothing DEF Complete, Will
    <3>7. buf[1 - disp.index] = Newest
      <4>1. /\ buf[1 - disp.index] = [c \in Cells |-> buf[1 - disp.index][c]]
            /\ Newest = [c \in Cells |-> Newest[c]]
        BY <3>2 DEF Pictures
      <4> QED
        BY <3>6, <4>1
    <3>8. Complete'
      <4>1. \A c \in Cells \ Missing' : buf[disp.index][c] = Newest[c]
        BY <1>1, <3>4 DEF Complete
      <4>2. \A c \in Cells \ Missing' : Will(c, Newest[c])'
        BY <1>1, <2>2, <3>1, <3>2, <3>5, <4>1, ComesNothing DEF Will
      <4> QED
        BY <1>1, <2>2, <3>1, <3>5, <3>6, <4>2 DEF Complete
    <3>9. Len(frames) \in 1 .. Len(frames) /\ Newest = frames[Len(frames)]
      BY <1>1, PicturesAre DEF Newest
    <3>10. par.num # 0
      BY <3>1 DEF Turning
    <3>11. vo'.reg = 1 - disp.index /\ disp'.index = 1 - disp.index /\ disp'.fliped
           /\ ~disp'.needFlip
      BY <2>2, <2>5, <3>1
    <3>12. OnScreen'
      BY <1>1, <2>2, <3>7, <3>9, <3>10, <3>11 DEF OnScreen, Whole
    <3>13. call.pc \notin {"pick", "copy", "submit"}
      <4>1. call.pc # "pick"
        BY <2>1, <2>5, VoUpdateIs
      <4> QED
        BY <3>1, <4>1
    <3>14. Orderly'
      BY <1>1, <2>2, <3>1, <3>3, <3>11, <3>13, NoneCopying DEF Orderly
    <3> QED
      BY <3>8, <3>12, <3>14 DEF Pictured
  <2>6. CASE ~flip
    <3>1. /\ disp'.index = disp.index /\ disp'.fliped = disp.fliped
          /\ disp'.needFlip = disp.needFlip
          /\ vo'.reg = IF par.addrMask THEN disp.index ELSE vo.reg
      <4>1. disp.fliped \in BOOLEAN /\ disp.needFlip \in BOOLEAN
        BY <1>1, DispIs DEF Types
      <4> QED
        BY <2>2, <2>3, <2>6, <4>1
    <3>2. Old' = Old /\ Missing' = Missing /\ Newest' = Newest
      BY <1>1, <2>2, <3>1 DEF Old, Missing, Newest
    <3>3. Complete'
      BY <1>1, <2>2, <3>1, <3>2, CompleteStays
    <3>4. OnScreen'
      <4>1. par.addrMask => par.mode = "IMMEDIATE" /\ par.num # 0
        BY DEF Turning, Swapping, TInv, Shape
      <4> QED
        BY <1>1, <2>2, <2>4, <3>1, <3>2, <4>1 DEF OnScreen, Whole
    <3>5. Orderly'
      BY <1>1, <1>2, <2>2, <3>1, OrderlyStays
    <3> QED
      BY <3>3, <3>4, <3>5 DEF Pictured
  <2> QED
    BY <2>5, <2>6
<1> QED
  BY <1>3, <1>4

-----------------------------------------------------------------------------
PInv == IInv /\ (taint = {} => Pictured)

LEMMA PicturesStep == PInv /\ [Next]_vars => PInv'
<1> SUFFICES ASSUME PInv, [Next]_vars PROVE PInv'
  OBVIOUS
<1>1. TInv /\ IInv'
  BY PStep DEF PInv, IInv
<1> SUFFICES ASSUME taint' = {} PROVE Pictured'
  BY <1>1 DEF PInv
<1>2. ASSUME taint = {}
      PROVE  Turning /\ Queued /\ Pictured
  BY <1>2 DEF PInv, IInv
<1>3. CASE Refresh
  BY <1>1, <1>2, <1>3, RefreshIs, RefreshPictured
<1>4. CASE PassGate
  BY <1>1, <1>2, <1>4, PassGateIs, PassGatePictured
<1>5. CASE GetLayerAddr
  BY <1>1, <1>2, <1>5, GetLayerAddrIs, GetLayerAddrPictured
<1>6. CASE PickIdle
  BY <1>1, <1>2, <1>6, PickIdleIs, PickIdlePictured
<1>7. ASSUME NEW job \in BOOLEAN, CopyUnion(job) PROVE Pictured'
  BY <1>1, <1>2, <1>7, CopyUnionIs, CopyUnionPictured
<1>8. ASSUME NEW job \in BOOLEAN, CopyUnionFails(job) PROVE Pictured'
  BY <1>1, <1>2, <1>8, CopyUnionFailsIs, CopyUnionFailsPictured
<1>9. ASSUME NEW ok \in BOOLEAN, NEW job \in BOOLEAN, Submit(ok, job) PROVE Pictured'
  BY <1>1, <1>2, <1>9, SubmitIs, SubmitPictured
<1>10. CASE ImmediateLock
  BY <1>1, <1>2, <1>10, ImmediateLockIs, ImmediateLockPictured
<1>11. ASSUME NEW ok \in BOOLEAN, NEW job \in BOOLEAN, ImmediateCopy(ok, job) PROVE Pictured'
  BY <1>1, <1>2, <1>11, ImmediateCopyIs, ImmediateCopyPictured
<1>12. ASSUME NEW ok \in BOOLEAN, NEW job \in BOOLEAN, ImmediateBlit(ok, job) PROVE Pictured'
  BY <1>1, <1>2, <1>12, ImmediateBlitIs, ImmediateBlitPictured
<1>13. CASE ImmediateSwap
  BY <1>1, <1>2, <1>13, ImmediateSwapIs, ImmediateSwapPictured
<1>14. CASE ImmediateClearVbl
  BY <1>1, <1>2, <1>14, ImmediateClearVblIs, ImmediateClearVblPictured
<1>15. CASE ImmediateReturn
  BY <1>1, <1>2, <1>15, ImmediateReturnIs, ImmediateReturnPictured
<1>16. CASE PutLayerInfo
  BY <1>1, <1>2, <1>16, PutLayerInfoIs, PutLayerInfoPictured
<1>17. ASSUME NEW ok \in BOOLEAN, PutSize(ok) PROVE Pictured'
  BY <1>1, <1>2, <1>17, PutSizeIs, PutSizePictured
<1>18. CASE PutShow
  BY <1>1, <1>2, <1>18, PutShowIs, PutShowPictured
<1>19. CASE TdeFinish
  BY <1>1, <1>2, <1>19, TdeFinishIs, TdeFinishPictured
<1>20. CASE TdeCallback
  BY <1>1, <1>2, <1>20, TdeCallbackIs, TdeCallbackPictured
<1>21. CASE FrameStart
  BY <1>1, <1>2, <1>21, FrameStartIs, FrameStartPictured
<1>22. CASE VerticalTiming
  <2>1. taint = {}
    <3>1. CASE par.show /\ ~par.modifying
      BY <1>1, <1>22, <3>1, VoUpdateIs DEF VerticalTiming
    <3>2. CASE ~(par.show /\ ~par.modifying)
      BY <1>1, <1>22, <3>2, NoUpdateIs
    <3> QED
      BY <3>1, <3>2
  <2> QED
    BY <1>1, <1>2, <1>22, <2>1, VerticalTimingPictured
<1>23. CASE UNCHANGED vars
  <2>1. Pictured /\ UNCHANGED <<buf, disp, par, vo, tde, fin, call, frames>>
    BY <1>2, <1>23 DEF vars
  <2>2. Complete' /\ OnScreen'
    BY <2>1, PlainStep
  <2>3. Orderly'
    BY <2>1 DEF Pictured, Orderly
  <2> QED
    BY <2>2, <2>3 DEF Pictured
<1> QED
  BY <1>3, <1>4, <1>5, <1>6, <1>7, <1>8, <1>9, <1>10, <1>11, <1>12, <1>13, <1>14, <1>15, <1>16, <1>17, <1>18, <1>19, <1>20, <1>21, <1>22, <1>23 DEF Next, Ioctl

LEMMA PicturesHold == Spec => []PInv
<1>1. Init => PInv
  BY PInit, InitPictured DEF PInv
<1>2. PInv /\ [Next]_vars => PInv'
  BY PicturesStep
<1> QED
  BY <1>1, <1>2, PTL DEF Spec

(***************************************************************************)
(* ScreenIsAFrame: the picture on the screen is the one after some refresh, *)
(* whole, and between two calls the buffers differ in the union rectangle   *)
(* only (hifb_refresh_2buf, hifb_vo_callback).                             *)
(***************************************************************************)
THEOREM ScreenStaysAFrame == Spec => []ScreenIsAFrame
<1>1. ASSUME PInv, taint = {}
      PROVE  \E k \in DOMAIN frames : buf[vo.live] = frames[k]
  <2>1. frames \in Seq(Pictures) /\ Whole(vo.live)
    BY <1>1 DEF PInv, IInv, TInv, Types, Pictured, OnScreen
  <2> QED
    BY <2>1 DEF Whole
<1>2. ASSUME PInv, taint = {}, At("idle"), tde = <<>>, NEW c \in Cells \ Covers(disp.union)
      PROVE  buf[0][c] = buf[1][c]
  <2>1. /\ Complete /\ disp.index \in {0, 1} /\ c \notin Old /\ c \notin Missing
    <3>1. disp.index \in {0, 1}
      BY <1>2, DispIs DEF PInv, IInv, TInv, Types, Buffers
    <3> QED
      BY <1>2, <3>1 DEF PInv, Pictured, At, Old, Missing
  <2>2. buf[disp.index][c] = Newest[c] /\ buf[1 - disp.index][c] = Newest[c]
    BY <1>2, <2>1, ComesNothing DEF Complete, Will
  <2>3. CASE disp.index = 0
    BY <2>2, <2>3
  <2>4. CASE disp.index = 1
    BY <2>2, <2>4
  <2> QED
    BY <2>1, <2>3, <2>4
<1>3. PInv => ScreenIsAFrame
  BY <1>1, <1>2 DEF ScreenIsAFrame
<1> QED
  BY <1>3, PicturesHold, PTL

-----------------------------------------------------------------------------
\* the last place of p among the pictures of f
LEMMA LastExists ==
    ASSUME NEW f, Len(f) \in Nat, NEW p
    PROVE  \E k \in 0 .. Len(f) : /\ k > 0 => p = f[k]
                                  /\ \A j \in k + 1 .. Len(f) : p # f[j]
<1> DEFINE N == Len(f)
           T == {n \in 0 .. N : N - n > 0 => p = f[N - n]}
           R == {x \in Nat \X Nat : x[1] < x[2]}
<1>1. T \in SUBSET Nat /\ N \in T
  OBVIOUS
<1>2. IsWellFoundedOn(R, Nat)
  BY NatLessThanWellFounded DEF OpToRel
<1>3. \A x, y \in Nat : y < x => <<y, x>> \in R
  OBVIOUS
<1> HIDE DEF R, T
<1>4. PICK n \in T : \A y \in T : ~(<<y, n>> \in R)
  BY <1>1, <1>2, WFMin
<1>5. /\ n \in 0 .. N /\ (N - n > 0 => p = f[N - n])
      /\ \A y \in T : y \in Nat /\ ~(y < n)
  BY <1>1, <1>3, <1>4 DEF T
<1>6. ASSUME NEW j \in N - n + 1 .. N PROVE p # f[j]
  <2>1. N - j \in 0 .. N /\ N - j < n /\ N - (N - j) = j
    BY <1>5
  <2>2. N - j \notin T
    BY <1>5, <2>1
  <2> QED
    BY <2>1, <2>2 DEF T
<1> QED
  <2>1. N - n \in 0 .. N
    BY <1>5
  <2> QED
    BY <1>5, <1>6, <2>1

\* a later picture at the same place, or the last one
LEMMA Later ==
    ASSUME NEW f, NEW g, Len(f) \in Nat, Len(g) \in Nat, Len(f) <= Len(g),
           \A k \in 1 .. Len(f) : g[k] = f[k],
           NEW p, NEW q, q = p \/ (Len(g) > 0 /\ q = g[Len(g)]),
           NEW k \in 0 .. Len(f), k > 0 => p = f[k],
           NEW l \in 0 .. Len(g), \A j \in l + 1 .. Len(g) : q # g[j]
    PROVE  l >= k
<1> SUFFICES ASSUME l < k PROVE FALSE
  OBVIOUS
<1>1. k \in 1 .. Len(f) /\ k \in l + 1 .. Len(g) /\ Len(g) \in l + 1 .. Len(g)
  OBVIOUS
<1>2. q # g[k] /\ q # g[Len(g)]
  BY <1>1
<1> QED
  BY <1>1, <1>2

\* what a step does to the screen
LEMMA ScreenStep ==
    ASSUME PInv, [Next]_vars, taint' = {}
    PROVE  /\ taint = {}
           /\ frames' = frames \/ frames' = Append(frames, Drawn)
           /\ buf'[vo'.live] = buf[vo.live] \/ (frames' = frames /\ buf'[vo'.live] = Newest)
<1>1. TInv
  BY DEF PInv, IInv
<1>2. CASE Refresh
  BY <1>1, <1>2, RefreshIs
<1>3. CASE PassGate
  BY <1>1, <1>3, PassGateIs
<1>4. CASE GetLayerAddr
  BY <1>1, <1>4, GetLayerAddrIs
<1>5. CASE PickIdle
  BY <1>1, <1>5, PickIdleIs
<1>6. ASSUME NEW job \in BOOLEAN, CopyUnion(job)
      PROVE  taint = {} /\ frames' = frames /\ buf'[vo'.live] = buf[vo.live]
  BY <1>1, <1>6, CopyUnionIs
<1>7. ASSUME NEW job \in BOOLEAN, CopyUnionFails(job)
      PROVE  taint = {} /\ frames' = frames /\ buf'[vo'.live] = buf[vo.live]
  BY <1>1, <1>7, CopyUnionFailsIs
<1>8. ASSUME NEW ok \in BOOLEAN, NEW job \in BOOLEAN, Submit(ok, job)
      PROVE  /\ taint = {} /\ frames' = Append(frames, Drawn) /\ buf'[vo'.live] = buf[vo.live]
  BY <1>1, <1>8, SubmitIs
<1>9. CASE ImmediateLock
  BY <1>1, <1>9, ImmediateLockIs
<1>10. ASSUME NEW ok \in BOOLEAN, NEW job \in BOOLEAN, ImmediateCopy(ok, job)
       PROVE  taint = {} /\ frames' = frames /\ buf'[vo'.live] = buf[vo.live]
  BY <1>1, <1>10, ImmediateCopyIs
<1>11. ASSUME NEW ok \in BOOLEAN, NEW job \in BOOLEAN, ImmediateBlit(ok, job)
       PROVE  taint = {} /\ frames' = frames /\ buf'[vo'.live] = buf[vo.live]
  BY <1>1, <1>11, ImmediateBlitIs
<1>12. CASE ImmediateSwap
  BY <1>1, <1>12, ImmediateSwapIs
<1>13. CASE ImmediateClearVbl
  BY <1>1, <1>13, ImmediateClearVblIs
<1>14. CASE ImmediateReturn
  BY <1>1, <1>14, ImmediateReturnIs
<1>15. CASE PutLayerInfo
  BY <1>1, <1>15, PutLayerInfoIs
<1>16. ASSUME NEW ok \in BOOLEAN, PutSize(ok)
       PROVE  taint = {} /\ frames' = frames /\ buf'[vo'.live] = buf[vo.live]
  BY <1>1, <1>16, PutSizeIs
<1>17. CASE PutShow
  BY <1>1, <1>17, PutShowIs
<1>18. CASE TdeFinish
  <2>1. /\ taint = {} /\ tde # <<>> /\ vo' = vo /\ frames' = frames
        /\ buf' = Draw(buf, tde[1]) /\ 1 \in 1 .. Len(tde) /\ tde[1] \in Job
    BY <1>1, <1>18, TdeFinishIs
  <2>2. Turning /\ Queued /\ Orderly /\ Types /\ frames # <<>>
    BY <1>1, <2>1 DEF PInv, IInv, Pictured, TInv, Shape
  <2>3. vo.live = disp.index
    BY <2>1, <2>2 DEF Turning
  <2>4. /\ disp.index \in Buffers /\ 1 - disp.index # disp.index
        /\ buf \in [Buffers -> Pictures] /\ tde[1].dst = 1 - disp.index
        /\ tde[1].src # Canvas => tde[1].src = disp.index
    BY <2>1, <2>2, PicturesAre DEF Queued, Orderly, Types
  <2>5. buf'[disp.index] = buf[disp.index]
    BY <2>1, <2>4, DrawDoes
  <2> QED
    BY <2>1, <2>3, <2>5
<1>19. CASE TdeCallback
  BY <1>1, <1>19, TdeCallbackIs
<1>20. CASE FrameStart
  <2>1. taint = {} /\ frames' = frames /\ buf' = buf /\ vo'.live = vo.reg
    BY <1>1, <1>20, FrameStartIs
  <2>2. CASE vo.live = vo.reg
    BY <2>1, <2>2
  <2>3. CASE vo.live # vo.reg
    <3>1. Turning /\ Complete /\ OnScreen /\ Types /\ frames # <<>>
      BY <1>1, <2>1 DEF PInv, IInv, Pictured, TInv, Shape
    <3>2. vo.reg = disp.index /\ (par.mode = "DOUBLE" => disp.fliped)
      BY <2>3, <3>1 DEF Turning, OnScreen
    <3>3. \A c \in Cells : buf[disp.index][c] = Newest[c]
      BY <3>1, <3>2 DEF Old, Complete
    <3>4. buf[disp.index] \in Pictures /\ Newest \in Pictures
      BY <3>1, PicturesAre
    <3>5. buf[disp.index] = Newest
      <4>1. /\ buf[disp.index] = [c \in Cells |-> buf[disp.index][c]]
            /\ Newest = [c \in Cells |-> Newest[c]]
        BY <3>4 DEF Pictures
      <4> QED
        BY <3>3, <4>1
    <3> QED
      BY <2>1, <3>2, <3>5
  <2> QED
    BY <2>2, <2>3
<1>21. CASE VerticalTiming
  <2>1. buf' = buf /\ frames' = frames
    BY <1>21 DEF VerticalTiming
  <2>2. CASE par.show /\ ~par.modifying
    <3>1. taint = {} /\ vo'.live = vo.live
      BY <1>1, <1>21, <2>2, VoUpdateIs DEF VerticalTiming
    <3> QED
      BY <2>1, <3>1
  <2>3. CASE ~(par.show /\ ~par.modifying)
    BY <1>1, <1>21, <2>1, <2>3, NoUpdateIs
  <2> QED
    BY <2>2, <2>3
<1>22. CASE UNCHANGED vars
  BY <1>22 DEF vars
<1> QED
  BY <1>2, <1>3, <1>4, <1>5, <1>6, <1>7, <1>8, <1>9, <1>10, <1>11, <1>12, <1>13, <1>14, <1>15, <1>16, <1>17, <1>18, <1>19, <1>20, <1>21, <1>22 DEF Next, Ioctl

(***************************************************************************)
(* ScreenGoesForward: the picture on the screen is never followed by an    *)
(* older one, whatever order the callbacks and the interrupts come in.     *)
(***************************************************************************)
THEOREM ScreenNeverGoesBack == Spec => ScreenGoesForward
<1>1. ASSUME PInv, PInv', [Next]_vars, taint' = {}
      PROVE  LatestShown' >= LatestShown
  <2>1. /\ frames' = frames \/ frames' = Append(frames, Drawn)
        /\ buf'[vo'.live] = buf[vo.live] \/ (frames' = frames /\ buf'[vo'.live] = Newest)
    BY <1>1, ScreenStep
  <2>2. frames \in Seq(Pictures) /\ frames # <<>>
    BY <1>1 DEF PInv, IInv, TInv, Types, Shape
  <2>3. /\ Len(frames) \in Nat /\ Len(frames) > 0 /\ Len(frames') \in Nat
        /\ Len(frames) <= Len(frames') /\ \A k \in 1 .. Len(frames) : frames'[k] = frames[k]
    BY <2>1, <2>2
  <2>4. \/ buf'[vo'.live] = buf[vo.live]
        \/ Len(frames') > 0 /\ buf'[vo'.live] = frames'[Len(frames')]
    BY <2>1, <2>3 DEF Newest
  <2> DEFINE
        f == frames'
        p == buf'[vo'.live]
        q == buf[vo.live]
  <2>5. /\ LatestShown \in 0 .. Len(frames)
        /\ LatestShown > 0 => buf[vo.live] = frames[LatestShown]
    <3>1. Len(frames) \in Nat
      BY <2>3
    <3> HIDE DEF q
    <3>2. \E k \in 0 .. Len(frames) :
            /\ k > 0 => q = frames[k]
            /\ \A j \in k + 1 .. Len(frames) : q # frames[j]
      BY <3>1, LastExists
    <3> QED
      BY <3>2 DEF LatestShown, q
  <2>6. /\ LatestShown' \in 0 .. Len(frames')
        /\ \A j \in LatestShown' + 1 .. Len(frames') : buf'[vo'.live] # frames'[j]
    <3>1. Len(f) \in Nat
      BY <2>3
    <3> HIDE DEF f, p
    <3>2. \E k \in 0 .. Len(f) :
            /\ k > 0 => p = f[k]
            /\ \A j \in k + 1 .. Len(f) : p # f[j]
      BY <3>1, LastExists
    <3> QED
      BY <3>2 DEF LatestShown, f, p
  <2> HIDE DEF LatestShown
  <2> QED
    BY <2>3, <2>4, <2>5, <2>6, Later
<1>2. PInv /\ PInv' /\ [Next]_vars => [taint' = {} => LatestShown' >= LatestShown]_vars
  BY <1>1
<1> QED
  BY <1>2, PicturesHold, PTL DEF Spec, ScreenGoesForward
=============================================================================
