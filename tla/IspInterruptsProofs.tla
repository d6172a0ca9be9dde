------------------------- MODULE IspInterruptsProofs -------------------------
(***************************************************************************)
(* Proofs about IspInterrupts, for a ring of any size and any number of      *)
(* interrupts.                                                               *)
(***************************************************************************)
EXTENDS IspInterrupts, TLAPS

USE SlotsAssumption, MaxIntAssumption

(* How far slot s is ahead of slot r, without the remainder. *)
Ahead(s, r) == IF s >= r THEN s - r ELSE s - r + Slots

LEMMA AheadIs == ASSUME NEW s \in Ring, NEW r \in Ring
                 PROVE  (s - r) % Slots = Ahead(s, r)
<1>1. CASE s >= r
  <2>1. s - r \in 0 .. Slots - 1
    BY <1>1 DEF Ring
  <2> QED
    BY <1>1, <2>1, SMTT(30) DEF Ahead
<1>2. CASE s < r
  <2>1. /\ r - s \in 1 .. Slots - 1
        /\ s - r = 0 - (r - s)
    BY <1>2 DEF Ring
  <2>2. (0 - (r - s)) % Slots = Slots - (r - s)
    BY <2>1, SMTT(30)
  <2> QED
    BY <1>2, <2>1, <2>2 DEF Ahead, Ring
<1> QED
  BY <1>1, <1>2 DEF Ring

LEMMA AfterIs == ASSUME NEW s \in Ring
                 PROVE  After(s) = IF s = Slots - 1 THEN 0 ELSE s + 1
<1>1. CASE s = Slots - 1
  <2>1. After(s) = Slots % Slots
    BY <1>1 DEF After
  <2>2. Slots % Slots = 0
    BY SMTT(30)
  <2> QED
    BY <1>1, <2>1, <2>2
<1>2. CASE s # Slots - 1
  <2>1. s + 1 \in 0 .. Slots - 1
    BY <1>2 DEF Ring
  <2>2. (s + 1) % Slots = s + 1
    BY <2>1, SMTT(30)
  <2> QED
    BY <1>2, <2>2 DEF After
<1> QED
  BY <1>1, <1>2

LEMMA AfterInRing == ASSUME NEW s \in Ring PROVE After(s) \in Ring
  BY AfterIs DEF Ring
-----------------------------------------------------------------------------
(* The inductive invariant. *)

(* SlotsMatchFlags without the remainder. *)
SlotsFit ==
  \A s \in Ring : int_sch[s] = Empty <=> Ahead(s, read_flag) >= Ahead(write_flag, read_flag)

(* The entries have numbers of interrupts that came. *)
Numbered ==
  /\ \A s \in Ring : int_sch[s] # Empty => int_sch[s].int \in 1 .. last
  /\ stIntSch # Empty => stIntSch.int \in 1 .. last

(* From read_flag on the numbers grow. *)
Growing ==
  \A s, t \in Ring :
    int_sch[s] # Empty /\ int_sch[t] # Empty /\ Ahead(s, read_flag) < Ahead(t, read_flag)
      => int_sch[s].int < int_sch[t].int

IInv == TypeOK /\ SlotsFit /\ Numbered /\ Growing

(* What a step keeps of the ring: entries leave it, or the new one enters.    *)
RingStep ==
  \A s \in Ring : int_sch'[s] # Empty => int_sch'[s] = int_sch[s] \/ int_sch'[s].int = last + 1

LEMMA EmptyIsEntry == Empty \in Entry /\ Empty.kind = "none" /\ Empty.int = 0
  BY DEF Empty, Entry, Kinds

LEMMA RingFacts == /\ 0 \in Ring
                   /\ \A s, r \in Ring : Ahead(s, r) \in Nat /\ Ahead(s, r) < Slots
                   /\ \A s, t, r \in Ring : Ahead(s, r) = Ahead(t, r) => s = t
                   /\ \A r \in Ring : Ahead(r, r) = 0
  BY DEF Ring, Ahead

LEMMA StoreRing ==
  ASSUME IInv, NEW kind \in Kinds, Store(kind), last < MaxInt, last' = last + 1,
         stIntSch' = stIntSch
  PROVE  /\ int_sch' \in [Ring -> Entry] /\ read_flag' \in Ring /\ write_flag' \in Ring
         /\ SlotsFit' /\ Numbered' /\ Growing' /\ RingStep
         /\ Ahead(write_flag', read_flag') <= Ahead(write_flag, read_flag) + 1
<1> DEFINE e == IF Matters(kind) THEN [int |-> last', kind |-> kind] ELSE Empty
           w == IF IsFull THEN 0 ELSE write_flag
           old == IF IsFull THEN EmptyRing ELSE int_sch
<1> USE EmptyIsEntry, RingFacts
<1>t. /\ int_sch \in [Ring -> Entry] /\ read_flag \in Ring /\ write_flag \in Ring
      /\ last \in Nat /\ bYuvMode \in BOOLEAN /\ stIntSch \in Entry
  BY DEF IInv, TypeOK
<1>e. /\ e \in Entry /\ e # Empty <=> Matters(kind)
      /\ e # Empty => e.int = last + 1
  BY <1>t DEF Entry, Empty, Matters, Kinds
<1>w. w \in Ring /\ After(w) \in Ring /\ old \in [Ring -> Entry]
  BY <1>t, AfterInRing DEF EmptyRing
<1>n. /\ int_sch' = [old EXCEPT ![w] = e]
      /\ write_flag' = IF Matters(kind) THEN After(w) ELSE w
      /\ read_flag' = IF IsFull THEN 0 ELSE read_flag
  BY DEF Store
<1>1. int_sch' \in [Ring -> Entry] /\ read_flag' \in Ring /\ write_flag' \in Ring
  BY <1>t, <1>e, <1>w, <1>n
<1>2. \A s \in Ring : int_sch'[s] = IF s = w THEN e ELSE old[s]
  BY <1>n, <1>w
<1>3. \A s \in Ring : old[s] # Empty => ~IsFull /\ old[s] = int_sch[s]
  BY DEF EmptyRing
<1>4. \A s \in Ring : old[s] = Empty <=> Ahead(s, read_flag') >= Ahead(w, read_flag')
  BY <1>t, <1>n DEF IInv, SlotsFit, EmptyRing, Ahead, Ring
<1>5. After(w) # read_flag'
  <2>1. CASE IsFull
    BY <2>1, <1>n, <1>w, AfterIs DEF Ring
  <2>2. CASE ~IsFull
    BY <2>2, <1>n DEF IsFull
  <2> QED
    BY <2>1, <2>2
<1>6. Matters(kind) => Ahead(write_flag', read_flag') = Ahead(w, read_flag') + 1
  <2> SUFFICES ASSUME Matters(kind)
               PROVE  Ahead(write_flag', read_flag') = Ahead(w, read_flag') + 1
    OBVIOUS
  <2>1. write_flag' = IF w = Slots - 1 THEN 0 ELSE w + 1
    BY <1>n, <1>w, AfterIs
  <2>2. write_flag' # read_flag' /\ read_flag' \in Ring /\ w \in Ring
    BY <1>n, <1>1, <1>5, <1>w
  <2> HIDE DEF w
  <2> QED
    BY <2>1, <2>2 DEF Ahead, Ring
<1>7. SlotsFit'
  <2> SUFFICES ASSUME NEW s \in Ring
               PROVE  int_sch'[s] = Empty <=> Ahead(s, read_flag') >= Ahead(write_flag', read_flag')
    BY DEF SlotsFit, Ahead
  <2>1. CASE Matters(kind)
    <3>1. CASE s = w
      BY <3>1, <2>1, <1>1, <1>2, <1>6, <1>e, <1>w
    <3>2. CASE s # w
      <4>1. Ahead(s, read_flag') # Ahead(w, read_flag')
        BY <3>2, <1>1, <1>w
      <4>2. int_sch'[s] = Empty <=> Ahead(s, read_flag') >= Ahead(w, read_flag')
        BY <3>2, <1>2, <1>4
      <4> HIDE DEF w
      <4> QED
        BY <4>1, <4>2, <2>1, <1>1, <1>6, <1>w
    <3> QED
      BY <3>1, <3>2
  <2>2. CASE ~Matters(kind)
    BY <2>2, <1>1, <1>2, <1>4, <1>n, <1>e, <1>w
  <2> QED
    BY <2>1, <2>2
<1>8. Numbered'
  BY <1>t, <1>2, <1>3, <1>e DEF IInv, Numbered
<1>9. Growing'
  <2> SUFFICES ASSUME NEW s \in Ring, NEW t \in Ring, int_sch'[s] # Empty, int_sch'[t] # Empty,
                      Ahead(s, read_flag') < Ahead(t, read_flag')
               PROVE  int_sch'[s].int < int_sch'[t].int
    BY DEF Growing, Ahead
  <2>1. CASE s = w
    <3>1. t # w /\ old[t] # Empty
      BY <2>1, <1>2, <1>1, <1>w, RingFacts DEF Ahead, Ring
    <3>2. ~(Ahead(t, read_flag') >= Ahead(w, read_flag'))
      BY <3>1, <1>4
    <3>3. Ahead(t, read_flag') \in Nat /\ Ahead(w, read_flag') \in Nat
      BY <1>1, <1>w
    <3> QED
      BY <3>2, <3>3, <2>1
  <2>2. CASE s # w /\ t = w
    BY <2>2, <1>2, <1>3, <1>e, <1>t DEF IInv, Numbered
  <2>3. CASE s # w /\ t # w
    BY <2>3, <1>2, <1>3, <1>n, <1>t DEF IInv, Growing
  <2> QED
    BY <2>1, <2>2, <2>3
<1>10. RingStep
  BY <1>2, <1>3, <1>e DEF RingStep
<1>11. Ahead(write_flag', read_flag') <= Ahead(write_flag, read_flag) + 1
  <2>1. Ahead(w, read_flag') <= Ahead(write_flag, read_flag)
    BY <1>t, <1>n DEF Ahead, Ring
  <2>2. Ahead(write_flag', read_flag') <= Ahead(w, read_flag') + 1
    BY <1>6, <1>n, <1>1, <1>w
  <2>3. /\ Ahead(w, read_flag') \in Nat /\ Ahead(write_flag, read_flag) \in Nat
        /\ Ahead(write_flag', read_flag') \in Nat
    BY <1>1, <1>t, <1>w
  <2> HIDE DEF w
  <2> QED
    BY <2>1, <2>2, <2>3
<1> QED
  BY <1>1, <1>7, <1>8, <1>9, <1>10, <1>11

LEMMA TakeRing ==
  ASSUME IInv, TakeEntry, last' = last
  PROVE  /\ int_sch' \in [Ring -> Entry] /\ read_flag' \in Ring /\ write_flag' \in Ring
         /\ stIntSch' \in Entry /\ stIntSch' # Empty /\ stIntSch' = int_sch[read_flag]
         /\ SlotsFit' /\ Numbered' /\ Growing' /\ RingStep
         /\ \A s \in Ring : int_sch'[s] # Empty => int_sch'[s] = int_sch[s] /\ stIntSch'.int < int_sch[s].int
         /\ Ahead(write_flag', read_flag') = Ahead(write_flag, read_flag) - 1
<1> USE EmptyIsEntry, RingFacts
<1>t. /\ int_sch \in [Ring -> Entry] /\ read_flag \in Ring /\ write_flag \in Ring
      /\ last \in Nat /\ bYuvMode \in BOOLEAN
  BY DEF IInv, TypeOK
<1>n. /\ stIntSch' = int_sch[read_flag]
      /\ int_sch' = [int_sch EXCEPT ![read_flag] = Empty]
      /\ read_flag' = After(read_flag) /\ write_flag' = write_flag
      /\ write_flag # read_flag /\ Matters(int_sch[read_flag].kind)
  BY DEF TakeEntry, Refused, IsEmpty
<1>1. int_sch' \in [Ring -> Entry] /\ read_flag' \in Ring /\ write_flag' \in Ring
  BY <1>t, <1>n, AfterInRing
<1>2. stIntSch' \in Entry /\ stIntSch' # Empty
  BY <1>t, <1>n DEF Matters
<1>3. \A s \in Ring : int_sch'[s] = IF s = read_flag THEN Empty ELSE int_sch[s]
  BY <1>t, <1>n
<1>4. \A s \in Ring : s # read_flag => Ahead(s, read_flag') = Ahead(s, read_flag) - 1
  BY <1>t, <1>n, AfterIs DEF Ahead, Ring
<1>5. Ahead(read_flag, read_flag') = Slots - 1
  BY <1>t, <1>n, AfterIs DEF Ahead, Ring
<1>6. SlotsFit'
  <2> SUFFICES ASSUME NEW s \in Ring
               PROVE  int_sch'[s] = Empty <=> Ahead(s, read_flag') >= Ahead(write_flag', read_flag')
    BY DEF SlotsFit, Ahead
  <2>1. CASE s = read_flag
    BY <2>1, <1>1, <1>3, <1>5
  <2>2. CASE s # read_flag
    BY <2>2, <1>t, <1>n, <1>3, <1>4 DEF IInv, SlotsFit
  <2> QED
    BY <2>1, <2>2
<1>7. Numbered'
  BY <1>t, <1>n, <1>3 DEF IInv, Numbered
<1>8. Growing'
  <2> SUFFICES ASSUME NEW s \in Ring, NEW t \in Ring, int_sch'[s] # Empty, int_sch'[t] # Empty,
                      Ahead(s, read_flag') < Ahead(t, read_flag')
               PROVE  int_sch'[s].int < int_sch'[t].int
    BY DEF Growing, Ahead
  <2>1. s # read_flag /\ t # read_flag
    BY <1>3
  <2> QED
    BY <2>1, <1>t, <1>3, <1>4 DEF IInv, Growing
<1>9. ASSUME NEW s \in Ring, int_sch'[s] # Empty
      PROVE  int_sch'[s] = int_sch[s] /\ stIntSch'.int < int_sch[s].int
  <2>1. s # read_flag /\ int_sch'[s] = int_sch[s]
    BY <1>9, <1>3
  <2>2. Ahead(read_flag, read_flag) < Ahead(s, read_flag)
    BY <2>1, <1>t DEF Ahead, Ring
  <2> QED
    BY <2>1, <2>2, <1>9, <1>2, <1>n, <1>t DEF IInv, Growing
<1>10. Ahead(write_flag', read_flag') = Ahead(write_flag, read_flag) - 1
  BY <1>t, <1>n, <1>4
<1>11. RingStep
  BY <1>9 DEF RingStep
<1> QED
  BY <1>1, <1>2, <1>n, <1>6, <1>7, <1>8, <1>9, <1>10, <1>11

-----------------------------------------------------------------------------
LEMMA InitIInv == Init => IInv
<1> SUFFICES ASSUME Init PROVE IInv
  OBVIOUS
<1> USE EmptyIsEntry, RingFacts DEF Init
<1>1. TypeOK
  BY DEF TypeOK, EmptyRing
<1>2. SlotsFit /\ Numbered /\ Growing
  BY DEF SlotsFit, Numbered, Growing, EmptyRing
<1> QED
  BY <1>1, <1>2 DEF IInv

(* A step that leaves the ring, the entry in hand and the count alone.        *)
LEMMA RingStays ==
  ASSUME IInv, UNCHANGED <<info, stIntSch, last>>
  PROVE  SlotsFit' /\ Numbered' /\ Growing'
  BY DEF IInv, info, SlotsFit, Numbered, Growing, Ahead

LEMMA RouteTypes ==
  ASSUME IInv, Route
  PROVE  routed' \in Seq(1 .. MaxInt)
<1>t. routed \in Seq(1 .. MaxInt) /\ last \in 0 .. MaxInt
  BY DEF IInv, TypeOK
<1>1. CASE bMemInit /\ stIntSch # Empty
  <2>1. stIntSch.int \in 1 .. last
    BY <1>1 DEF IInv, Numbered
  <2>2. stIntSch.int \in 1 .. MaxInt
    BY <2>1, <1>t
  <2>3. routed' = Append(routed, stIntSch.int)
    BY <1>1 DEF Route
  <2> QED
    BY <2>2, <2>3, <1>t
<1>2. CASE ~(bMemInit /\ stIntSch # Empty)
  BY <1>2, <1>t DEF Route
<1> QED
  BY <1>1, <1>2

LEMMA StepIInv == IInv /\ [Next]_vars => IInv'
<1> SUFFICES ASSUME IInv, [Next]_vars PROVE IInv'
  OBVIOUS
<1>t. TypeOK
  BY DEF IInv
<1>1. ASSUME NEW kind \in Kinds, IsrStore(kind) PROVE IInv'
  <2>1. /\ int_sch' \in [Ring -> Entry] /\ read_flag' \in Ring /\ write_flag' \in Ring
        /\ SlotsFit' /\ Numbered' /\ Growing'
    BY <1>1, StoreRing DEF IsrStore
  <2>2. TypeOK'
    BY <1>1, <1>t, <2>1 DEF IsrStore, TypeOK, mode, past
  <2> QED
    BY <2>1, <2>2 DEF IInv
<1>2. ASSUME IsrTake \/ ThreadTake PROVE IInv'
  <2>1. /\ int_sch' \in [Ring -> Entry] /\ read_flag' \in Ring /\ write_flag' \in Ring
        /\ stIntSch' \in Entry /\ stIntSch' # Empty /\ SlotsFit' /\ Numbered' /\ Growing'
    BY <1>2, TakeRing DEF IsrTake, ThreadTake
  <2>2. /\ shared' = shared \/ shared' = shared \cup {stIntSch'.int}
        /\ last' = last
    BY <1>2 DEF IsrTake, ThreadTake, Share
  <2>3. shared' \subseteq 1 .. MaxInt
    <3>1. last \in 0 .. MaxInt /\ shared \subseteq 1 .. MaxInt
      BY <1>t DEF TypeOK
    <3>2. stIntSch'.int \in 1 .. last
      BY <2>1, <2>2 DEF Numbered
    <3>3. stIntSch'.int \in 1 .. MaxInt
      BY <3>1, <3>2
    <3> QED
      BY <3>1, <3>3, <2>2, Zenon
  <2>4. TypeOK'
    BY <1>2, <1>t, <2>1, <2>3 DEF IsrTake, ThreadTake, TypeOK, mode
  <2> QED
    BY <2>1, <2>4 DEF IInv
<1>3. ASSUME IsrRoute \/ ThreadRoute PROVE IInv'
  <2>1. SlotsFit' /\ Numbered' /\ Growing'
    BY <1>3, RingStays DEF IsrRoute, ThreadRoute
  <2>2. routed' \in Seq(1 .. MaxInt)
    BY <1>3, RouteTypes DEF IsrRoute, ThreadRoute
  <2>3. TypeOK'
    BY <1>3, <1>t, <2>2 DEF IsrRoute, ThreadRoute, Wake, TypeOK, info, mode
  <2> QED
    BY <2>1, <2>3 DEF IInv
<1>4. ASSUME IsrBothalf \/ IsrDirect \/ IsrRefused \/ ThreadBegin \/ ThreadRefused PROVE IInv'
  <2>1. SlotsFit' /\ Numbered' /\ Growing'
    BY <1>4, RingStays DEF IsrBothalf, IsrDirect, IsrRefused, ThreadBegin, ThreadRefused
  <2>2. CASE IsrBothalf
    <3>1. behind' \in Nat
      BY <2>2, <1>t DEF IsrBothalf, TypeOK
    <3> QED
      BY <2>1, <2>2, <3>1, <1>t DEF IInv, IsrBothalf, Wake, TypeOK, info, mode
  <2>3. CASE IsrDirect
    BY <2>1, <2>3, <1>t DEF IInv, IsrDirect, TypeOK, info, mode, past
  <2>4. CASE IsrRefused
    BY <2>1, <2>4, <1>t DEF IInv, IsrRefused, Wake, TypeOK, info, mode
  <2>5. CASE ThreadBegin
    <3>1. behind' \in Nat
      BY <2>5, <1>t DEF ThreadBegin, TypeOK
    <3> QED
      BY <2>1, <2>5, <3>1, <1>t DEF IInv, ThreadBegin, TypeOK, info, mode
  <2>6. CASE ThreadRefused
    BY <2>1, <2>6, <1>t DEF IInv, ThreadRefused, TypeOK, info, mode
  <2> QED
    BY <1>4, <2>2, <2>3, <2>4, <2>5, <2>6
<1>5. ASSUME SetModParam \/ MemInfoSet \/ (\E this \in BOOLEAN : ResetCtx(this)) \/ WorkModeInit
      PROVE  IInv'
  <2>1. SlotsFit' /\ Numbered' /\ Growing'
    BY <1>5, RingStays DEF SetModParam, MemInfoSet, ResetCtx, WorkModeInit
  <2>2. TypeOK'
    BY <1>5, <1>t DEF SetModParam, MemInfoSet, ResetCtx, WorkModeInit, TypeOK, info, past
  <2> QED
    BY <2>1, <2>2 DEF IInv
<1>6. ASSUME SetWdrCfg PROVE IInv'
  <2>1. TypeOK'
    BY <1>6, <1>t, EmptyIsEntry, RingFacts DEF SetWdrCfg, TypeOK, EmptyRing, mode, past
  <2>2. SlotsFit' /\ Numbered' /\ Growing'
    BY <1>6, RingFacts DEF SetWdrCfg, EmptyRing, IInv, SlotsFit, Numbered, Growing, Ahead, Ring
  <2> QED
    BY <2>1, <2>2 DEF IInv
<1>7. CASE UNCHANGED vars
  <2>1. SlotsFit' /\ Numbered' /\ Growing'
    BY <1>7, RingStays DEF vars
  <2>2. TypeOK'
    BY <1>7, <1>t DEF vars, info, mode, past, TypeOK
  <2> QED
    BY <2>1, <2>2 DEF IInv
<1> QED
  BY <1>1, <1>2, <1>3, <1>4, <1>5, <1>6, <1>7 DEF Next, Isr, Thread

(* IInv holds in every reachable state.                                      *)
THEOREM RingInductive == Spec => []IInv
  BY InitIInv, StepIInv, PTL DEF Spec

(* The flags stay in the ring, and what is routed has the number of an        *)
(* interrupt: the bottom half never routes a cleared slot.                  *)
THEOREM TypeCorrect == Spec => []TypeOK
<1>1. IInv => TypeOK
  BY DEF IInv
<1> QED
  BY <1>1, RingInductive, PTL

LEMMA PendingIs == IInv => Pending = Ahead(write_flag, read_flag)
  BY AheadIs DEF IInv, TypeOK, Pending

(* The flags and the slots of the ring always agree: the warning that the     *)
(* ring is empty is never given.                                            *)
THEOREM SlotsMatch == Spec => []SlotsMatchFlags
<1>1. IInv => SlotsMatchFlags
  BY PendingIs, AheadIs DEF IInv, TypeOK, SlotsFit, SlotsMatchFlags
<1> QED
  BY <1>1, RingInductive, PTL

-----------------------------------------------------------------------------
(* The backlog: LateByLostRunOnly without the remainder.  A wake-up counts    *)
(* only while it is owed to an entry; that the mode makes it void does not    *)
(* matter before the thread begins.                                         *)
BacklogInv ==
  Ahead(write_flag, read_flag)
    <= behind + (IF owed THEN 1 ELSE 0) + (IF thread = "take" THEN 1 ELSE 0)
              + (IF isr \in {"stored", "take"} THEN 1 ELSE 0)

LEMMA StepBacklog ==
  ASSUME IInv, BacklogInv, [Next]_vars
  PROVE  BacklogInv'
<1> DEFINE A == Ahead(write_flag, read_flag)
<1>t. /\ A \in Nat /\ behind \in Nat
      /\ owed \in BOOLEAN /\ g_UseBothalf \in BOOLEAN
  BY RingFacts DEF IInv, TypeOK
<1>1. ASSUME NEW kind \in Kinds, IsrStore(kind) PROVE BacklogInv'
  <2>1. A' \in Nat /\ A' <= A + 1
    <3>1. read_flag' \in Ring /\ write_flag' \in Ring /\ A' <= A + 1
      BY <1>1, StoreRing DEF IsrStore, Ahead
    <3> QED
      BY <3>1, RingFacts DEF Ahead, Ring
  <2> HIDE DEF A
  <2> QED
    BY <1>1, <1>t, <2>1 DEF IsrStore, past, BacklogInv, A
<1>2. ASSUME IsrTake \/ ThreadTake PROVE BacklogInv'
  <2>1. A' = A - 1
    BY <1>2, TakeRing DEF IsrTake, ThreadTake, Ahead
  <2> HIDE DEF A
  <2> QED
    BY <1>2, <1>t, <2>1 DEF IsrTake, ThreadTake, BacklogInv, A
<1>3. ASSUME Isr \/ Thread, UNCHANGED info, ~ThreadTake, ~IsrTake,
             \A kind \in Kinds : ~IsrStore(kind)
      PROVE  BacklogInv'
  <2>1. A' = A
    BY <1>3 DEF info, Ahead
  <2> HIDE DEF A
  <2>2. CASE IsrBothalf
    BY <2>2, <2>1, <1>t DEF IsrBothalf, Wake, BacklogInv, A
  <2>3. CASE IsrDirect
    BY <2>3, <2>1, <1>t DEF IsrDirect, past, BacklogInv, A
  <2>4. CASE IsrRefused \/ IsrRoute
    BY <2>4, <2>1, <1>t DEF IsrRefused, IsrRoute, Wake, BacklogInv, A
  <2>5. CASE ThreadBegin
    BY <2>5, <2>1, <1>t DEF ThreadBegin, BacklogInv, A
  <2>6. CASE ThreadRefused \/ ThreadRoute
    BY <2>6, <2>1, <1>t DEF ThreadRefused, ThreadRoute, BacklogInv, A
  <2> QED
    BY <1>3, <2>2, <2>3, <2>4, <2>5, <2>6 DEF Isr, Thread
<1>4. ASSUME SetModParam \/ MemInfoSet \/ (\E this \in BOOLEAN : ResetCtx(this)) \/ WorkModeInit
      PROVE  BacklogInv'
  <2>1. A' = A
    BY <1>4 DEF SetModParam, MemInfoSet, ResetCtx, WorkModeInit, info, Ahead
  <2> HIDE DEF A
  <2> QED
    BY <1>4, <2>1, <1>t DEF SetModParam, MemInfoSet, ResetCtx, WorkModeInit, past, BacklogInv, A
<1>5. ASSUME SetWdrCfg PROVE BacklogInv'
  <2>1. A' = 0
    BY <1>5 DEF SetWdrCfg, Ahead
  <2> HIDE DEF A
  <2> QED
    BY <1>5, <2>1, <1>t DEF SetWdrCfg, past, BacklogInv, A
<1>6. CASE UNCHANGED vars
  BY <1>6 DEF vars, info, past, BacklogInv, Ahead
<1>7. (Isr \/ Thread) => UNCHANGED info \/ IsrTake \/ ThreadTake \/ \E kind \in Kinds : IsrStore(kind)
  BY DEF Isr, Thread, IsrBothalf, IsrDirect, IsrRefused, IsrRoute, ThreadBegin, ThreadRefused, ThreadRoute
<1> QED
  BY <1>1, <1>2, <1>3, <1>4, <1>5, <1>6, <1>7 DEF Next

(* At any moment the bottom half is late by no more than the wake-ups that     *)
(* were merged or void and the entries it refused.                          *)
THEOREM BacklogBounded == Spec => []LateByLostRunOnly
<1>1. Init => BacklogInv
  BY RingFacts DEF Init, BacklogInv
<1>2. IInv /\ BacklogInv /\ [Next]_vars => BacklogInv'
  BY StepBacklog
<1>3. IInv /\ BacklogInv => LateByLostRunOnly
  <2> SUFFICES ASSUME IInv, BacklogInv PROVE LateByLostRunOnly
    OBVIOUS
  <2>1. Pending = Ahead(write_flag, read_flag) /\ behind \in Nat
    BY PendingIs DEF IInv, TypeOK
  <2>2. Ahead(write_flag, read_flag) \in Nat
    BY RingFacts DEF IInv, TypeOK
  <2> QED
    BY <2>1, <2>2 DEF BacklogInv, LateByLostRunOnly
<1> QED
  BY <1>1, <1>2, <1>3, RingInductive, PTL DEF Spec

-----------------------------------------------------------------------------
(* The order of the routed interrupts. *)

AtRoute == isr = "route" \/ thread = "route"

(* Two bottom halves at their entries share the one taken last. *)
HandShared == isr = "route" /\ thread = "route" => stIntSch.int \in shared

(* What was routed came before the entry in hand, unless that is shared, ...  *)
RoutedBefore ==
  /\ \A i \in 1 .. Len(routed) : routed[i] <= stIntSch.int
  /\ AtRoute /\ stIntSch.int \notin shared => \A i \in 1 .. Len(routed) : routed[i] < stIntSch.int

(* ... which came before what the ring has.                                 *)
HandBefore == \A s \in Ring : int_sch[s] # Empty => stIntSch.int < int_sch[s].int

OrderInv == HandShared /\ RoutedBefore /\ HandBefore /\ RoutedInOrder

LEMMA RouteOrder ==
  ASSUME IInv, OrderInv, AtRoute, Route, UNCHANGED <<info, stIntSch, shared>>,
         AtRoute' => isr = "route" /\ thread = "route", ~(isr' = "route" /\ thread' = "route")
  PROVE  OrderInv'
<1>t. routed \in Seq(1 .. MaxInt) /\ stIntSch \in Entry
  BY DEF IInv, TypeOK
<1>i. stIntSch.int \in Int /\ Len(routed) \in Nat /\ \A i \in 1 .. Len(routed) : routed[i] \in Int
  BY <1>t DEF Entry
<1>1. HandBefore' /\ HandShared'
  BY DEF OrderInv, HandBefore, HandShared, info
<1>s. AtRoute' => stIntSch.int \in shared
  BY DEF OrderInv, HandShared
<1>b. \A i \in 1 .. Len(routed) :
        routed[i] < stIntSch.int \/ (routed[i] = stIntSch.int /\ stIntSch.int \in shared)
  BY <1>i DEF OrderInv, RoutedBefore
<1>2. CASE bMemInit /\ stIntSch # Empty
  <2>1. routed' = Append(routed, stIntSch.int)
    BY <1>2 DEF Route
  <2>2. /\ Len(routed') = Len(routed) + 1
        /\ \A i \in 1 .. Len(routed) : routed'[i] = routed[i]
        /\ routed'[Len(routed) + 1] = stIntSch.int
    BY <2>1, <1>t, <1>i
  <2>4. RoutedBefore'
    BY <2>2, <1>b, <1>s, <1>i DEF RoutedBefore
  <2>5. RoutedInOrder'
    BY <2>2, <1>b, <1>i DEF OrderInv, RoutedInOrder
  <2> QED
    BY <1>1, <2>4, <2>5 DEF OrderInv
<1>3. CASE ~(bMemInit /\ stIntSch # Empty)
  <2>1. routed' = routed
    BY <1>3 DEF Route
  <2> QED
    BY <1>1, <1>s, <1>i, <2>1 DEF OrderInv, RoutedBefore, RoutedInOrder
<1> QED
  BY <1>2, <1>3

LEMMA StepOrder ==
  ASSUME IInv, OrderInv, [Next]_vars
  PROVE  OrderInv'
<1>t. /\ stIntSch \in Entry /\ read_flag \in Ring /\ routed \in Seq(1 .. MaxInt)
      /\ int_sch \in [Ring -> Entry] /\ last \in Nat
  BY DEF IInv, TypeOK
<1>i. /\ stIntSch.int \in Int /\ Len(routed) \in Nat
      /\ \A i \in 1 .. Len(routed) : routed[i] \in Int
      /\ \A s \in Ring : int_sch[s].int \in Int
  BY <1>t DEF Entry
<1>1. ASSUME NEW kind \in Kinds, IsrStore(kind) PROVE OrderInv'
  <2>1. HandShared' /\ RoutedBefore' /\ RoutedInOrder'
    BY <1>1 DEF IsrStore, past, OrderInv, HandShared, RoutedBefore, RoutedInOrder, AtRoute
  <2>2. HandBefore'
    <3>1. RingStep
      BY <1>1, StoreRing DEF IsrStore
    <3>2. stIntSch.int <= last
      BY <1>t, EmptyIsEntry DEF IInv, Numbered
    <3>3. stIntSch' = stIntSch
      BY <1>1 DEF IsrStore
    <3> QED
      BY <3>1, <3>2, <3>3, <1>i, <1>t DEF RingStep, OrderInv, HandBefore
  <2> QED
    BY <2>1, <2>2 DEF OrderInv
<1>2. ASSUME IsrTake \/ ThreadTake PROVE OrderInv'
  <2>1. /\ shared \subseteq shared' /\ routed' = routed /\ HandShared'
    BY <1>2 DEF IsrTake, ThreadTake, Share, HandShared
  <2>2. /\ stIntSch' # Empty /\ stIntSch' = int_sch[read_flag]
        /\ \A s \in Ring : int_sch'[s] # Empty => int_sch'[s] = int_sch[s] /\ stIntSch'.int < int_sch[s].int
    BY <1>2, TakeRing DEF IsrTake, ThreadTake
  <2>3. HandBefore'
    BY <2>2 DEF HandBefore
  <2>4. stIntSch.int < stIntSch'.int /\ stIntSch'.int \in Int
    BY <2>2, <1>t, <1>i DEF OrderInv, HandBefore
  <2>5. RoutedBefore'
    BY <2>1, <2>4, <1>i DEF OrderInv, RoutedBefore
  <2>6. RoutedInOrder'
    BY <2>1 DEF OrderInv, RoutedInOrder
  <2> QED
    BY <2>1, <2>3, <2>5, <2>6 DEF OrderInv
<1>3. ASSUME IsrRoute \/ ThreadRoute PROVE OrderInv'
  <2>1. /\ AtRoute /\ Route /\ UNCHANGED <<info, stIntSch, shared>>
        /\ AtRoute' => isr = "route" /\ thread = "route"
        /\ ~(isr' = "route" /\ thread' = "route")
    BY <1>3 DEF IsrRoute, ThreadRoute, Wake, AtRoute
  <2> QED
    BY <2>1, RouteOrder
<1>4. ASSUME IsrBothalf \/ IsrDirect \/ IsrRefused \/ ThreadBegin \/ ThreadRefused PROVE OrderInv'
  <2>1. /\ isr' = "route" <=> isr = "route"
        /\ thread' = "route" <=> thread = "route"
        /\ UNCHANGED <<info, stIntSch, routed, shared>>
    BY <1>4 DEF IsrBothalf, IsrDirect, IsrRefused, ThreadBegin, ThreadRefused, Wake, past
  <2> QED
    BY <2>1 DEF info, OrderInv, HandShared, RoutedBefore, HandBefore, RoutedInOrder, AtRoute
<1>5. ASSUME SetModParam \/ MemInfoSet \/ (\E this \in BOOLEAN : ResetCtx(this)) \/ WorkModeInit
      PROVE  OrderInv'
  <2>1. UNCHANGED <<info, stIntSch, isr, thread, routed, shared>>
    BY <1>5 DEF SetModParam, MemInfoSet, ResetCtx, WorkModeInit, past
  <2> QED
    BY <2>1 DEF info, OrderInv, HandShared, RoutedBefore, HandBefore, RoutedInOrder, AtRoute
<1>6. ASSUME SetWdrCfg PROVE OrderInv'
  BY <1>6 DEF SetWdrCfg, past, EmptyRing, OrderInv, HandShared, RoutedBefore, HandBefore, RoutedInOrder, AtRoute
<1>7. CASE UNCHANGED vars
  BY <1>7 DEF vars, info, past, OrderInv, HandShared, RoutedBefore, HandBefore, RoutedInOrder, AtRoute
<1> QED
  BY <1>1, <1>2, <1>3, <1>4, <1>5, <1>6, <1>7 DEF Next, Isr, Thread

(* Whoever runs the bottom half and however the mode changes, no interrupt is *)
(* routed after a later one, and none twice but those taken while two bottom  *)
(* halves were at their entries.                                            *)
THEOREM OrderKept == Spec => []RoutedInOrder
<1>1. Init => OrderInv
  BY EmptyIsEntry DEF Init, OrderInv, HandShared, RoutedBefore, HandBefore, RoutedInOrder, AtRoute, EmptyRing
<1>2. IInv /\ OrderInv /\ [Next]_vars => OrderInv'
  BY StepOrder
<1>3. OrderInv => RoutedInOrder
  BY DEF OrderInv
<1> QED
  BY <1>1, <1>2, <1>3, RingInductive, PTL DEF Spec

-----------------------------------------------------------------------------
(* The ring is the queue of IspIntQueue. *)

(* The slot n places on from slot r, without the remainder. *)
SlotOn(r, n) == IF r + n < Slots THEN r + n ELSE r + n - Slots

LEMMA OnceRound == ASSUME NEW n \in Ring PROVE (n + Slots) % Slots = n
  BY SMTT(30) DEF Ring

LEMMA SlotOnIs == ASSUME NEW r \in Ring, NEW n \in Ring
                  PROVE  (r + n) % Slots = SlotOn(r, n)
<1>1. CASE r + n < Slots
  <2>1. r + n \in 0 .. Slots - 1
    BY <1>1 DEF Ring
  <2>2. (r + n) % Slots = r + n
    BY <2>1, SMTT(30)
  <2> QED
    BY <1>1, <2>2 DEF SlotOn
<1>2. CASE r + n >= Slots
  <2>1. /\ r + n - Slots \in Ring
        /\ r + n = (r + n - Slots) + Slots
    BY <1>2 DEF Ring
  <2>2. (r + n) % Slots = r + n - Slots
    BY <2>1, OnceRound
  <2> QED
    BY <1>2, <2>2 DEF SlotOn, Ring
<1> QED
  BY <1>1, <1>2 DEF Ring

LEMMA SlotOnFacts ==
  /\ \A r, n \in Ring : SlotOn(r, n) \in Ring /\ Ahead(SlotOn(r, n), r) = n
  /\ \A r, s \in Ring : SlotOn(r, Ahead(s, r)) = s
  /\ \A r, n \in Ring : n + 1 \in Ring => SlotOn(After(r), n) = SlotOn(r, n + 1)
<1>1. \A r, n \in Ring : SlotOn(r, n) \in Ring /\ Ahead(SlotOn(r, n), r) = n
  BY DEF SlotOn, Ahead, Ring
<1>2. \A r, s \in Ring : SlotOn(r, Ahead(s, r)) = s
  BY DEF SlotOn, Ahead, Ring
<1>3. \A r, n \in Ring : n + 1 \in Ring => SlotOn(After(r), n) = SlotOn(r, n + 1)
  BY AfterIs DEF SlotOn, Ring
<1> QED
  BY <1>1, <1>2, <1>3

(* What the queue holds, without the remainders. *)
KeptFits ==
  /\ Kept = [i \in 1 .. Ahead(write_flag, read_flag) |-> int_sch[SlotOn(read_flag, i - 1)].int]
  /\ Kept \in Seq(Nat) /\ Len(Kept) = Ahead(write_flag, read_flag)

LEMMA KeptIs == IInv => KeptFits
<1> SUFFICES ASSUME IInv PROVE KeptFits
  OBVIOUS
<1> DEFINE A == Ahead(write_flag, read_flag)
<1>1. Pending = A /\ A \in Nat /\ A < Slots /\ read_flag \in Ring /\ int_sch \in [Ring -> Entry]
  BY PendingIs, RingFacts DEF IInv, TypeOK
<1>2. ASSUME NEW i \in 1 .. A
      PROVE  /\ (read_flag + i - 1) % Slots = SlotOn(read_flag, i - 1)
             /\ int_sch[SlotOn(read_flag, i - 1)].int \in Nat
  <2> HIDE DEF A
  <2>1. i - 1 \in Ring
    BY <1>1 DEF Ring
  <2>2. read_flag + i - 1 = read_flag + (i - 1)
    BY <1>1 DEF Ring
  <2>3. SlotOn(read_flag, i - 1) \in Ring
    BY <2>1, <1>1, SlotOnFacts
  <2> QED
    BY <2>1, <2>2, <2>3, <1>1, SlotOnIs DEF Entry
<1>3. Kept = [i \in 1 .. A |-> int_sch[SlotOn(read_flag, i - 1)].int]
  BY <1>1, <1>2 DEF Kept
<1>4. Kept \in Seq(Nat) /\ Len(Kept) = A
  <2> HIDE DEF A
  <2> QED
    BY <1>1, <1>2, <1>3
<1> QED
  BY <1>3, <1>4 DEF KeptFits

(* Queues are equal when they have the same length and elements. *)
LEMMA SameQueue ==
  ASSUME NEW q \in Seq(Nat), NEW r \in Seq(Nat), Len(q) = Len(r),
         \A i \in 1 .. Len(q) : q[i] = r[i]
  PROVE  q = r
  OBVIOUS

LEMMA TakeIsTake ==
  ASSUME IInv, IInv', KeptFits, KeptFits', TakeEntry, last' = last
  PROVE  Queue!Take
<1> DEFINE A == Ahead(write_flag, read_flag)
<1>1. /\ A \in Nat /\ A < Slots /\ A' = A - 1 /\ A' \in Nat
      /\ read_flag \in Ring /\ read_flag' = After(read_flag)
      /\ \A s \in Ring : s # read_flag => int_sch'[s] = int_sch[s]
  BY TakeRing, RingFacts DEF IInv, TypeOK, TakeEntry, Ahead
<1>2. /\ Kept \in Seq(Nat) /\ Len(Kept) = A
      /\ \A i \in 1 .. A : Kept[i] = int_sch[SlotOn(read_flag, i - 1)].int
      /\ Kept' \in Seq(Nat) /\ Len(Kept') = A'
      /\ \A i \in 1 .. A' : Kept'[i] = int_sch'[SlotOn(read_flag', i - 1)].int
  BY DEF KeptFits
<1> HIDE DEF A
<1>3. ASSUME NEW i \in 1 .. A' PROVE Kept'[i] = Kept[i + 1]
  <2>1. i - 1 \in Ring /\ i \in Ring /\ i # 0 /\ (i - 1) + 1 = i
    BY <1>1 DEF Ring
  <2>2. SlotOn(read_flag', i - 1) = SlotOn(read_flag, i)
    BY <2>1, <1>1, SlotOnFacts
  <2>3. SlotOn(read_flag, i) \in Ring /\ SlotOn(read_flag, i) # read_flag
    BY <2>1, <1>1, SlotOnFacts, RingFacts
  <2>4. Kept[i + 1] = int_sch[SlotOn(read_flag, i)].int
    <3>1. i + 1 \in 1 .. A /\ (i + 1) - 1 = i
      BY <1>1
    <3> QED
      BY <3>1, <1>2
  <2> QED
    BY <2>2, <2>3, <2>4, <1>1, <1>2
<1>4. Kept # <<>> /\ Tail(Kept) \in Seq(Nat) /\ Len(Tail(Kept)) = A'
      /\ \A i \in 1 .. A' : Tail(Kept)[i] = Kept[i + 1]
  BY <1>1, <1>2
<1>5. Kept' = Tail(Kept)
  BY <1>2, <1>3, <1>4, SameQueue
<1> QED
  BY <1>4, <1>5 DEF Queue!Take

(* A store is the arrival of an interrupt. *)
LEMMA StoreIsArrival ==
  ASSUME IInv, IInv', KeptFits, KeptFits', NEW kind \in Kinds,
         Store(kind), last < MaxInt, last' = last + 1, stIntSch' = stIntSch
  PROVE  Queue!Keep \/ Queue!Ignore
<1> DEFINE A == Ahead(write_flag, read_flag)
           e == IF Matters(kind) THEN [int |-> last', kind |-> kind] ELSE Empty
<1>1. /\ A \in Nat /\ A < Slots /\ A' \in Nat /\ last \in Nat
      /\ read_flag \in Ring /\ write_flag \in Ring /\ int_sch \in [Ring -> Entry]
  BY RingFacts DEF IInv, TypeOK, Ahead
<1>2. /\ Kept \in Seq(Nat) /\ Len(Kept) = A
      /\ \A i \in 1 .. A : Kept[i] = int_sch[SlotOn(read_flag, i - 1)].int
      /\ Kept' \in Seq(Nat) /\ Len(Kept') = A'
      /\ \A i \in 1 .. A' : Kept'[i] = int_sch'[SlotOn(read_flag', i - 1)].int
  BY DEF KeptFits
<1>f. IsFull <=> A = Slots - 1
  BY <1>1, AfterIs DEF IsFull, Ahead, Ring
<1>3. CASE IsFull
  <2>1. read_flag' = 0 /\ write_flag' = IF Matters(kind) THEN After(0) ELSE 0
    BY <1>3 DEF Store
  <2>2. After(0) = 1
    BY AfterIs, RingFacts
  <2>3. CASE Matters(kind)
    <3>1. A' = 1 /\ int_sch'[0].int = last + 1 /\ SlotOn(0, 0) = 0
      BY <2>1, <2>2, <2>3, <1>3, RingFacts DEF Ahead, Store, EmptyRing, SlotOn
    <3>2. Len(Kept') = 1 /\ Kept'[1] = last + 1
      BY <3>1, <2>1, <1>2
    <3>3. Kept' = <<last'>>
      BY <3>2, <1>1, <1>2, SameQueue
    <3> QED
      BY <3>3, <1>2, <1>3, <1>f DEF Queue!Keep
  <2>4. CASE ~Matters(kind)
    <3>1. A' = 0
      BY <2>1, <2>4 DEF Ahead
    <3>2. Kept' = <<>>
      BY <3>1, <1>2
    <3> QED
      BY <3>2, <1>2, <1>3, <1>f DEF Queue!Ignore
  <2> QED
    BY <2>3, <2>4
<1>4. CASE ~IsFull
  <2>1. /\ read_flag' = read_flag
        /\ write_flag' = IF Matters(kind) THEN After(write_flag) ELSE write_flag
        /\ \A s \in Ring : int_sch'[s] = IF s = write_flag THEN e ELSE int_sch[s]
    BY <1>4, <1>1 DEF Store
  <2>2. A < Slots - 1
    BY <1>4, <1>1, <1>f
  <2>3. A' = IF Matters(kind) THEN A + 1 ELSE A
    <3>1. CASE Matters(kind)
      <4>1. write_flag' = IF write_flag = Slots - 1 THEN 0 ELSE write_flag + 1
        BY <3>1, <2>1, <1>1, AfterIs
      <4>2. write_flag' # read_flag
        BY <3>1, <2>1, <1>4 DEF IsFull
      <4>3. Ahead(write_flag', read_flag) = Ahead(write_flag, read_flag) + 1
        BY <4>1, <4>2, <1>1 DEF Ahead, Ring
      <4> QED
        BY <4>3, <3>1, <2>1 DEF Ahead
    <3>2. CASE ~Matters(kind)
      BY <3>2, <2>1 DEF Ahead
    <3> QED
      BY <3>1, <3>2
  <2>4. SlotOn(read_flag, A) = write_flag
    BY <1>1, SlotOnFacts
  <2> HIDE DEF A
  <2>5. ASSUME NEW i \in 1 .. A PROVE Kept'[i] = Kept[i]
    <3>1. i - 1 \in Ring /\ i - 1 # A /\ A \in Ring /\ i \in 1 .. A'
      BY <1>1, <2>3 DEF Ring
    <3>2. SlotOn(read_flag, i - 1) \in Ring /\ SlotOn(read_flag, i - 1) # write_flag
      BY <3>1, <2>4, <1>1, SlotOnFacts
    <3> HIDE DEF e
    <3>3. int_sch'[SlotOn(read_flag, i - 1)] = int_sch[SlotOn(read_flag, i - 1)]
      BY <3>2, <2>1
    <3>4. Kept'[i] = int_sch'[SlotOn(read_flag, i - 1)].int
      BY <3>1, <2>1, <1>2
    <3> QED
      BY <3>3, <3>4, <1>2
  <2>6. CASE Matters(kind)
    <3>1. int_sch'[write_flag].int = last + 1
      BY <2>1, <2>6, <1>1
    <3>2. Kept'[A + 1] = last + 1
      <4>1. A + 1 \in 1 .. A' /\ (A + 1) - 1 = A
        BY <2>3, <2>6, <1>1
      <4> QED
        BY <4>1, <3>1, <2>1, <2>4, <1>2
    <3>3. /\ Append(Kept, last + 1) \in Seq(Nat) /\ Len(Append(Kept, last + 1)) = A + 1
          /\ Append(Kept, last + 1)[A + 1] = last + 1
          /\ \A i \in 1 .. A : Append(Kept, last + 1)[i] = Kept[i]
      BY <1>1, <1>2
    <3>4. Kept' = Append(Kept, last + 1)
      <4>1. \A i \in 1 .. A + 1 : Kept'[i] = Append(Kept, last + 1)[i]
        BY <3>2, <3>3, <2>5, <1>1
      <4> QED
        BY <4>1, <3>3, <2>3, <2>6, <1>2, SameQueue
    <3> QED
      BY <3>4, <2>2, <1>2 DEF Queue!Keep
  <2>7. CASE ~Matters(kind)
    <3>1. Kept' = Kept
      BY <2>3, <2>5, <2>7, <1>2, SameQueue
    <3> QED
      BY <3>1, <2>2, <1>1, <1>2 DEF Queue!Ignore
  <2> QED
    BY <2>6, <2>7
<1> QED
  BY <1>3, <1>4

(* Every step of the ring is a step of the queue or leaves it alone. *)
LEMMA StepIsQueue ==
  ASSUME IInv, IInv', KeptFits, KeptFits', [Next]_vars
  PROVE  [Queue!Next]_<<Kept, last>>
<1>1. ASSUME NEW kind \in Kinds, IsrStore(kind) PROVE Queue!Next
  BY <1>1, StoreIsArrival DEF IsrStore, Queue!Next
<1>2. ASSUME IsrTake \/ ThreadTake PROVE Queue!Next
  BY <1>2, TakeIsTake DEF IsrTake, ThreadTake, Queue!Next
<1>3. ASSUME SetWdrCfg PROVE Queue!Next
  <2>1. Ahead(write_flag, read_flag)' = 0 /\ last' = last
    BY <1>3 DEF SetWdrCfg, Ahead
  <2>2. Kept' = <<>>
    BY <2>1 DEF KeptFits
  <2> QED
    BY <2>1, <2>2 DEF Queue!Next, Queue!Clear
<1>4. ASSUME UNCHANGED <<info, last>> PROVE UNCHANGED <<Kept, last>>
  BY <1>4 DEF info, Kept, Pending
<1>5. ASSUME IsrBothalf \/ IsrDirect \/ IsrRefused \/ IsrRoute \/ ThreadBegin \/ ThreadRefused \/ ThreadRoute
      PROVE  UNCHANGED <<info, last>>
  BY <1>5 DEF IsrBothalf, IsrDirect, IsrRefused, IsrRoute, ThreadBegin, ThreadRefused, ThreadRoute
<1>6. ASSUME SetModParam \/ MemInfoSet \/ (\E this \in BOOLEAN : ResetCtx(this)) \/ WorkModeInit
      PROVE  UNCHANGED <<info, last>>
  BY <1>6 DEF SetModParam, MemInfoSet, ResetCtx, WorkModeInit
<1>7. UNCHANGED vars => UNCHANGED <<info, last>>
  BY DEF vars
<1> QED
  BY <1>1, <1>2, <1>3, <1>4, <1>5, <1>6, <1>7 DEF Next, Isr, Thread

(* The ring with its two flags is a queue, whoever stores, takes and wipes.   *)
THEOREM RingIsQueue == Spec => IsQueue
<1>1. Init => Queue!Init
  BY DEF Init, Queue!Init, Kept, Pending
<1>2. IInv /\ IInv' /\ KeptFits /\ KeptFits' /\ [Next]_vars => [Queue!Next]_<<Kept, last>>
  BY StepIsQueue
<1> QED
  BY <1>1, <1>2, KeptIs, RingInductive, PTL DEF Spec, IsQueue, Queue!Spec

=============================================================================
