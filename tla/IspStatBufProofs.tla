--------------------------- MODULE IspStatBufProofs ---------------------------
(***************************************************************************)
(* Proofs about IspStatBuf, for any memory the buffers are put in, any set   *)
(* of interrupts and any number of frames.                                   *)
(***************************************************************************)
EXTENDS IspStatBuf, SequenceTheorems, FiniteSetTheorems, TLAPS

USE MaxFrameAssumption

(***************************************************************************)
(* Lists of at most two nodes, and what the operations make of them.         *)
(***************************************************************************)
LEMMA ListIs == ASSUME NEW s \in Seq(Nodes)
                PROVE  /\ Len(s) = 0 => s = <<>>
                       /\ Len(s) = 1 => s = <<s[1]>>
                       /\ Len(s) = 2 => s = <<s[1], s[2]>>
  OBVIOUS

LEMMA Appended == ASSUME NEW n \in Nodes, NEW m \in Nodes
                  PROVE  Append(<<n>>, m) = <<n, m>> /\ Append(<<>>, m) = <<m>>
<1>1. /\ Append(<<n>>, m) \in Seq(Nodes) /\ Len(Append(<<n>>, m)) = 2
      /\ Append(<<n>>, m)[1] = n /\ Append(<<n>>, m)[2] = m
  OBVIOUS
<1>2. /\ Append(<<>>, m) \in Seq(Nodes) /\ Len(Append(<<>>, m)) = 1
      /\ Append(<<>>, m)[1] = m
  OBVIOUS
<1> QED
  BY <1>1, <1>2, ListIs

LEMMA Joined == ASSUME NEW n \in Nodes, NEW m \in Nodes
                PROVE  /\ <<n>> \o <<m>> = <<n, m>>
                       /\ <<>> \o <<n, m>> = <<n, m>> /\ <<n, m>> \o <<>> = <<n, m>>
                       /\ <<>> \o <<n>> = <<n>> /\ <<n>> \o <<>> = <<n>>
                       /\ <<>> \o <<>> = <<>>
<1>1. /\ <<n>> \o <<m>> \in Seq(Nodes) /\ Len(<<n>> \o <<m>>) = 2
      /\ (<<n>> \o <<m>>)[1] = n /\ (<<n>> \o <<m>>)[2] = m
  OBVIOUS
<1>2. <<>> \in Seq(Nodes) /\ <<n>> \in Seq(Nodes) /\ <<n, m>> \in Seq(Nodes)
  OBVIOUS
<1> QED
  BY <1>1, <1>2, ListIs, ConcatEmptySeq

LEMMA Removed == ASSUME NEW n \in Nodes, NEW m \in Nodes
                 PROVE  /\ RemoveAt(<<n>>, 1) = <<>>
                        /\ RemoveAt(<<n, m>>, 1) = <<m>> /\ RemoveAt(<<n, m>>, 2) = <<n>>
<1>1. RemoveAt(<<n>>, 1) = <<>>
  <2>1. SubSeq(<<n>>, 1, 0) = <<>> /\ SubSeq(<<n>>, 2, 1) = <<>>
    BY SubSeqEmpty
  <2>2. RemoveAt(<<n>>, 1) = SubSeq(<<n>>, 1, 0) \o SubSeq(<<n>>, 2, 1)
    BY DEF RemoveAt
  <2> QED
    BY <2>1, <2>2, Joined
<1>2. RemoveAt(<<n, m>>, 1) = <<m>>
  <2>1. RemoveAt(<<n, m>>, 1) = SubSeq(<<n, m>>, 1, 0) \o SubSeq(<<n, m>>, 2, 2)
    BY DEF RemoveAt
  <2>2. SubSeq(<<n, m>>, 1, 0) = <<>>
    BY SubSeqEmpty
  <2>3. /\ SubSeq(<<n, m>>, 2, 2) \in Seq(Nodes) /\ Len(SubSeq(<<n, m>>, 2, 2)) = 1
        /\ SubSeq(<<n, m>>, 2, 2)[1] = m
    OBVIOUS
  <2>4. SubSeq(<<n, m>>, 2, 2) = <<m>>
    BY <2>3, ListIs
  <2> QED
    BY <2>1, <2>2, <2>4, Joined
<1>3. RemoveAt(<<n, m>>, 2) = <<n>>
  <2>1. RemoveAt(<<n, m>>, 2) = SubSeq(<<n, m>>, 1, 1) \o SubSeq(<<n, m>>, 3, 2)
    BY DEF RemoveAt
  <2>2. SubSeq(<<n, m>>, 3, 2) = <<>>
    BY SubSeqEmpty
  <2>3. /\ SubSeq(<<n, m>>, 1, 1) \in Seq(Nodes) /\ Len(SubSeq(<<n, m>>, 1, 1)) = 1
        /\ SubSeq(<<n, m>>, 1, 1)[1] = n
    OBVIOUS
  <2>4. SubSeq(<<n, m>>, 1, 1) = <<n>>
    BY <2>3, ListIs
  <2> QED
    BY <2>1, <2>2, <2>4, Joined
<1> QED
  BY <1>1, <1>2, <1>3

LEMMA Empty == Range(<<>>) = {} /\ Len(<<>>) = 0 /\ <<>> \in Seq(Nodes)
  BY DEF Range

LEMMA Members == ASSUME NEW n \in Nodes, NEW m \in Nodes
                 PROVE  /\ Range(<<n>>) = {n} /\ Range(<<n, m>>) = {n, m}
                        /\ Head(<<n>>) = n /\ Tail(<<n>>) = <<>>
                        /\ Head(<<n, m>>) = n /\ Tail(<<n, m>>) = <<m>>
                        /\ <<n>> # <<>> /\ <<n, m>> # <<>>
                        /\ <<n>> \in Seq(Nodes) /\ <<n, m>> \in Seq(Nodes)
                        /\ Len(<<n>>) = 1 /\ Len(<<n, m>>) = 2
                        /\ \A i \in DOMAIN <<n>> : i = 1
                        /\ \A i \in DOMAIN <<n, m>> : i = 1 \/ i = 2
                        /\ <<n>>[1] = n /\ <<n, m>>[1] = n /\ <<n, m>>[2] = m
  BY DEF Range
-----------------------------------------------------------------------------
(***************************************************************************)
(* The inductive invariant.  With two nodes and no more than one of them     *)
(* busy, the lists can be in five shapes.                                    *)
(***************************************************************************)
Shape(f, b, u) == free = f /\ busy = b /\ user = u /\ held = Range(u)
Counts(f, b, u) == num.free = f /\ num.busy = b /\ num.user = u
Placed(n, m) ==
    \/ Shape(<<n, m>>, <<>>, <<>>) /\ Counts(2, 0, 0)
    \/ Shape(<<n>>, <<>>, <<m>>) /\ Counts(1, 0, 1)
    \/ Shape(<<>>, <<>>, <<n, m>>) /\ Counts(0, 0, 2)
    \/ Shape(<<n>>, <<m>>, <<>>) /\ Counts(1, 1, 0)
    \/ Shape(<<>>, <<m>>, <<n>>) /\ Counts(0, 1, 1)

ListsOK ==
    /\ bInit => \E n, m \in Nodes : n # m /\ Placed(n, m)
    /\ ~bInit => Shape(<<>>, <<>>, <<>>)
    /\ num \in Num

\* the nodes' memory is there while they are on a list
MemoryOK ==
    /\ lib = "free" => ~bInit
    /\ bInit => \A n \in Nodes : virt_addr[n] \in alive
    /\ IrqWritesAlive

\* TypeOK without the lists; a focus task has seen an active node
OtherTypes ==
    /\ bInit \in BOOLEAN
    /\ virt_addr \in [Nodes -> Areas \cup {Null}] /\ alive \subseteq Areas
    /\ stat \in [Nodes -> [Parts -> 0 .. MaxFrame]]
    /\ frame \in 0 .. MaxFrame /\ got \subseteq Parts
    /\ pstActStat \in Nodes \cup {None}
    /\ lib \in {"idle", "free"}
    /\ irq \in [Irqs -> {"idle", "put"}]
    /\ af \in [pc : {"idle", "load", "read"}, addr : Areas \cup {Null}]
    /\ touched \subseteq {"irq", "freed"}
    /\ af.pc = "load" => pstActStat # None

IInv == OtherTypes /\ ListsOK /\ MemoryOK /\ ActiveIsNewest

LEMMA ListTypes == ListsOK => /\ free \in Seq(Nodes) /\ busy \in Seq(Nodes)
                              /\ user \in Seq(Nodes) /\ held \subseteq Nodes
<1> SUFFICES ASSUME ListsOK PROVE /\ free \in Seq(Nodes) /\ busy \in Seq(Nodes)
                                  /\ user \in Seq(Nodes) /\ held \subseteq Nodes
  OBVIOUS
<1>1. CASE ~bInit
  BY <1>1, Empty DEF ListsOK, Shape
<1>2. CASE bInit
  <2>1. PICK n \in Nodes, m \in Nodes : Placed(n, m)
    BY <1>2 DEF ListsOK
  <2>2. /\ <<n>> \in Seq(Nodes) /\ <<m>> \in Seq(Nodes) /\ <<n, m>> \in Seq(Nodes)
    OBVIOUS
  <2>3. /\ Range(<<n>>) \subseteq Nodes /\ Range(<<m>>) \subseteq Nodes
        /\ Range(<<n, m>>) \subseteq Nodes
    BY DEF Range
  <2> QED
    BY <2>1, <2>2, <2>3, Empty, Zenon DEF Placed, Shape
<1> QED
  BY <1>1, <1>2

LEMMA InitInv == Init => IInv
<1> SUFFICES ASSUME Init PROVE IInv
  OBVIOUS
<1>1. OtherTypes
  <2>1. /\ virt_addr \in [Nodes -> Areas \cup {Null}]
        /\ stat \in [Nodes -> [Parts -> 0 .. MaxFrame]]
        /\ frame \in 0 .. MaxFrame /\ got \subseteq Parts
    BY DEF Init, Unread
  <2>2. /\ irq \in [Irqs -> {"idle", "put"}]
        /\ af \in [pc : {"idle", "load", "read"}, addr : Areas \cup {Null}]
    BY DEF Init
  <2> QED
    BY <2>1, <2>2 DEF Init, OtherTypes
<1>2. ListsOK
  BY Empty DEF Init, ListsOK, Shape, Num
<1>3. ActiveIsNewest
  BY Empty DEF Init, ActiveIsNewest
<1> QED
  BY <1>1, <1>2, <1>3 DEF Init, IInv, MemoryOK, IrqWritesAlive

\* A new pair of nodes, and the end of one.
LEMMA StatBufInitInv == ASSUME IInv, NEW a \in Areas, StatBufInit(a) PROVE IInv'
<1>0. /\ OtherTypes /\ ListsOK /\ MemoryOK
      /\ lib = "idle" /\ ~bInit /\ alive' = alive \cup {a} /\ bInit' = TRUE
      /\ virt_addr' = [n \in Nodes |-> a] /\ stat' = [n \in Nodes |-> Unread]
      /\ free' = [n \in Nodes |-> n] /\ busy' = <<>> /\ user' = <<>>
      /\ num' = [free |-> 2, busy |-> 0, user |-> 0]
      /\ UNCHANGED <<pstActStat, frame, got, held, lib, irq, af, touched>>
  BY DEF IInv, StatBufInit
<1>1. free' = <<1, 2>> /\ 1 \in Nodes /\ 2 \in Nodes
  <2>1. /\ free' \in Seq(Nodes) /\ Len(free') = 2 /\ free'[1] = 1 /\ free'[2] = 2
    BY <1>0 DEF Nodes
  <2> QED
    BY <2>1, ListIs DEF Nodes
<1>2. OtherTypes'
  BY <1>0 DEF OtherTypes, Unread
<1>3. ListsOK'
  <2>1. Shape(<<1, 2>>, <<>>, <<>>)'
    BY <1>0, <1>1 DEF ListsOK, Shape
  <2>2. Counts(2, 0, 0)' /\ num' \in Num
    BY <1>0 DEF Counts, Num
  <2> QED
    BY <1>0, <1>1, <2>1, <2>2 DEF ListsOK, Placed
<1>4. ActiveIsNewest'
  BY <1>0, Empty DEF ActiveIsNewest
<1>5. MemoryOK'
  BY <1>0 DEF MemoryOK, IrqWritesAlive
<1> QED
  BY <1>2, <1>3, <1>4, <1>5 DEF IInv

LEMMA StatBufExitInv == IInv /\ StatBufExit => IInv'
<1> SUFFICES ASSUME IInv, StatBufExit PROVE IInv'
  OBVIOUS
<1>0. /\ OtherTypes /\ ListsOK /\ MemoryOK
      /\ virt_addr' = [n \in Nodes |-> Null] /\ bInit' = FALSE
      /\ free' = <<>> /\ busy' = <<>> /\ user' = <<>> /\ held' = {} /\ lib' = "free"
      /\ UNCHANGED <<num, alive, stat, pstActStat, frame, got, irq, af, touched>>
  BY DEF IInv, StatBufExit
<1>1. OtherTypes'
  BY <1>0 DEF OtherTypes
<1>2. ListsOK' /\ ActiveIsNewest' /\ MemoryOK'
  BY <1>0, Empty DEF ListsOK, Shape, ActiveIsNewest, MemoryOK, IrqWritesAlive
<1> QED
  BY <1>1, <1>2 DEF IInv

\* Steps that leave the lists, the statistics and bInit alone.
LEMMA AsideInv ==
    ASSUME IInv, OtherTypes', MemoryOK',
           UNCHANGED <<bInit, free, busy, user, num, held, stat, frame, got, pstActStat>>
    PROVE  IInv'
<1>1. ListsOK /\ ActiveIsNewest
  BY DEF IInv
<1>2. ListsOK' /\ ActiveIsNewest'
  BY <1>1 DEF ListsOK, Shape, Placed, Counts, ActiveIsNewest
<1> QED
  BY <1>2 DEF IInv

LEMMA StatBufExitFreeInv == IInv /\ StatBufExitFree => IInv'
<1> SUFFICES ASSUME IInv, StatBufExitFree PROVE IInv'
  OBVIOUS
<1>1. /\ OtherTypes /\ MemoryOK /\ lib = "free" /\ alive' = {} /\ lib' = "idle"
      /\ UNCHANGED <<bInit, free, busy, user, num, virt_addr, stat, pstActStat, frame, got,
                     held, irq, af, touched>>
  BY DEF IInv, StatBufExitFree, lists
<1>2. OtherTypes' /\ MemoryOK'
  BY <1>1 DEF OtherTypes, MemoryOK, IrqWritesAlive
<1> QED
  BY <1>1, <1>2, AsideInv

\* What is left to show of a step of the library or of an interrupt that moves
\* nodes from one list to another.
LEMMA MoveInv ==
    ASSUME IInv, OtherTypes', ActiveIsNewest', IrqWritesAlive', num' \in Num,
           UNCHANGED <<bInit, virt_addr, alive, lib>>, bInit,
           NEW n \in Nodes, NEW m \in Nodes, n # m, Placed(n, m)'
    PROVE  IInv'
<1>1. ListsOK'
  BY DEF ListsOK
<1>2. MemoryOK'
  BY DEF IInv, MemoryOK
<1> QED
  BY <1>1, <1>2 DEF IInv

\* The library takes the busy node and gives one back.
LEMMA StatBufUserGetInv == IInv /\ StatBufUserGet => IInv'
<1> SUFFICES ASSUME IInv, StatBufUserGet PROVE IInv'
  OBVIOUS
<1>0. /\ OtherTypes /\ ListsOK /\ MemoryOK /\ ActiveIsNewest
      /\ UNCHANGED <<bInit, free, virt_addr, alive, stat, pstActStat, frame, got, lib, irq, af, touched>>
      /\ bInit /\ busy # <<>> /\ busy' = Tail(busy) /\ user' = Append(user, Head(busy))
      /\ held' = held \cup {Head(busy)}
  BY DEF IInv, StatBufUserGet, memory
<1>1. PICK n \in Nodes, m \in Nodes :
          /\ n # m
          /\ \/ Shape(<<n>>, <<m>>, <<>>) /\ Counts(1, 1, 0)
             \/ Shape(<<>>, <<m>>, <<n>>) /\ Counts(0, 1, 1)
  BY <1>0 DEF ListsOK, Placed, Shape
<1>2. Head(busy) = m /\ busy' = <<>>
  BY <1>0, <1>1, Members DEF Shape
<1>3. /\ num'.free = num.free /\ num'.busy = num.busy - 1 /\ num'.user = num.user + 1
      /\ num.busy > 0 => num' \in Num
  <2>1. num' = [num EXCEPT !.busy = @ - 1, !.user = @ + 1]
    BY DEF StatBufUserGet
  <2>2. num \in [free : Nat, busy : Nat, user : Nat]
    BY <1>0 DEF ListsOK, Num
  <2>3. num' = [free |-> num.free, busy |-> num.busy - 1, user |-> num.user + 1]
    BY <2>1, <2>2
  <2> QED
    BY <2>2, <2>3 DEF Num
<1>4. \/ Shape(<<n>>, <<>>, <<m>>)' /\ Counts(1, 0, 1)'
      \/ Shape(<<>>, <<>>, <<n, m>>)' /\ Counts(0, 0, 2)'
  <2>1. CASE Shape(<<n>>, <<m>>, <<>>) /\ Counts(1, 1, 0)
    <3>1. user' = <<m>> /\ held' = Range(<<m>>) /\ free' = <<n>>
      BY <1>0, <1>2, <2>1, Appended, Empty, Members DEF Shape
    <3>2. Counts(1, 0, 1)'
      BY <1>3, <2>1 DEF Counts
    <3> QED
      BY <1>2, <3>1, <3>2 DEF Shape
  <2>2. CASE Shape(<<>>, <<m>>, <<n>>) /\ Counts(0, 1, 1)
    <3>1. user' = <<n, m>> /\ held' = Range(<<n, m>>) /\ free' = <<>>
      BY <1>0, <1>2, <2>2, Appended, Members DEF Shape
    <3>2. Counts(0, 0, 2)'
      BY <1>3, <2>2 DEF Counts
    <3> QED
      BY <1>2, <3>1, <3>2 DEF Shape
  <2> QED
    BY <1>1, <2>1, <2>2
<1>5. OtherTypes' /\ IrqWritesAlive'
  BY <1>0 DEF OtherTypes, MemoryOK, IrqWritesAlive
<1>6. ActiveIsNewest'
  <2>1. Len(busy') <= 1 /\ Range(busy') = {}
    BY <1>2, Empty
  <2> QED
    BY <1>0, <2>1 DEF ActiveIsNewest
<1>7. num' \in Num
  BY <1>1, <1>3 DEF Counts
<1> QED
  BY <1>0, <1>1, <1>4, <1>5, <1>6, <1>7, MoveInv DEF Placed

LEMMA StatBufUserPutInv == ASSUME IInv, NEW k \in Nodes, StatBufUserPut(k) PROVE IInv'
<1>0. /\ OtherTypes /\ ListsOK /\ MemoryOK /\ ActiveIsNewest
      /\ UNCHANGED <<bInit, busy, virt_addr, alive, stat, pstActStat, frame, got, lib, irq, af, touched>>
      /\ bInit /\ free' = Append(free, k) /\ held' = held \ {k}
  BY DEF IInv, StatBufUserPut, memory
<1>1. PICK i \in DOMAIN user : user[i] = k /\ user' = RemoveAt(user, i)
  BY DEF StatBufUserPut
<1>2. PICK n \in Nodes, m \in Nodes :
          /\ n # m
          /\ \/ Shape(<<n>>, <<>>, <<m>>) /\ Counts(1, 0, 1)
             \/ Shape(<<>>, <<>>, <<n, m>>) /\ Counts(0, 0, 2)
             \/ Shape(<<>>, <<m>>, <<n>>) /\ Counts(0, 1, 1)
  <2>1. user # <<>>
    BY <1>1
  <2> QED
    BY <1>0, <2>1 DEF ListsOK, Placed, Shape
<1>3. /\ num'.free = num.free + 1 /\ num'.busy = num.busy /\ num'.user = num.user - 1
      /\ num.user > 0 => num' \in Num
  <2>1. num' = [num EXCEPT !.user = @ - 1, !.free = @ + 1]
    BY DEF StatBufUserPut
  <2>2. num \in [free : Nat, busy : Nat, user : Nat]
    BY <1>0 DEF ListsOK, Num
  <2>3. num' = [free |-> num.free + 1, busy |-> num.busy, user |-> num.user - 1]
    BY <2>1, <2>2
  <2> QED
    BY <2>2, <2>3 DEF Num
<1>4. \/ Shape(<<n, m>>, <<>>, <<>>)' /\ Counts(2, 0, 0)'
      \/ Shape(<<n>>, <<>>, <<m>>)' /\ Counts(1, 0, 1)'
      \/ Shape(<<m>>, <<>>, <<n>>)' /\ Counts(1, 0, 1)'
      \/ Shape(<<n>>, <<m>>, <<>>)' /\ Counts(1, 1, 0)'
  <2>1. CASE Shape(<<n>>, <<>>, <<m>>) /\ Counts(1, 0, 1)
    <3>1. user = <<m>> /\ free = <<n>> /\ busy = <<>> /\ held = {m}
      BY <2>1, Members DEF Shape
    <3>2. k = m /\ user' = <<>>
      BY <1>1, <3>1, Removed, Members
    <3>3. free' = <<n, m>> /\ held' = Range(<<>>) /\ busy' = <<>>
      BY <1>0, <3>1, <3>2, Appended, Empty
    <3>4. Counts(2, 0, 0)'
      BY <1>3, <2>1 DEF Counts
    <3> QED
      BY <3>2, <3>3, <3>4 DEF Shape
  <2>2. CASE Shape(<<>>, <<>>, <<n, m>>) /\ Counts(0, 0, 2)
    <3>1. user = <<n, m>> /\ free = <<>> /\ busy = <<>> /\ held = {n, m}
      BY <2>2, Members DEF Shape
    <3>2. (k = n /\ user' = <<m>>) \/ (k = m /\ user' = <<n>>)
      <4>1. i = 1 \/ i = 2
        BY <1>1, <3>1
      <4>2. CASE i = 1
        BY <1>1, <3>1, <4>2, Removed, Members
      <4>3. CASE i = 2
        BY <1>1, <3>1, <4>3, Removed, Members
      <4> QED
        BY <4>1, <4>2, <4>3
    <3>3. free' = <<k>> /\ held' = {n, m} \ {k} /\ busy' = <<>>
      BY <1>0, <3>1, Appended
    <3>4. Counts(1, 0, 1)'
      BY <1>3, <2>2 DEF Counts
    <3>5. CASE k = n /\ user' = <<m>>
      <4>1. held' = {m} /\ Range(<<m>>) = {m}
        BY <1>2, <3>3, <3>5 DEF Range
      <4> QED
        BY <3>3, <3>4, <3>5, <4>1 DEF Shape
    <3>6. CASE k = m /\ user' = <<n>>
      <4>1. held' = {n} /\ Range(<<n>>) = {n}
        BY <1>2, <3>3, <3>6 DEF Range
      <4> QED
        BY <3>3, <3>4, <3>6, <4>1 DEF Shape
    <3> QED
      BY <3>2, <3>5, <3>6
  <2>3. CASE Shape(<<>>, <<m>>, <<n>>) /\ Counts(0, 1, 1)
    <3>1. user = <<n>> /\ free = <<>> /\ busy = <<m>> /\ held = {n}
      BY <2>3, Members DEF Shape
    <3>2. k = n /\ user' = <<>>
      BY <1>1, <3>1, Removed, Members
    <3>3. free' = <<n>> /\ held' = Range(<<>>) /\ busy' = <<m>>
      BY <1>0, <3>1, <3>2, Appended, Empty
    <3>4. Counts(1, 1, 0)'
      BY <1>3, <2>3 DEF Counts
    <3> QED
      BY <3>2, <3>3, <3>4 DEF Shape
  <2> QED
    BY <1>2, <2>1, <2>2, <2>3
<1>5. OtherTypes' /\ IrqWritesAlive'
  BY <1>0 DEF OtherTypes, MemoryOK, IrqWritesAlive
<1>6. ActiveIsNewest'
  BY <1>0 DEF ActiveIsNewest
<1>7. num' \in Num
  BY <1>2, <1>3 DEF Counts
<1> QED
  BY <1>0, <1>2, <1>4, <1>5, <1>6, <1>7, MoveInv DEF Placed

\* An interrupt takes back what is busy and reads its frame into the first free
\* node.
LEMMA AllIs ==
    ASSUME NEW n \in Nodes, NEW m \in Nodes, Placed(n, m)
    PROVE  \/ free \o busy = <<>> /\ user = <<n, m>> /\ held = Range(<<n, m>>)
           \/ free \o busy = <<n>> /\ user = <<m>> /\ Counts(1, 0, 1) /\ held = Range(<<m>>)
           \/ free \o busy = <<m>> /\ user = <<n>> /\ Counts(0, 1, 1) /\ held = Range(<<n>>)
           \/ /\ free \o busy = <<n, m>> /\ user = <<>> /\ held = Range(<<>>)
              /\ Counts(2, 0, 0) \/ Counts(1, 1, 0)
  BY Joined, Zenon DEF Placed, Shape

LEMMA StatBufBusyPutInv ==
    ASSUME IInv, NEW i \in Irqs, StatBufBusyPut(i), free \o busy # <<>>
    PROVE  /\ IInv'
           /\ \A k \in held : stat'[k] = stat[k]
<1> DEFINE k == Head(free \o busy)
           new == [p \in Parts |-> IF p \in got' THEN frame' ELSE stat[k][p]]
<1>0. /\ OtherTypes /\ ListsOK /\ MemoryOK /\ ActiveIsNewest
      /\ UNCHANGED <<bInit, user, virt_addr, alive, held, lib, af>>
      /\ irq' = [irq EXCEPT ![i] = "idle"] /\ irq[i] = "put"
      /\ frame < MaxFrame /\ frame' = frame + 1 /\ got' \subseteq Parts
      /\ stat' = [stat EXCEPT ![k] = new]
      /\ pstActStat' = k /\ free' = Tail(free \o busy) /\ busy' = <<k>>
      /\ touched' = IF virt_addr[k] \in alive \cup {Null} THEN touched ELSE touched \cup {"irq"}
  BY DEF IInv, StatBufBusyPut, NoFreeNode, StatisticsRead, memory
<1>1. bInit
  <2>1. ~bInit => free \o busy = <<>>
    BY <1>0, Joined DEF ListsOK, Shape, Nodes
  <2> QED
    BY <2>1
<1>2. PICK n \in Nodes, m \in Nodes : n # m /\ Placed(n, m)
  BY <1>0, <1>1 DEF ListsOK
<1>3. /\ num'.free = num.free + num.busy - 1 /\ num'.busy = 1 /\ num'.user = num.user
      /\ num.free + num.busy > 0 => num' \in Num
  <2>1. num' = [num EXCEPT !.free = @ + num.busy - 1, !.busy = 1]
    BY DEF StatBufBusyPut, NoFreeNode
  <2>2. num \in [free : Nat, busy : Nat, user : Nat]
    BY <1>0 DEF ListsOK, Num
  <2>3. num' = [free |-> num.free + num.busy - 1, busy |-> 1, user |-> num.user]
    BY <2>1, <2>2
  <2> QED
    BY <2>2, <2>3 DEF Num
<1> HIDE DEF k
<1>4. /\ k \in Nodes /\ k \notin held /\ num' \in Num
      /\ \/ Placed(m, n)' \/ Placed(n, m)'
  <2>1. CASE free \o busy = <<n>> /\ user = <<m>> /\ Counts(1, 0, 1) /\ held = Range(<<m>>)
    <3>1. k = n /\ free' = <<>> /\ held = {m}
      BY <1>0, <2>1, Members DEF k
    <3>2. Counts(0, 1, 1)' /\ num' \in Num
      BY <1>3, <2>1 DEF Counts
    <3>3. Shape(<<>>, <<n>>, <<m>>)'
      BY <1>0, <2>1, <3>1 DEF Shape
    <3> QED
      BY <1>2, <3>1, <3>2, <3>3 DEF Placed
  <2>2. CASE free \o busy = <<m>> /\ user = <<n>> /\ Counts(0, 1, 1) /\ held = Range(<<n>>)
    <3>1. k = m /\ free' = <<>> /\ held = {n}
      BY <1>0, <2>2, Members DEF k
    <3>2. Counts(0, 1, 1)' /\ num' \in Num
      BY <1>3, <2>2 DEF Counts
    <3>3. Shape(<<>>, <<m>>, <<n>>)'
      BY <1>0, <2>2, <3>1 DEF Shape
    <3> QED
      BY <1>2, <3>1, <3>2, <3>3 DEF Placed
  <2>3. CASE /\ free \o busy = <<n, m>> /\ user = <<>> /\ held = Range(<<>>)
             /\ Counts(2, 0, 0) \/ Counts(1, 1, 0)
    <3>1. k = n /\ free' = <<m>> /\ held = {}
      BY <1>0, <2>3, Members, Empty DEF k
    <3>2. Counts(1, 1, 0)' /\ num' \in Num
      BY <1>3, <2>3 DEF Counts
    <3>3. Shape(<<m>>, <<n>>, <<>>)'
      BY <1>0, <2>3, <3>1 DEF Shape
    <3> QED
      BY <1>2, <3>1, <3>2, <3>3 DEF Placed
  <2> QED
    BY <1>2, <2>1, <2>2, <2>3, AllIs
<1>5. /\ stat'[k] = new /\ \A p \in got' : new[p] = frame'
      /\ \A l \in Nodes : l # k => stat'[l] = stat[l]
  BY <1>0, <1>4 DEF OtherTypes
<1>6. OtherTypes'
  <2>1. frame' \in 0 .. MaxFrame /\ stat' \in [Nodes -> [Parts -> 0 .. MaxFrame]]
    <3>1. frame + 1 \in 0 .. MaxFrame /\ stat \in [Nodes -> [Parts -> 0 .. MaxFrame]]
      BY <1>0 DEF OtherTypes
    <3>2. new \in [Parts -> 0 .. MaxFrame]
      BY <1>0, <1>4, <3>1
    <3> HIDE DEF new
    <3> QED
      BY <1>0, <3>1, <3>2
  <2>2. irq' \in [Irqs -> {"idle", "put"}]
    BY <1>0 DEF OtherTypes
  <2>3. touched' \subseteq {"irq", "freed"}
    BY <1>0 DEF OtherTypes
  <2>4. pstActStat' \in Nodes /\ pstActStat' # None
    BY <1>0, <1>4 DEF Nodes, None
  <2> QED
    BY <1>0, <2>1, <2>2, <2>3, <2>4 DEF OtherTypes
<1>7. ActiveIsNewest'
  <2>1. Len(busy') = 1 /\ Range(busy') = {k}
    BY <1>0, <1>4, Members
  <2> HIDE DEF new
  <2> QED
    BY <1>0, <1>5, <2>1 DEF ActiveIsNewest
<1>8. IrqWritesAlive'
  BY <1>0, <1>1, <1>4 DEF MemoryOK, IrqWritesAlive
<1>9. \A l \in held : stat'[l] = stat[l]
  BY <1>0, <1>4, <1>5, ListTypes
<1>10. IInv'
  <2>1. CASE Placed(n, m)'
    BY <1>0, <1>1, <1>2, <1>4, <1>6, <1>7, <1>8, <2>1, MoveInv
  <2>2. CASE Placed(m, n)'
    BY <1>0, <1>1, <1>2, <1>4, <1>6, <1>7, <1>8, <2>2, MoveInv
  <2> QED
    BY <1>4, <2>1, <2>2
<1> QED
  BY <1>9, <1>10

LEMMA IrqInv ==
    ASSUME IInv, NEW i \in Irqs, StatBufBusyPutCheck(i) \/ StatBufBusyPut(i)
    PROVE  IInv'
<1>0. OtherTypes /\ MemoryOK
  BY DEF IInv
<1>1. CASE StatBufBusyPutCheck(i)
  <2>1. OtherTypes' /\ MemoryOK'
    BY <1>0, <1>1 DEF StatBufBusyPutCheck, OtherTypes, MemoryOK, IrqWritesAlive, lists, memory
  <2> QED
    BY <1>1, <2>1, AsideInv DEF StatBufBusyPutCheck, lists
<1>2. CASE StatBufBusyPut(i) /\ free \o busy # <<>>
  BY <1>2, StatBufBusyPutInv
<1>3. CASE StatBufBusyPut(i) /\ free \o busy = <<>>
  <2>1. /\ UNCHANGED <<bInit, free, busy, user, num, virt_addr, alive, stat, pstActStat, frame, got,
                       held, lib, af, touched>>
        /\ irq' = [irq EXCEPT ![i] = "idle"]
    BY <1>3 DEF StatBufBusyPut, NoFreeNode, lists, memory
  <2>2. OtherTypes' /\ MemoryOK'
    BY <1>0, <2>1 DEF OtherTypes, MemoryOK, IrqWritesAlive
  <2> QED
    BY <2>1, <2>2, AsideInv
<1> QED
  BY <1>1, <1>2, <1>3

\* A focus task reads, whatever it finds.
LEMMA FocusInv == IInv /\ (StaKernelGetCheck \/ StaKernelGetLoad \/ StaKernelGetCopy) => IInv'
<1> SUFFICES ASSUME IInv, StaKernelGetCheck \/ StaKernelGetLoad \/ StaKernelGetCopy
             PROVE  IInv'
  OBVIOUS
<1>0. /\ OtherTypes /\ MemoryOK
      /\ UNCHANGED <<bInit, free, busy, user, num, virt_addr, alive, stat, pstActStat, frame, got,
                     held, lib, irq>>
      /\ touched' \in {touched, touched \cup {"freed"}}
  BY DEF IInv, StaKernelGetCheck, StaKernelGetLoad, StaKernelGetCopy, lists, memory
<1>1. af' \in [pc : {"idle", "load", "read"}, addr : Areas \cup {Null}]
  <2>1. CASE StaKernelGetCheck
    BY <1>0, <2>1 DEF StaKernelGetCheck, OtherTypes
  <2>2. CASE StaKernelGetLoad
    <3>1. pstActStat \in Nodes /\ virt_addr[pstActStat] \in Areas \cup {Null}
      BY <1>0, <2>2 DEF StaKernelGetLoad, OtherTypes
    <3> QED
      BY <2>2, <3>1 DEF StaKernelGetLoad
  <2>3. CASE StaKernelGetCopy
    BY <2>3 DEF StaKernelGetCopy
  <2> QED
    BY <2>1, <2>2, <2>3
<1>2. af'.pc = "load" => pstActStat # None
  BY DEF StaKernelGetCheck, StaKernelGetLoad, StaKernelGetCopy, IInv, OtherTypes
<1>3. OtherTypes' /\ MemoryOK'
  BY <1>0, <1>1, <1>2 DEF OtherTypes, MemoryOK, IrqWritesAlive
<1> QED
  BY <1>0, <1>3, AsideInv

LEMMA NextInv == IInv /\ [Next]_vars => IInv'
<1> SUFFICES ASSUME IInv, [Next]_vars PROVE IInv'
  OBVIOUS
<1>1. CASE \E a \in Areas : StatBufInit(a)
  BY <1>1, StatBufInitInv
<1>2. CASE StatBufExit \/ StatBufExitFree
  BY <1>2, StatBufExitInv, StatBufExitFreeInv
<1>3. CASE StatBufUserGet
  BY <1>3, StatBufUserGetInv
<1>4. CASE \E n \in Nodes : StatBufUserPut(n)
  BY <1>4, StatBufUserPutInv
<1>5. CASE \E i \in Irqs : StatBufBusyPutCheck(i) \/ StatBufBusyPut(i)
  BY <1>5, IrqInv
<1>6. CASE StaKernelGetCheck \/ StaKernelGetLoad \/ StaKernelGetCopy
  BY <1>6, FocusInv
<1>7. CASE UNCHANGED vars
  <2>1. OtherTypes' /\ MemoryOK'
    BY <1>7 DEF vars, memory, IInv, OtherTypes, MemoryOK, IrqWritesAlive
  <2> QED
    BY <1>7, <2>1, AsideInv DEF vars, lists
<1> QED
  BY <1>1, <1>2, <1>3, <1>4, <1>5, <1>6, <1>7 DEF Next

(* The lists, the memory and the interrupts of a pipe stay within the         *)
(* invariant the theorems below rest on (isp.c, under g_stIspLock).           *)
THEOREM Inductive == Spec => []IInv
  BY InitInv, NextInv, PTL DEF Spec

(* Every list holds nodes, every count is a number and every address one of   *)
(* an area, also while the exit and the interrupts overlap (TypeOK).          *)
THEOREM TypeCorrect == Spec => []TypeOK
<1>1. IInv => TypeOK
  <2> SUFFICES ASSUME IInv PROVE TypeOK
    OBVIOUS
  <2>1. OtherTypes /\ ListsOK /\ num \in Num
    BY DEF IInv, ListsOK
  <2>2. free \in Seq(Nodes) /\ busy \in Seq(Nodes) /\ user \in Seq(Nodes) /\ held \subseteq Nodes
    BY <2>1, ListTypes
  <2> QED
    BY <2>1, <2>2, Zenon DEF TypeOK, OtherTypes
<1> QED
  BY <1>1, Inductive, PTL

\* the lists one after the other
LEMMA PlacedOnce ==
    ASSUME NEW n \in Nodes, NEW m \in Nodes, n # m, Placed(n, m), num \in Num
    PROVE  /\ free \o busy \o user = <<n, m>> \/ free \o busy \o user = <<m, n>>
           /\ num = [free |-> Len(free), busy |-> Len(busy), user |-> Len(user)]
           /\ Cardinality(held) <= 1 => free \o busy # <<>>
<1>1. free \o busy \o user = <<n, m>> \/ free \o busy \o user = <<m, n>>
  BY Joined, Zenon DEF Placed, Shape
<1>2. Counts(Len(free), Len(busy), Len(user))
  <2>1. /\ Len(<<>>) = 0 /\ Len(<<n>>) = 1 /\ Len(<<m>>) = 1 /\ Len(<<n, m>>) = 2
    OBVIOUS
  <2> QED
    BY <2>1, Zenon DEF Placed, Shape
<1>3. num = [free |-> Len(free), busy |-> Len(busy), user |-> Len(user)]
  BY <1>2 DEF Counts, Num
<1>4. free \o busy = <<>> => held = {n, m}
  <2>1. <<n>> # <<>> /\ <<m>> # <<>> /\ <<n, m>> # <<>> /\ Range(<<n, m>>) = {n, m}
    BY Members
  <2> QED
    BY <2>1, AllIs, Zenon
<1>5. Cardinality({n, m}) = 2
  <2>1. IsFiniteSet({m}) /\ Cardinality({m}) = 1
    BY FS_Singleton
  <2>2. {n, m} = {m} \cup {n} /\ n \notin {m}
    OBVIOUS
  <2> QED
    BY <2>1, <2>2, FS_AddElement
<1>6. Cardinality(held) <= 1 => free \o busy # <<>>
  <2> SUFFICES ASSUME free \o busy = <<>> PROVE ~(Cardinality(held) <= 1)
    OBVIOUS
  <2>1. Cardinality(held) = 2
    BY <1>4, <1>5, Zenon
  <2> QED
    BY <2>1
<1> QED
  BY <1>1, <1>3, <1>6

(* No node is ever on two lists or on none, and u32FreeNum, u32BusyNum and    *)
(* u32UserNum are the lengths of the lists; with one node in the library's    *)
(* hands the next frame has a node to go to.                                 *)
THEOREM NodesStayOnce == Spec => []NodesOnce
<1>1. IInv => NodesOnce
  <2> SUFFICES ASSUME IInv, bInit PROVE NodesOnce
    BY DEF NodesOnce
  <2>1. PICK n \in Nodes, m \in Nodes : n # m /\ Placed(n, m)
    BY DEF IInv, ListsOK
  <2>2. num \in Num
    BY DEF IInv, ListsOK
  <2>3. \A k, l \in Nodes : k # l => IsInjective(<<k, l>>) /\ Range(<<k, l>>) = Nodes
    BY DEF IsInjective, Range, Nodes
  <2>4. IsInjective(free \o busy \o user) /\ Range(free \o busy \o user) = Nodes
    <3>1. \/ free \o busy \o user = <<n, m>>
          \/ free \o busy \o user = <<m, n>>
      BY <2>1, <2>2, PlacedOnce, Zenon
    <3> QED
      BY <2>1, <2>3, <3>1, Zenon
  <2> QED
    BY <2>1, <2>2, <2>4, PlacedOnce, Zenon DEF NodesOnce
<1> QED
  BY <1>1, Inductive, PTL

(* What the library gets, and what a focus task is given, is the node of the    *)
(* last frame, with every part that could be read of it (isp.c:1275).          *)
THEOREM ActiveStaysNewest == Spec => []ActiveIsNewest
<1>1. IInv => ActiveIsNewest
  BY DEF IInv
<1> QED
  BY <1>1, Inductive, PTL

(* An interrupt that was let in before the exit took the lock finds no list   *)
(* to take a node from: it writes to memory that is there or not at all.      *)
THEOREM InterruptsWriteAlive == Spec => []IrqWritesAlive
<1>1. IInv => IrqWritesAlive
  BY DEF IInv, MemoryOK
<1> QED
  BY <1>1, Inductive, PTL

(* The statistics of a node do not change while the library has it.           *)
THEOREM HeldStayUntouched == Spec => HeldUntouched
<1>1. IInv /\ [Next]_vars => [\A n \in held \cap held' : stat'[n] = stat[n]]_vars
  <2> SUFFICES ASSUME IInv, Next, NEW n \in held \cap held' PROVE stat'[n] = stat[n]
    OBVIOUS
  <2>1. CASE \E a \in Areas : StatBufInit(a)
    <3>1. held = {}
      BY <2>1, Empty DEF StatBufInit, IInv, ListsOK, Shape
    <3> QED
      BY <3>1
  <2>2. CASE \E i \in Irqs : StatBufBusyPut(i)
    <3>1. PICK i \in Irqs : StatBufBusyPut(i)
      BY <2>2
    <3>2. CASE free \o busy # <<>>
      BY <3>1, <3>2, StatBufBusyPutInv
    <3>3. CASE free \o busy = <<>>
      BY <3>1, <3>3 DEF StatBufBusyPut, NoFreeNode
    <3> QED
      BY <3>2, <3>3
  <2>3. CASE UNCHANGED stat
    BY <2>3
  <2> QED
    BY <2>1, <2>2, <2>3 DEF Next, StatBufExit, StatBufExitFree, StatBufUserGet, StatBufUserPut,
        StatBufBusyPutCheck, StaKernelGetCheck, StaKernelGetLoad, StaKernelGetCopy
<1> QED
  BY <1>1, Inductive, PTL DEF Spec, HeldUntouched
=============================================================================
