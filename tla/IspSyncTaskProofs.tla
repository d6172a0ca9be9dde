-------------------------- MODULE IspSyncTaskProofs --------------------------
(***************************************************************************)
(* Proofs about IspSyncTask, for any finite set of tasks with distinct ids,  *)
(* any methods and any limit of the count.                                   *)
(***************************************************************************)
EXTENDS IspSyncTask, SequenceTheorems, FiniteSetTheorems, TLAPS

(***************************************************************************)
(* Lists with a task less, with a task more, and how long they can be.       *)
(***************************************************************************)
LEMMA RemovedIs ==
    ASSUME NEW S, NEW s \in Seq(S), NEW i \in 1 .. Len(s)
    PROVE  /\ RemoveAt(s, i) \in Seq(S)
           /\ Len(RemoveAt(s, i)) = Len(s) - 1
           /\ \A j \in 1 .. Len(s) - 1 :
                 RemoveAt(s, i)[j] = IF j < i THEN s[j] ELSE s[j + 1]
<1> DEFINE a == SubSeq(s, 1, i - 1)
           b == SubSeq(s, i + 1, Len(s))
<1>1. a \in Seq(S) /\ Len(a) = i - 1 /\ \A j \in 1 .. i - 1 : a[j] = s[j]
  OBVIOUS
<1>2. b \in Seq(S) /\ Len(b) = Len(s) - i /\ \A j \in 1 .. Len(s) - i : b[j] = s[i + j]
  OBVIOUS
<1> HIDE DEF a, b
<1>3. a \o b \in Seq(S) /\ Len(a \o b) = Len(a) + Len(b)
  BY <1>1, <1>2, ConcatProperties
<1>4. \A j \in 1 .. Len(a) + Len(b) : (a \o b)[j] = IF j <= Len(a) THEN a[j] ELSE b[j - Len(a)]
  BY <1>1, <1>2, ConcatProperties
<1>5. Len(a) + Len(b) = Len(s) - 1
  BY <1>1, <1>2
<1>6. ASSUME NEW j \in 1 .. Len(s) - 1
      PROVE  (a \o b)[j] = IF j < i THEN s[j] ELSE s[j + 1]
  <2>1. CASE j < i
    BY <1>1, <1>4, <1>5, <2>1
  <2>2. CASE ~(j < i)
    <3>1. (a \o b)[j] = b[j - (i - 1)] /\ j - (i - 1) \in 1 .. Len(s) - i
      BY <1>1, <1>4, <1>5, <2>2
    <3>2. i + (j - (i - 1)) = j + 1
      OBVIOUS
    <3> QED
      BY <1>2, <2>2, <3>1, <3>2
  <2> QED
    BY <2>1, <2>2
<1> QED
  BY <1>3, <1>5, <1>6 DEF RemoveAt, a, b

LEMMA RangeIs == ASSUME NEW S, NEW s \in Seq(S)
                 PROVE  /\ DOMAIN s = 1 .. Len(s) /\ Len(s) \in Nat
                        /\ \A t : t \in Range(s) <=> \E i \in 1 .. Len(s) : s[i] = t
                        /\ Range(s) \subseteq S
                        /\ Range(s) = {} => s = <<>>
  BY DEF Range

LEMMA RemovedOnce ==
    ASSUME NEW S, NEW s \in Seq(S), IsInjective(s), NEW i \in 1 .. Len(s)
    PROVE  IsInjective(RemoveAt(s, i)) /\ Range(RemoveAt(s, i)) = Range(s) \ {s[i]}
<1> DEFINE r == RemoveAt(s, i)
<1>1. /\ r \in Seq(S) /\ Len(r) = Len(s) - 1 /\ Len(s) \in Nat
      /\ \A j \in 1 .. Len(r) : r[j] = IF j < i THEN s[j] ELSE s[j + 1]
  BY RemovedIs
<1> HIDE DEF r
<1>2. \A a, b \in 1 .. Len(s) : s[a] = s[b] => a = b
  BY DEF IsInjective
<1>3. \A a, b \in 1 .. Len(r) : r[a] = r[b] => a = b
  BY <1>1, <1>2
<1>4. ASSUME NEW t PROVE t \in Range(r) <=> t \in Range(s) \ {s[i]}
  <2>1. ASSUME NEW j \in 1 .. Len(r), r[j] = t
        PROVE  t \in Range(s) \ {s[i]}
    BY <1>1, <1>2, <2>1, RangeIs
  <2>2. ASSUME NEW j \in 1 .. Len(s), s[j] = t, j # i
        PROVE  t \in Range(r)
    <3>1. CASE j < i
      <4>1. j \in 1 .. Len(r) /\ r[j] = t
        BY <1>1, <2>2, <3>1
      <4> QED
        BY <1>1, <4>1, RangeIs
    <3>2. CASE j > i
      <4>1. j - 1 \in 1 .. Len(r) /\ r[j - 1] = t
        BY <1>1, <2>2, <3>2
      <4> QED
        BY <1>1, <4>1, RangeIs
    <3> QED
      BY <2>2, <3>1, <3>2
  <2> QED
    BY <1>1, <2>1, <2>2, RangeIs
<1>5. IsInjective(r)
  BY <1>1, <1>3, RangeIs DEF IsInjective
<1> QED
  BY <1>4, <1>5 DEF r

LEMMA AppendedOnce ==
    ASSUME NEW S, NEW s \in Seq(S), IsInjective(s), NEW t \in S, t \notin Range(s)
    PROVE  /\ Append(s, t) \in Seq(S) /\ Len(Append(s, t)) = Len(s) + 1
           /\ IsInjective(Append(s, t)) /\ Range(Append(s, t)) = Range(s) \cup {t}
<1> DEFINE r == Append(s, t)
<1>1. /\ r \in Seq(S) /\ Len(r) = Len(s) + 1 /\ Len(s) \in Nat
      /\ \A j \in 1 .. Len(s) : r[j] = s[j]
      /\ r[Len(s) + 1] = t
  OBVIOUS
<1> HIDE DEF r
<1>2. \A a, b \in 1 .. Len(s) : s[a] = s[b] => a = b
  BY DEF IsInjective
<1>3. \A a \in 1 .. Len(s) : s[a] # t
  BY RangeIs
<1>4. \A a, b \in 1 .. Len(r) : r[a] = r[b] => a = b
  BY <1>1, <1>2, <1>3
<1>5. ASSUME NEW u PROVE u \in Range(r) <=> u \in Range(s) \cup {t}
  BY <1>1, RangeIs
<1>6. IsInjective(r)
  BY <1>1, <1>4, RangeIs DEF IsInjective
<1> QED
  BY <1>1, <1>5, <1>6 DEF r

LEMMA NotLonger ==
    ASSUME NEW S, NEW s \in Seq(S), IsInjective(s), NEW T, IsFiniteSet(T), Range(s) \subseteq T
    PROVE  Len(s) <= Cardinality(T)
<1>1. s \in [1 .. Len(s) -> T]
  BY RangeIs
<1>2. s \in Injection(1 .. Len(s), T)
  BY <1>1, RangeIs DEF IsInjective, Injection
<1>3. Cardinality(1 .. Len(s)) <= Cardinality(T)
  BY <1>2, FS_Injection
<1>4. Cardinality(1 .. Len(s)) = Len(s)
  <2>1. Len(s) \in Nat
    BY RangeIs
  <2>2. Cardinality(1 .. Len(s)) = IF 1 > Len(s) THEN 0 ELSE Len(s) - 1 + 1
    BY <2>1, FS_Interval
  <2> QED
    BY <2>1, <2>2
<1> QED
  BY <1>3, <1>4
-----------------------------------------------------------------------------
(***************************************************************************)
(* The inductive invariant.                                                 *)
(***************************************************************************)
Of(k) == {t \in Tasks : MethodOf[t] = k}
In(k) == {t \in Tasks : MethodOf[t] = k /\ client[t] = "in"}

Listed ==
    \A k \in Methods : /\ IsInjective(list[k]) /\ Range(list[k]) = In(k)
                       /\ Cardinality(Of(k)) <= MaxNum => num[k] = Len(list[k])

\* while the work item has the semaphore nobody is unregistered
AtOK == /\ ~sem => at = <<>>
        /\ \A t \in Range(at) : client[t] = "in"
        /\ ~late

IInv == TypeOK /\ Listed /\ AtOK

LEMMA InitInv == Init => IInv
<1> SUFFICES ASSUME Init PROVE IInv
  OBVIOUS
<1>1. TypeOK
  <2>1. /\ list \in [Methods -> Seq(Tasks)] /\ num \in [Methods -> 0 .. MaxNum]
        /\ client \in [Tasks -> {"out", "new", "in"}]
    BY MaxNumAssumption DEF Init
  <2>2. /\ sem \in BOOLEAN /\ queued \in BOOLEAN /\ late \in BOOLEAN
        /\ due \subseteq Tasks
        /\ pos \in Tasks \cup {None} /\ next \in Tasks \cup {None}
    BY DEF Init
  <2>3. at \in Seq(Tasks)
    BY DEF Init
  <2> QED
    BY <2>1, <2>2, <2>3 DEF TypeOK
<1>2. Range(<<>>) = {} /\ IsInjective(<<>>) /\ Len(<<>>) = 0
  BY DEF Range, IsInjective
<1>3. Listed
  BY <1>2 DEF Init, Listed, In
<1>4. AtOK
  BY <1>2 DEF Init, AtOK
<1> QED
  BY <1>1, <1>3, <1>4 DEF IInv

\* Steps that leave the lists and who is on them alone.
LEMMA AsideInv ==
    ASSUME IInv, TypeOK', AtOK', UNCHANGED <<list, num>>,
           \A t \in Tasks : client'[t] = "in" <=> client[t] = "in"
    PROVE  IInv'
<1>1. \A k \in Methods : In(k)' = In(k)
  BY DEF In
<1>2. Listed'
  BY <1>1 DEF IInv, Listed
<1> QED
  BY <1>2 DEF IInv

LEMMA ClientInv ==
    ASSUME IInv, NEW t \in Tasks, RegisterSearch(t) \/ RegisterSignal(t)
    PROVE  IInv'
<1>1. /\ TypeOK /\ AtOK /\ UNCHANGED <<list, num, sem, queued, at, pos, next, due, late>>
      /\ client[t] # "in"
      /\ client' = [client EXCEPT ![t] = "new"] \/ client' = [client EXCEPT ![t] = "out"]
  BY DEF IInv, RegisterSearch, RegisterSignal, walk
<1>2. /\ client \in [Tasks -> {"out", "new", "in"}]
      /\ client' \in [Tasks -> {"out", "new", "in"}]
      /\ client'[t] # "in" /\ \A u \in Tasks : u # t => client'[u] = client[u]
  BY <1>1 DEF TypeOK
<1>3. TypeOK'
  BY <1>1, <1>2 DEF TypeOK
<1>4. Range(at) \subseteq Tasks
  BY <1>1, RangeIs DEF TypeOK
<1>5. AtOK'
  BY <1>1, <1>2, <1>4 DEF AtOK
<1> QED
  BY <1>1, <1>2, <1>3, <1>5, AsideInv

LEMMA RegisterAddInv == ASSUME IInv, NEW t \in Tasks, RegisterAdd(t) PROVE IInv'
<1> DEFINE k == MethodOf[t]
<1>0. /\ TypeOK /\ Listed /\ AtOK /\ UNCHANGED <<sem, queued, at, pos, next, due, late>>
      /\ client[t] = "new" /\ ~sem
      /\ list' = [list EXCEPT ![k] = Append(@, t)]
      /\ num' = [num EXCEPT ![k] = IF @ < MaxNum THEN @ + 1 ELSE @]
      /\ client' = [client EXCEPT ![t] = "in"]
  BY DEF IInv, RegisterAdd, walk
<1>1. /\ k \in Methods /\ list[k] \in Seq(Tasks) /\ num[k] \in 0 .. MaxNum
      /\ list \in [Methods -> Seq(Tasks)] /\ num \in [Methods -> 0 .. MaxNum]
      /\ client \in [Tasks -> {"out", "new", "in"}]
  BY <1>0, TasksAssumption DEF TypeOK
<1> HIDE DEF k
<1>2. t \notin Range(list[k]) /\ IsInjective(list[k]) /\ Range(list[k]) = In(k)
  BY <1>0, <1>1 DEF Listed, In
<1>3. /\ Append(list[k], t) \in Seq(Tasks) /\ Len(Append(list[k], t)) = Len(list[k]) + 1
      /\ IsInjective(Append(list[k], t)) /\ Range(Append(list[k], t)) = Range(list[k]) \cup {t}
  BY <1>1, <1>2, AppendedOnce
<1>4. /\ list'[k] = Append(list[k], t) /\ \A l \in Methods : l # k => list'[l] = list[l]
      /\ num'[k] = (IF num[k] < MaxNum THEN num[k] + 1 ELSE num[k])
      /\ \A l \in Methods : l # k => num'[l] = num[l]
      /\ client'[t] = "in" /\ \A u \in Tasks : u # t => client'[u] = client[u]
  BY <1>0, <1>1
<1>5. TypeOK'
  <2>1. list' \in [Methods -> Seq(Tasks)]
    BY <1>0, <1>1, <1>3
  <2>2. num' \in [Methods -> 0 .. MaxNum]
    BY <1>0, <1>1, MaxNumAssumption
  <2>3. client' \in [Tasks -> {"out", "new", "in"}]
    BY <1>0, <1>1
  <2> QED
    BY <1>0, <2>1, <2>2, <2>3 DEF TypeOK
<1>6. In(k)' = In(k) \cup {t} /\ \A l \in Methods : l # k => In(l)' = In(l)
  <2>1. \A l \in Methods : In(l)' = {u \in Tasks : MethodOf[u] = l /\ client'[u] = "in"}
    BY DEF In
  <2> QED
    BY <1>0, <1>1, <1>4, <2>1 DEF In, k
<1>7. ASSUME Cardinality(Of(k)) <= MaxNum
      PROVE  num'[k] = Len(list'[k])
  <2>1. IsFiniteSet(Of(k))
    BY TasksAssumption, FS_Subset DEF Of
  <2>2. Range(Append(list[k], t)) \subseteq Of(k)
    BY <1>2, <1>3 DEF In, Of, k
  <2>3. Len(Append(list[k], t)) <= Cardinality(Of(k))
    BY <1>3, <2>1, <2>2, NotLonger
  <2>4. Cardinality(Of(k)) \in Nat /\ Len(list[k]) \in Nat
    BY <1>1, <2>1, FS_CardinalityType
  <2>5. num[k] = Len(list[k])
    BY <1>0, <1>1, <1>7 DEF Listed
  <2> QED
    BY <1>3, <1>4, <1>7, <2>3, <2>4, <2>5, MaxNumAssumption
<1>8. Listed'
  <2> SUFFICES ASSUME NEW l \in Methods
               PROVE  /\ IsInjective(list'[l]) /\ Range(list'[l]) = In(l)'
                      /\ Cardinality(Of(l)) <= MaxNum => num'[l] = Len(list'[l])
    BY DEF Listed, Of
  <2>1. CASE l = k
    BY <1>2, <1>3, <1>4, <1>6, <1>7, <2>1
  <2>2. CASE l # k
    BY <1>0, <1>4, <1>6, <2>2 DEF Listed
  <2> QED
    BY <2>1, <2>2
<1>9. AtOK'
  <2>1. Range(<<>>) = {}
    BY DEF Range
  <2> QED
    BY <1>0, <2>1 DEF AtOK
<1> QED
  BY <1>5, <1>8, <1>9 DEF IInv

\* with distinct ids the first task of an id is the only one
LEMMA UnregisterInv == ASSUME IInv, NEW t \in Tasks, Unregister(t) PROVE IInv'
<1> DEFINE k == MethodOf[t]
<1>0. /\ TypeOK /\ Listed /\ AtOK /\ UNCHANGED <<sem, queued, at, pos, next, late>>
      /\ client[t] = "in" /\ ~sem
      /\ num' = [num EXCEPT ![k] = IF @ > 0 THEN @ - 1 ELSE @]
      /\ client' = [client EXCEPT ![t] = "out"]
  BY DEF IInv, Unregister, walk
<1>1. /\ k \in Methods /\ list[k] \in Seq(Tasks) /\ num[k] \in 0 .. MaxNum
      /\ list \in [Methods -> Seq(Tasks)] /\ num \in [Methods -> 0 .. MaxNum]
      /\ client \in [Tasks -> {"out", "new", "in"}] /\ due \subseteq Tasks
  BY <1>0, TasksAssumption DEF TypeOK
<1>2. PICK i \in SearchNode(list[k], IdOf[t]) :
          /\ list' = [list EXCEPT ![k] = RemoveAt(@, i)]
          /\ due' = due \ {list[k][i]}
  BY DEF Unregister
<1> HIDE DEF k
<1>3. i \in 1 .. Len(list[k]) /\ IdOf[list[k][i]] = IdOf[t] /\ list[k][i] \in Tasks
  BY <1>1, <1>2, RangeIs DEF SearchNode
<1>4. list[k][i] = t
  BY <1>3, TasksAssumption DEF IsInjective
<1>5. IsInjective(list[k]) /\ Range(list[k]) = In(k)
  BY <1>0, <1>1 DEF Listed
<1>6. /\ RemoveAt(list[k], i) \in Seq(Tasks) /\ Len(RemoveAt(list[k], i)) = Len(list[k]) - 1
      /\ IsInjective(RemoveAt(list[k], i)) /\ Range(RemoveAt(list[k], i)) = In(k) \ {t}
  BY <1>1, <1>3, <1>4, <1>5, RemovedIs, RemovedOnce
<1>7. /\ list'[k] = RemoveAt(list[k], i) /\ \A l \in Methods : l # k => list'[l] = list[l]
      /\ num'[k] = (IF num[k] > 0 THEN num[k] - 1 ELSE num[k])
      /\ \A l \in Methods : l # k => num'[l] = num[l]
      /\ client'[t] = "out" /\ \A u \in Tasks : u # t => client'[u] = client[u]
  BY <1>0, <1>1, <1>2
<1>8. TypeOK'
  <2>1. list' \in [Methods -> Seq(Tasks)]
    BY <1>1, <1>2, <1>6
  <2>2. num' \in [Methods -> 0 .. MaxNum]
    BY <1>0, <1>1, MaxNumAssumption
  <2>3. client' \in [Tasks -> {"out", "new", "in"}] /\ due' \subseteq Tasks
    BY <1>0, <1>1, <1>2
  <2> QED
    BY <1>0, <2>1, <2>2, <2>3 DEF TypeOK
<1>9. In(k)' = In(k) \ {t} /\ \A l \in Methods : l # k => In(l)' = In(l)
  <2>1. \A l \in Methods : In(l)' = {u \in Tasks : MethodOf[u] = l /\ client'[u] = "in"}
    BY DEF In
  <2> QED
    BY <1>0, <1>1, <1>7, <2>1 DEF In, k
<1>10. Listed'
  <2> SUFFICES ASSUME NEW l \in Methods
               PROVE  /\ IsInjective(list'[l]) /\ Range(list'[l]) = In(l)'
                      /\ Cardinality(Of(l)) <= MaxNum => num'[l] = Len(list'[l])
    BY DEF Listed, Of
  <2>1. CASE l = k
    <3>1. Cardinality(Of(k)) <= MaxNum => num[k] = Len(list[k])
      BY <1>0, <1>1 DEF Listed
    <3>2. Cardinality(Of(k)) <= MaxNum => num'[k] = Len(list'[k])
      BY <1>1, <1>3, <1>6, <1>7, <3>1
    <3> QED
      BY <1>6, <1>7, <1>9, <2>1, <3>2
  <2>2. CASE l # k
    BY <1>0, <1>7, <1>9, <2>2 DEF Listed
  <2> QED
    BY <2>1, <2>2
<1>11. AtOK'
  <2>1. Range(<<>>) = {}
    BY DEF Range
  <2> QED
    BY <1>0, <2>1 DEF AtOK
<1> QED
  BY <1>8, <1>10, <1>11 DEF IInv

\* the interrupt thread
LEMMA FrameInv == IInv /\ Frame => IInv'
<1> SUFFICES ASSUME IInv, Frame PROVE IInv'
  OBVIOUS
<1>0. /\ TypeOK /\ AtOK /\ UNCHANGED <<list, num, sem, client, at, late>>
      /\ list["irq"] \in Seq(Tasks) /\ list["work"] \in Seq(Tasks)
      /\ queued \in BOOLEAN /\ due \subseteq Tasks /\ next \in Tasks \cup {None}
      /\ pos \in Tasks \cup {None}
  BY DEF IInv, TypeOK, Methods, Frame, FrameWork, FrameIrq, IrqCall
<1>1. Schedule => queued' \in BOOLEAN
  BY <1>0 DEF Schedule
<1>2. due \cup Range(list["work"]) \subseteq Tasks
  BY <1>0, RangeIs
<1>3. /\ pos' \in Tasks \cup {None} /\ next' \in Tasks \cup {None}
      /\ queued' \in BOOLEAN /\ due' \subseteq Tasks
  <2>1. CASE FrameWork
    BY <1>0, <1>1, <1>2, <2>1 DEF FrameWork, walk
  <2>2. CASE FrameIrq
    <3>1. list["irq"][1] \in Tasks /\ (Len(list["irq"]) > 1 => list["irq"][2] \in Tasks)
      BY <1>0, <2>2 DEF FrameIrq
    <3> QED
      BY <1>0, <2>2, <3>1 DEF FrameIrq
  <2>3. CASE IrqCall
    <3>1. next \in Range(list["irq"]) => Behind(list["irq"], next) \in Tasks \cup {None}
      <4> SUFFICES ASSUME next \in Range(list["irq"])
                   PROVE  Behind(list["irq"], next) \in Tasks \cup {None}
        OBVIOUS
      <4> DEFINE s == list["irq"]
                 i == CHOOSE i \in DOMAIN s : s[i] = next
      <4>1. i \in DOMAIN s
        BY DEF Range
      <4> HIDE DEF i
      <4>2. ASSUME i < Len(s) PROVE s[i + 1] \in Tasks
        <5>1. i \in 1 .. Len(s) /\ Len(s) \in Nat
          BY <1>0, <4>1
        <5>2. i + 1 \in 1 .. Len(s)
          BY <4>2, <5>1
        <5> QED
          BY <1>0, <5>2
      <4>3. (IF i < Len(s) THEN s[i + 1] ELSE None) \in Tasks \cup {None}
        BY <4>2
      <4> QED
        BY <4>3 DEF Behind, i
    <3>2. /\ pos' \in {None, next} /\ next' \in {None, Behind(list["irq"], next)}
          /\ next' # None => next \in Range(list["irq"])
          /\ Schedule \/ queued' = queued
          /\ due' = due \cup Range(list["work"]) \/ due' = due
      BY <2>3 DEF IrqCall
    <3> QED
      BY <1>0, <1>1, <1>2, <3>1, <3>2
  <2> QED
    BY <2>1, <2>2, <2>3 DEF Frame
<1>4. TypeOK' /\ AtOK'
  BY <1>0, <1>3 DEF TypeOK, AtOK
<1> QED
  BY <1>0, <1>4, AsideInv

\* the work item
LEMMA WorkInv == IInv /\ Work => IInv'
<1> SUFFICES ASSUME IInv, Work PROVE IInv'
  OBVIOUS
<1>0. /\ TypeOK /\ AtOK /\ Listed /\ UNCHANGED <<list, num, client, pos, next>>
      /\ list["work"] \in Seq(Tasks) /\ at \in Seq(Tasks) /\ due \subseteq Tasks
      /\ Range(list["work"]) = In("work")
  BY DEF IInv, TypeOK, Methods, Work, WorkBegin, WorkCall, WorkEnd, walk, Listed
<1>1. Range(<<>>) = {}
  BY DEF Range
<1>2. CASE WorkBegin
  <2>1. /\ at' = list["work"] /\ sem' = TRUE /\ queued' = FALSE /\ UNCHANGED <<due, late>>
    BY <1>2 DEF WorkBegin
  <2>2. TypeOK' /\ AtOK'
    BY <1>0, <2>1 DEF TypeOK, AtOK, In
  <2> QED
    BY <1>0, <2>2, AsideInv
<1>3. CASE WorkCall
  <2>1. /\ at # <<>> /\ sem /\ at' = Tail(at) /\ due' = due \ {Head(at)}
        /\ late' = (late \/ client[Head(at)] # "in") /\ UNCHANGED <<sem, queued>>
    BY <1>3 DEF WorkCall
  <2>2. Head(at) \in Range(at) /\ Tail(at) \in Seq(Tasks) /\ Range(Tail(at)) \subseteq Range(at)
    <3>1. /\ Tail(at) \in Seq(Tasks) /\ Len(Tail(at)) = Len(at) - 1 /\ Len(at) \in Nat \ {0}
          /\ \A j \in 1 .. Len(at) - 1 : Tail(at)[j] = at[j + 1]
          /\ Head(at) = at[1]
      BY <1>0, <2>1
    <3>2. Head(at) \in Range(at)
      BY <1>0, <3>1, RangeIs
    <3>3. ASSUME NEW t \in Range(Tail(at)) PROVE t \in Range(at)
      <4> DEFINE r == Tail(at)
      <4>1. r \in Seq(Tasks) /\ t \in Range(r)
        BY <3>1, <3>3
      <4> HIDE DEF r
      <4>2. PICK j \in 1 .. Len(r) : r[j] = t
        BY <4>1, RangeIs
      <4>3. j \in 1 .. Len(at) - 1 /\ Tail(at)[j] = t
        BY <3>1, <4>2 DEF r
      <4>4. j + 1 \in 1 .. Len(at) /\ at[j + 1] = t
        BY <3>1, <4>3
      <4> QED
        BY <1>0, <4>4, RangeIs
    <3> QED
      BY <3>1, <3>2, <3>3
  <2>3. late' = FALSE
    BY <1>0, <2>1, <2>2 DEF AtOK, TypeOK
  <2>4. TypeOK' /\ AtOK'
    BY <1>0, <2>1, <2>2, <2>3 DEF TypeOK, AtOK
  <2> QED
    BY <1>0, <2>4, AsideInv
<1>4. CASE WorkEnd
  <2>1. at = <<>> /\ sem' = FALSE /\ UNCHANGED <<at, queued, due, late>>
    BY <1>4 DEF WorkEnd
  <2>2. TypeOK' /\ AtOK'
    BY <1>0, <1>1, <2>1 DEF TypeOK, AtOK
  <2> QED
    BY <1>0, <2>2, AsideInv
<1> QED
  BY <1>2, <1>3, <1>4 DEF Work

(* Lists, clients and the work item stay within the invariant the theorems    *)
(* below rest on, however clients, frames and the work item interleave.       *)
THEOREM Inductive == Spec => []IInv
<1>1. IInv /\ [Next]_vars => IInv'
  <2> SUFFICES ASSUME IInv, [Next]_vars PROVE IInv'
    OBVIOUS
  <2>1. CASE \E t \in Tasks : Client(t)
    BY <2>1, ClientInv, RegisterAddInv, UnregisterInv DEF Client
  <2>2. CASE Work
    BY <2>2, WorkInv
  <2>3. CASE Frame
    BY <2>3, FrameInv
  <2>4. CASE UNCHANGED vars
    <3>1. TypeOK' /\ AtOK'
      BY <2>4 DEF vars, walk, IInv, TypeOK, AtOK
    <3> QED
      BY <2>4, <3>1, AsideInv DEF vars
  <2> QED
    BY <2>1, <2>2, <2>3, <2>4 DEF Next
<1> QED
  BY <1>1, InitInv, PTL DEF Spec

(* The lists hold tasks, the counts stay in their range and the walk of the   *)
(* interrupt thread never leaves the tasks (TypeOK).                         *)
THEOREM TypeCorrect == Spec => []TypeOK
<1>1. IInv => TypeOK
  BY DEF IInv
<1> QED
  BY <1>1, Inductive, PTL

(* The tasks on a list are, once each, those whose clients believe them       *)
(* registered, and a list whose u32Num is 0 is empty if there are not more    *)
(* tasks than it counts.                                                    *)
THEOREM RegisteredStayListed == Spec => []RegisteredAreListed
<1>1. IInv => RegisteredAreListed
  <2> SUFFICES ASSUME IInv, NEW k \in Methods
               PROVE  /\ IsInjective(list[k])
                      /\ Range(list[k]) = {t \in Tasks : MethodOf[t] = k /\ client[t] = "in"}
                      /\ Cardinality({t \in Tasks : MethodOf[t] = k}) <= MaxNum /\ num[k] = 0
                           => list[k] = <<>>
    BY DEF RegisteredAreListed
  <2>1. /\ IsInjective(list[k]) /\ Range(list[k]) = In(k)
        /\ Cardinality(Of(k)) <= MaxNum => num[k] = Len(list[k])
    BY DEF IInv, Listed
  <2>2. list[k] \in Seq(Tasks)
    BY DEF IInv, TypeOK
  <2>3. Len(list[k]) = 0 => list[k] = <<>>
    BY <2>2
  <2> QED
    BY <2>1, <2>3 DEF In, Of
<1> QED
  BY <1>1, Inductive, PTL

(* The work item calls no task that its client took back: unregistering waits *)
(* for the semaphore (isp_st.c).                                             *)
THEOREM WorkIsNeverLate == Spec => []WorkNeverLate
<1>1. IInv => WorkNeverLate
  BY DEF IInv, AtOK, WorkNeverLate
<1> QED
  BY <1>1, Inductive, PTL
=============================================================================
