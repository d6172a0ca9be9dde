--------------------------- MODULE IspBeBufProofs ---------------------------
(***************************************************************************)
(* Proofs about IspBeBuf, for any number of nodes from two on and any number *)
(* of references.                                                           *)
(***************************************************************************)
EXTENDS IspBeBuf, SequenceTheorems, WellFoundedInduction, TLAPS

(* A set of numbers has a least one: the induction of the next lemmas.       *)
LEMMA LeastExists ==
  ASSUME NEW T \in SUBSET Nat, T # {}
  PROVE  \E x \in T : \A y \in T : x <= y
<1> DEFINE R == {p \in Nat \X Nat : p[1] < p[2]}
<1>1. IsWellFoundedOn(R, Nat)
  BY NatLessThanWellFounded DEF OpToRel
<1>2. \A x, y \in Nat : y < x => <<y, x>> \in R
  OBVIOUS
<1> HIDE DEF R
<1>3. PICK x \in T : \A y \in T : ~(<<y, x>> \in R)
  BY <1>1, WFMin
<1>4. ASSUME NEW y \in T PROVE x <= y
  <2>1. x \in Nat /\ y \in Nat /\ ~(y < x)
    BY <1>2, <1>3
  <2> QED
    BY <2>1
<1> QED
  BY <1>4

(* A property of 0 that i has when i - 1 has it: G are the numbers with it.  *)
LEMMA UpTo ==
  ASSUME NEW N \in Nat, NEW G, 0 \in G, \A i \in 1 .. N : i - 1 \in G => i \in G
  PROVE  N \in G /\ \A i \in 0 .. N : i \in G
<1> SUFFICES ASSUME NEW j \in 0 .. N, j \notin G PROVE FALSE
  OBVIOUS
<1> DEFINE Bad == {i \in 0 .. N : i \notin G}
<1>1. Bad \in SUBSET Nat /\ Bad # {}
  OBVIOUS
<1>2. PICK i \in Bad : \A k \in Bad : i <= k
  <2> HIDE DEF Bad
  <2> QED
    BY <1>1, LeastExists
<1>3. i \in 1 .. N /\ i - 1 \in 0 .. N
  BY <1>2
<1>4. i - 1 \notin Bad
  BY <1>2, <1>3
<1> QED
  BY <1>2, <1>3, <1>4

-----------------------------------------------------------------------------
(* The sum of the references. *)

SumOf(s, h, N) == s = [n \in 0 .. N |-> IF n = 0 THEN 0 ELSE s[n - 1] + h[n]]

LEMMA SumIs ==
  ASSUME NEW h \in [Nodes -> Nat]
  PROVE  \E s \in [0 .. NodeNum -> Nat] :
           s[0] = 0 /\ (\A n \in Nodes : s[n] = s[n - 1] + h[n]) /\ Total(h) = s[NodeNum]
<1>0. NodeNum \in Nat
  BY NodeNumAssumption
<1> DEFINE G == {m \in 0 .. NodeNum : \E s : SumOf(s, h, m)}
<1>1. 0 \in G
  <2>1. SumOf([n \in 0 .. 0 |-> 0], h, 0)
    BY DEF SumOf
  <2> QED
    BY <1>0, <2>1
<1>2. ASSUME NEW m \in 1 .. NodeNum, m - 1 \in G PROVE m \in G
  <2>1. PICK s : SumOf(s, h, m - 1)
    BY <1>2
  <2> DEFINE t == [n \in 0 .. m |-> IF n = m THEN s[m - 1] + h[m] ELSE s[n]]
  <2>2. \A n \in 0 .. m - 1 : s[n] = IF n = 0 THEN 0 ELSE s[n - 1] + h[n]
    BY <2>1 DEF SumOf
  <2>3. \A n \in 0 .. m : t[n] = IF n = 0 THEN 0 ELSE t[n - 1] + h[n]
    BY <1>0, <2>2
  <2>4. SumOf(t, h, m)
    BY <2>3 DEF SumOf
  <2> QED
    BY <2>4
<1>3. NodeNum \in G
  <2> HIDE DEF G
  <2> QED
    BY <1>0, <1>1, <1>2, UpTo, Zenon
<1> DEFINE s == CHOOSE s : SumOf(s, h, NodeNum)
<1>4. SumOf(s, h, NodeNum)
  BY <1>3
<1>5. Total(h) = s[NodeNum]
  BY DEF Total, SumOf
<1> HIDE DEF s
<1>6. s[0] = 0 /\ \A n \in Nodes : s[n] = s[n - 1] + h[n]
  BY <1>0, <1>4 DEF SumOf, Nodes
<1> DEFINE H == {n \in 0 .. NodeNum : s[n] \in Nat}
<1>7. 0 \in H
  BY <1>0, <1>6
<1>8. ASSUME NEW n \in 1 .. NodeNum, n - 1 \in H PROVE n \in H
  BY <1>6, <1>8 DEF Nodes
<1>9. \A n \in 0 .. NodeNum : s[n] \in Nat
  <2>1. \A n \in 0 .. NodeNum : n \in H
    <3> HIDE DEF H
    <3> QED
      BY <1>0, <1>7, <1>8, UpTo, Zenon
  <2> QED
    BY <2>1
<1>10. s = [n \in 0 .. NodeNum |-> s[n]]
  BY <1>4 DEF SumOf
<1> QED
  BY <1>5, <1>6, <1>9, <1>10

(* A reference more or less changes the sum by one.                          *)
LEMMA SumPut ==
  ASSUME NEW h \in [Nodes -> Nat], NEW g \in [Nodes -> Nat], NEW m \in Nodes,
         \A n \in Nodes \ {m} : g[n] = h[n]
  PROVE  Total(g) + h[m] = Total(h) + g[m]
<1> DEFINE v == g[m]
<1>0. NodeNum \in Nat /\ NodeNum >= 2
  BY NodeNumAssumption
<1>1. v \in Nat /\ g[m] = v /\ \A n \in Nodes \ {m} : g[n] = h[n]
  OBVIOUS
<1> HIDE DEF v
<1>2. PICK s \in [0 .. NodeNum -> Nat] :
        s[0] = 0 /\ (\A n \in Nodes : s[n] = s[n - 1] + h[n]) /\ Total(h) = s[NodeNum]
  BY SumIs
<1>3. PICK t \in [0 .. NodeNum -> Nat] :
        t[0] = 0 /\ (\A n \in Nodes : t[n] = t[n - 1] + g[n]) /\ Total(g) = t[NodeNum]
  BY <1>0, SumIs
<1> DEFINE G == {n \in 0 .. NodeNum : IF n < m THEN t[n] = s[n] ELSE t[n] + h[m] = s[n] + v}
<1>4. 0 \in G
  BY <1>0, <1>2, <1>3 DEF Nodes
<1>5. ASSUME NEW n \in 1 .. NodeNum, n - 1 \in G PROVE n \in G
  <2>1. n \in Nodes /\ n - 1 \in 0 .. NodeNum /\ h[m] \in Nat /\ h[n] \in Nat
    BY <1>0 DEF Nodes
  <2>2. s[n] = s[n - 1] + h[n] /\ t[n] = t[n - 1] + g[n]
    BY <1>2, <1>3, <2>1
  <2>3. s[n] \in Nat /\ t[n] \in Nat /\ s[n - 1] \in Nat /\ t[n - 1] \in Nat
    BY <1>2, <1>3, <2>1
  <2>4. IF n - 1 < m THEN t[n - 1] = s[n - 1] ELSE t[n - 1] + h[m] = s[n - 1] + v
    BY <1>5
  <2>5. m \in Nat /\ n \in Nat /\ n \in 0 .. NodeNum
    BY <1>0 DEF Nodes
  <2>6. CASE n < m
    <3>1. g[n] = h[n] /\ n - 1 < m
      BY <1>1, <2>1, <2>5, <2>6
    <3> QED
      BY <2>2, <2>3, <2>4, <2>5, <2>6, <3>1
  <2>7. CASE n = m
    <3>1. g[n] = v /\ n - 1 < m
      BY <1>1, <2>5, <2>7
    <3> QED
      BY <2>2, <2>3, <2>4, <2>5, <2>7, <3>1
  <2>8. CASE n > m
    <3>1. g[n] = h[n] /\ ~(n - 1 < m)
      BY <1>1, <2>1, <2>5, <2>8
    <3>2. t[n - 1] + h[m] = s[n - 1] + v
      BY <2>4, <3>1
    <3>3. t[n] + h[m] = s[n] + v
      <4> DEFINE a == t[n - 1]
                 b == s[n - 1]
                 c == h[n]
                 d == h[m]
      <4>1. t[n] = a + c /\ s[n] = b + c
        BY <2>2, <3>1
      <4>2. a \in Nat /\ b \in Nat /\ c \in Nat /\ d \in Nat /\ v \in Nat /\ a + d = b + v
        BY <1>1, <2>1, <2>3, <3>2
      <4>3. (a + c) + d = (b + c) + v
        <5> HIDE DEF a, b, c, d
        <5> QED
          BY <4>2
      <4> QED
        BY <4>1, <4>3
    <3> QED
      BY <2>5, <2>8, <3>3
  <2> QED
    BY <2>5, <2>6, <2>7, <2>8
<1>6. NodeNum \in G
  <2> HIDE DEF G
  <2> QED
    BY <1>0, <1>4, <1>5, UpTo, Zenon
<1>7. ~(NodeNum < m)
  BY <1>0 DEF Nodes
<1> QED
  BY <1>2, <1>3, <1>6, <1>7 DEF v

(* No node has more references than all of them; and the sum of none is 0.   *)
LEMMA SumBounds ==
  ASSUME NEW h \in [Nodes -> Nat]
  PROVE  /\ Total(h) \in Nat
         /\ \A m \in Nodes : h[m] <= Total(h)
         /\ (\A m \in Nodes : h[m] = 0) => Total(h) = 0
<1>0. NodeNum \in Nat /\ NodeNum >= 2
  BY NodeNumAssumption
<1>1. PICK s \in [0 .. NodeNum -> Nat] :
        s[0] = 0 /\ (\A n \in Nodes : s[n] = s[n - 1] + h[n]) /\ Total(h) = s[NodeNum]
  BY SumIs
<1>2. ASSUME NEW m \in Nodes PROVE h[m] <= Total(h)
  <2> DEFINE G == {n \in 0 .. NodeNum : n >= m => s[n] >= h[m]}
  <2>1. 0 \in G
    BY <1>0 DEF Nodes
  <2>2. ASSUME NEW n \in 1 .. NodeNum, n - 1 \in G PROVE n \in G
    <3>1. n \in Nodes /\ n - 1 \in 0 .. NodeNum /\ h[m] \in Nat /\ h[n] \in Nat
      BY <1>0 DEF Nodes
    <3>2. s[n] = s[n - 1] + h[n] /\ s[n - 1] \in Nat
      BY <1>1, <3>1
    <3> QED
      BY <2>2, <3>1, <3>2 DEF Nodes
  <2>3. NodeNum \in G
    <3> HIDE DEF G
    <3> QED
      BY <1>0, <2>1, <2>2, UpTo, Zenon
  <2> QED
    BY <1>0, <1>1, <2>3 DEF Nodes
<1>3. ASSUME \A m \in Nodes : h[m] = 0 PROVE Total(h) = 0
  <2> DEFINE G == {n \in 0 .. NodeNum : s[n] = 0}
  <2>1. 0 \in G
    BY <1>0, <1>1
  <2>2. ASSUME NEW n \in 1 .. NodeNum, n - 1 \in G PROVE n \in G
    BY <1>0, <1>1, <1>3, <2>2 DEF Nodes
  <2>3. NodeNum \in G
    <3> HIDE DEF G
    <3> QED
      BY <1>0, <2>1, <2>2, UpTo, Zenon
  <2> QED
    BY <1>1, <2>3
<1> QED
  BY <1>0, <1>1, <1>2, <1>3

(* A reference given, and one given back.                                    *)
LEMMA TotalUp ==
  ASSUME NEW h \in [Nodes -> Nat], NEW g \in [Nodes -> Nat], NEW m \in Nodes,
         g[m] = h[m] + 1, \A n \in Nodes \ {m} : g[n] = h[n]
  PROVE  Total(g) = Total(h) + 1
<1>1. Total(g) + h[m] = Total(h) + g[m]
  BY SumPut
<1>2. Total(g) \in Nat /\ Total(h) \in Nat /\ h[m] \in Nat
  BY SumBounds
<1> QED
  BY <1>1, <1>2

LEMMA TotalDown ==
  ASSUME NEW h \in [Nodes -> Nat], NEW g \in [Nodes -> Nat], NEW m \in Nodes,
         h[m] > 0, g[m] = h[m] - 1, \A n \in Nodes \ {m} : g[n] = h[n]
  PROVE  Total(h) > 0 /\ Total(g) = Total(h) - 1
<1>1. Total(g) + h[m] = Total(h) + g[m]
  BY SumPut
<1>2. Total(g) \in Nat /\ Total(h) \in Nat /\ h[m] \in Nat /\ h[m] <= Total(h)
  BY SumBounds
<1> QED
  BY <1>1, <1>2

-----------------------------------------------------------------------------
(* What is left of a list. *)

OnlyOf(o, list, S, N) ==
  o = [i \in 0 .. N |->
         IF i = 0 THEN <<>>
         ELSE IF list[i] \in S THEN Append(o[i - 1], list[i]) ELSE o[i - 1]]

Runs(o, T, list, S) ==
  /\ o \in [0 .. Len(list) -> Seq(T)]
  /\ o[0] = <<>>
  /\ \A i \in 1 .. Len(list) :
       o[i] = IF list[i] \in S THEN Append(o[i - 1], list[i]) ELSE o[i - 1]
  /\ Only(list, S) = o[Len(list)]

LEMMA OnlyIs ==
  ASSUME NEW T, NEW list \in Seq(T), NEW S
  PROVE  \E o : Runs(o, T, list, S)
<1> DEFINE N == Len(list)
<1>0. N \in Nat /\ \A i \in 1 .. N : list[i] \in T
  OBVIOUS
<1>a. Only(list, S) = (CHOOSE o : OnlyOf(o, list, S, N))[N]
  BY DEF Only, OnlyOf
<1> HIDE DEF N
<1> DEFINE G == {m \in 0 .. N : \E o : OnlyOf(o, list, S, m)}
<1>1. 0 \in G
  <2>1. OnlyOf([i \in 0 .. 0 |-> <<>>], list, S, 0)
    BY DEF OnlyOf
  <2> QED
    BY <1>0, <2>1
<1>2. ASSUME NEW m \in 1 .. N, m - 1 \in G PROVE m \in G
  <2>1. PICK o : OnlyOf(o, list, S, m - 1)
    BY <1>2
  <2> DEFINE v == IF list[m] \in S THEN Append(o[m - 1], list[m]) ELSE o[m - 1]
             p == [i \in 0 .. m |-> IF i = m THEN v ELSE o[i]]
  <2>2. \A i \in 0 .. m - 1 :
          o[i] = IF i = 0 THEN <<>>
                 ELSE IF list[i] \in S THEN Append(o[i - 1], list[i]) ELSE o[i - 1]
    BY <2>1 DEF OnlyOf
  <2>3. \A i \in 0 .. m :
          p[i] = IF i = 0 THEN <<>>
                 ELSE IF list[i] \in S THEN Append(p[i - 1], list[i]) ELSE p[i - 1]
    <3>1. \A i \in 0 .. m - 1 : p[i] = o[i]
      BY <1>0
    <3>2. p[m] = v
      BY <1>0
    <3>3. \A i \in 0 .. m : i = m \/ i \in 0 .. m - 1
      BY <1>0
    <3>4. m # 0 /\ m - 1 \in 0 .. m - 1 /\ \A i \in 0 .. m - 1 : i # 0 => i - 1 \in 0 .. m - 1
      BY <1>0
    <3>5. v = IF list[m] \in S THEN Append(o[m - 1], list[m]) ELSE o[m - 1]
      OBVIOUS
    <3> HIDE DEF p, v
    <3> SUFFICES ASSUME NEW i \in 0 .. m
                 PROVE  p[i] = IF i = 0 THEN <<>>
                        ELSE IF list[i] \in S THEN Append(p[i - 1], list[i]) ELSE p[i - 1]
      OBVIOUS
    <3>6. CASE i = m
      BY <3>1, <3>2, <3>4, <3>5, <3>6
    <3>7. CASE i \in 0 .. m - 1
      BY <2>2, <3>1, <3>4, <3>7
    <3> QED
      BY <3>3, <3>6, <3>7
  <2>4. OnlyOf(p, list, S, m)
    BY <2>3 DEF OnlyOf
  <2> QED
    BY <2>4
<1>3. N \in G
  <2> HIDE DEF G
  <2> QED
    BY <1>0, <1>1, <1>2, UpTo, Zenon
<1> DEFINE o == CHOOSE o : OnlyOf(o, list, S, N)
<1>4. OnlyOf(o, list, S, N)
  BY <1>3
<1>5. Only(list, S) = o[N]
  BY <1>a
<1> HIDE DEF o
<1>6. /\ o[0] = <<>>
      /\ \A i \in 1 .. N :
           o[i] = IF list[i] \in S THEN Append(o[i - 1], list[i]) ELSE o[i - 1]
  <2>1. \A i \in 0 .. N :
          o[i] = IF i = 0 THEN <<>>
                 ELSE IF list[i] \in S THEN Append(o[i - 1], list[i]) ELSE o[i - 1]
    BY <1>4 DEF OnlyOf
  <2>2. 0 \in 0 .. N /\ \A i \in 1 .. N : i \in 0 .. N /\ i # 0
    BY <1>0
  <2> QED
    BY <2>1, <2>2
<1> DEFINE H == {i \in 0 .. N : o[i] \in Seq(T)}
<1>7. 0 \in H
  <2>1. 0 \in 0 .. N /\ o[0] = <<>> /\ <<>> \in Seq(T)
    BY <1>0, <1>6
  <2> QED
    BY <2>1
<1>8. ASSUME NEW i \in 1 .. N, i - 1 \in H PROVE i \in H
  <2>1. o[i - 1] \in Seq(T) /\ list[i] \in T /\ i \in 0 .. N
    BY <1>0, <1>8
  <2>2. Append(o[i - 1], list[i]) \in Seq(T)
    BY <2>1
  <2>3. o[i] = Append(o[i - 1], list[i]) \/ o[i] = o[i - 1]
    BY <1>6
  <2> QED
    BY <2>1, <2>2, <2>3
<1>9. \A i \in 0 .. N : o[i] \in Seq(T)
  <2>1. \A i \in 0 .. N : i \in H
    <3> HIDE DEF H
    <3> QED
      BY <1>0, <1>7, <1>8, UpTo, Zenon
  <2> QED
    BY <2>1
<1>10. o = [i \in 0 .. N |-> o[i]]
  BY <1>4 DEF OnlyOf
<1> QED
  BY <1>5, <1>6, <1>9, <1>10 DEF N, Runs

(* It has the members of the list that are in S, each as often as the list,  *)
(* and the list's last one when that is in S.                                *)
LEMMA OnlyHas ==
  ASSUME NEW T, NEW list \in Seq(T), NEW S
  PROVE  /\ Only(list, S) \in Seq(T)
         /\ \A j \in 1 .. Len(Only(list, S)) :
              Only(list, S)[j] \in S /\ \E i \in 1 .. Len(list) : list[i] = Only(list, S)[j]
         /\ \A i \in 1 .. Len(list) :
              list[i] \in S => \E j \in 1 .. Len(Only(list, S)) : Only(list, S)[j] = list[i]
         /\ IsInjective(list) => IsInjective(Only(list, S))
         /\ list # <<>> /\ list[Len(list)] \in S =>
              /\ Only(list, S) # <<>>
              /\ Only(list, S)[Len(Only(list, S))] = list[Len(list)]
<1> DEFINE N == Len(list)
<1>0. N \in Nat /\ (\A i \in 1 .. N : list[i] \in T) /\ DOMAIN list = 1 .. N
  OBVIOUS
<1>1. PICK o : Runs(o, T, list, S)
  BY OnlyIs, Zenon
<1>b. /\ o \in [0 .. N -> Seq(T)]
      /\ o[0] = <<>>
      /\ \A i \in 1 .. N :
           o[i] = IF list[i] \in S THEN Append(o[i - 1], list[i]) ELSE o[i - 1]
      /\ Only(list, S) = o[N]
  BY <1>1 DEF Runs
<1>a. list # <<>> => N \in 1 .. N
  BY <1>0
<1> HIDE DEF N
<1> DEFINE From(i) == \A j \in 1 .. Len(o[i]) :
                         o[i][j] \in S /\ \E k \in 1 .. i : list[k] = o[i][j]
           All(i) == \A k \in 1 .. i :
                       list[k] \in S => \E j \in 1 .. Len(o[i]) : o[i][j] = list[k]
           Inj(i) == IsInjective(list) => IsInjective(o[i])
           G == {i \in 0 .. N : From(i) /\ All(i) /\ Inj(i)}
<1>2. 0 \in G
  BY <1>0, <1>b DEF IsInjective
<1>3. ASSUME NEW i \in 1 .. N, i - 1 \in G PROVE i \in G
  <2>1. i - 1 \in 0 .. N /\ i \in 0 .. N /\ list[i] \in T
    BY <1>0
  <2>2. o[i - 1] \in Seq(T) /\ o[i] \in Seq(T)
    BY <1>b, <2>1
  <2>3. From(i - 1) /\ All(i - 1) /\ Inj(i - 1)
    BY <1>3
  <2>4. CASE list[i] \notin S
    <3>1. o[i] = o[i - 1]
      BY <1>b, <2>4
    <3>2. From(i)
      BY <1>0, <2>1, <2>3, <3>1
    <3>3. All(i)
      BY <1>0, <2>1, <2>3, <2>4, <3>1
    <3> QED
      BY <2>1, <2>3, <3>1, <3>2, <3>3
  <2>5. CASE list[i] \in S
    <3>1. o[i] = Append(o[i - 1], list[i])
      BY <1>b, <2>5
    <3> DEFINE L == Len(o[i - 1])
    <3>2. L \in Nat /\ Len(o[i]) = L + 1 /\ o[i][L + 1] = list[i]
          /\ (\A j \in 1 .. L : o[i][j] = o[i - 1][j]) /\ DOMAIN o[i] = 1 .. L + 1
          /\ DOMAIN o[i - 1] = 1 .. L
      BY <2>1, <2>2, <3>1
    <3> HIDE DEF L
    <3>3. From(i)
      <4> SUFFICES ASSUME NEW j \in 1 .. L + 1
                   PROVE  o[i][j] \in S /\ \E k \in 1 .. i : list[k] = o[i][j]
        BY <3>2
      <4>1. CASE j = L + 1
        BY <2>1, <2>5, <3>2, <4>1
      <4>2. CASE j \in 1 .. L
        <5>1. o[i][j] = o[i - 1][j]
          BY <3>2, <4>2
        <5>2. o[i - 1][j] \in S /\ \E k \in 1 .. i - 1 : list[k] = o[i - 1][j]
          BY <2>3, <4>2 DEF L
        <5>3. \A k \in 1 .. i - 1 : k \in 1 .. i
          BY <2>1
        <5> QED
          BY <5>1, <5>2, <5>3
      <4> QED
        BY <3>2, <4>1, <4>2
    <3>4. All(i)
      <4> SUFFICES ASSUME NEW k \in 1 .. i, list[k] \in S
                   PROVE  \E j \in 1 .. L + 1 : o[i][j] = list[k]
        BY <3>2
      <4>1. CASE k = i
        BY <3>2, <4>1
      <4>2. CASE k \in 1 .. i - 1
        <5>1. PICK j \in 1 .. L : o[i - 1][j] = list[k]
          BY <2>3, <4>2 DEF L
        <5> QED
          BY <3>2, <5>1
      <4> QED
        BY <2>1, <4>1, <4>2
    <3>5. Inj(i)
      <4> SUFFICES ASSUME IsInjective(list), NEW a \in 1 .. L + 1, NEW b \in 1 .. L + 1,
                          a < b, o[i][a] = o[i][b]
                   PROVE  FALSE
        BY <3>2 DEF IsInjective
      <4>1. CASE b = L + 1
        <5>1. a \in 1 .. L /\ o[i - 1][a] = list[i]
          BY <3>2, <4>1
        <5>2. PICK k \in 1 .. i - 1 : list[k] = list[i]
          BY <2>3, <5>1 DEF L
        <5>3. k \in 1 .. N /\ k # i
          BY <1>0, <2>1
        <5> QED
          BY <1>0, <5>2, <5>3 DEF IsInjective
      <4>2. CASE b \in 1 .. L
        <5>1. a \in 1 .. L /\ a # b
          BY <3>2, <4>2
        <5>2. o[i - 1][a] = o[i - 1][b]
          BY <3>2, <4>2, <5>1
        <5>3. IsInjective(o[i - 1])
          BY <2>3
        <5> QED
          BY <3>2, <4>2, <5>1, <5>2, <5>3 DEF IsInjective
      <4> QED
        BY <3>2, <4>1, <4>2
    <3> QED
      BY <2>1, <3>3, <3>4, <3>5
  <2> QED
    BY <2>4, <2>5
<1>4. N \in G
  <2> HIDE DEF G
  <2> QED
    BY <1>0, <1>2, <1>3, UpTo, Zenon
<1>5. From(N) /\ All(N) /\ Inj(N)
  BY <1>4
<1>6. list # <<>> /\ list[N] \in S => o[N] # <<>> /\ o[N][Len(o[N])] = list[N]
  <2> SUFFICES ASSUME list # <<>>, list[N] \in S
               PROVE  o[N] # <<>> /\ o[N][Len(o[N])] = list[N]
    OBVIOUS
  <2>1. o[N] = Append(o[N - 1], list[N]) /\ o[N - 1] \in Seq(T) /\ list[N] \in T
    <3>1. N \in 1 .. N /\ N - 1 \in 0 .. N
      BY <1>0, <1>a
    <3> QED
      BY <1>0, <1>b, <3>1
  <2> DEFINE p == o[N - 1]
             e == list[N]
  <2>2. p \in Seq(T) /\ e \in T /\ o[N] = Append(p, e)
    BY <2>1
  <2> HIDE DEF p, e
  <2>3. Len(Append(p, e)) = Len(p) + 1 /\ Append(p, e)[Len(p) + 1] = e /\ Append(p, e) # <<>>
    BY <2>2, AppendProperties
  <2> QED
    BY <2>2, <2>3 DEF e
<1>7. o[N] \in Seq(T)
  BY <1>0, <1>b
<1> QED
  BY <1>b, <1>5, <1>6, <1>7 DEF N

-----------------------------------------------------------------------------
(* The lists' operations, by their members. *)
LEMMA MembersAre ==
  ASSUME NEW s \in Seq(Nodes)
  PROVE  /\ Range(s) \subseteq Nodes
         /\ \A n : n \in Range(s) <=> \E i \in 1 .. Len(s) : s[i] = n
         /\ s = <<>> <=> Range(s) = {}
         /\ s # <<>> => s[Len(s)] \in Range(s)
<1>1. DOMAIN s = 1 .. Len(s) /\ Len(s) \in Nat /\ \A i \in 1 .. Len(s) : s[i] \in Nodes
  OBVIOUS
<1>2. \A n : n \in Range(s) <=> \E i \in 1 .. Len(s) : s[i] = n
  BY <1>1 DEF Range
<1>3. Range(s) \subseteq Nodes
  BY <1>1 DEF Range
<1>4. s # <<>> => Len(s) \in 1 .. Len(s)
  BY <1>1
<1>5. ASSUME s = <<>> PROVE Range(s) = {}
  <2>1. Len(s) = 0
    BY <1>5
  <2> QED
    BY <1>2, <2>1
<1> QED
  BY <1>2, <1>3, <1>4, <1>5

LEMMA NoMembers == <<>> \in Seq(Nodes) /\ Range(<<>>) = {} /\ IsInjective(<<>>)
<1>1. <<>> \in Seq(Nodes) /\ Len(<<>>) = 0 /\ DOMAIN <<>> = 1 .. 0
  OBVIOUS
<1> QED
  BY <1>1, MembersAre DEF IsInjective

LEMMA HeadTailAre ==
  ASSUME NEW s \in Seq(Nodes), s # <<>>
  PROVE  /\ Head(s) \in Nodes /\ Tail(s) \in Seq(Nodes)
         /\ IsInjective(s) => IsInjective(Tail(s)) /\ Range(Tail(s)) = Range(s) \ {Head(s)}
         /\ Head(s) \in Range(s)
<1>1. /\ Len(s) \in Nat \ {0} /\ DOMAIN s = 1 .. Len(s)
      /\ Head(s) = s[1] /\ Tail(s) \in Seq(Nodes) /\ Len(Tail(s)) = Len(s) - 1
      /\ DOMAIN Tail(s) = 1 .. Len(s) - 1
      /\ \A i \in 1 .. Len(s) - 1 : Tail(s)[i] = s[i + 1]
  OBVIOUS
<1>2. Head(s) \in Range(s)
  BY <1>1, MembersAre
<1>3. ASSUME IsInjective(s) PROVE IsInjective(Tail(s)) /\ Range(Tail(s)) = Range(s) \ {Head(s)}
  <2> DEFINE t == Tail(s)
             N == Len(s)
  <2>1. /\ N \in Nat \ {0} /\ DOMAIN s = 1 .. N /\ DOMAIN t = 1 .. N - 1
        /\ \A i \in 1 .. N - 1 : t[i] = s[i + 1]
        /\ Head(s) = s[1]
    BY <1>1
  <2> HIDE DEF t, N
  <2>2. \A a, b \in 1 .. N : s[a] = s[b] => a = b
    BY <1>3, <2>1 DEF IsInjective
  <2>3. IsInjective(t)
    <3> SUFFICES ASSUME NEW a \in 1 .. N - 1, NEW b \in 1 .. N - 1, t[a] = t[b] PROVE a = b
      BY <2>1 DEF IsInjective
    <3>1. a + 1 \in 1 .. N /\ b + 1 \in 1 .. N /\ s[a + 1] = s[b + 1]
      BY <2>1
    <3> QED
      BY <2>2, <3>1
  <2>4. ASSUME NEW n \in Range(t) PROVE n \in Range(s) /\ n # Head(s)
    <3>1. PICK i \in 1 .. N - 1 : t[i] = n
      BY <2>1 DEF Range
    <3>2. i + 1 \in 1 .. N /\ 1 \in 1 .. N /\ i + 1 # 1 /\ s[i + 1] = n
      BY <2>1, <3>1
    <3> QED
      BY <2>1, <2>2, <3>2 DEF Range
  <2>5. ASSUME NEW n \in Range(s), n # Head(s) PROVE n \in Range(t)
    <3>1. PICK i \in 1 .. N : s[i] = n
      BY <2>1 DEF Range
    <3>2. i - 1 \in 1 .. N - 1 /\ t[i - 1] = s[i - 1 + 1] /\ i - 1 + 1 = i
      BY <2>1, <2>5, <3>1
    <3> QED
      BY <2>1, <3>1, <3>2 DEF Range
  <2>6. Range(t) = Range(s) \ {Head(s)}
    BY <2>4, <2>5
  <2> QED
    BY <2>3, <2>6 DEF t
<1> QED
  BY <1>1, <1>2, <1>3, MembersAre

LEMMA ConcatIs ==
  ASSUME NEW s \in Seq(Nodes), NEW t \in Seq(Nodes)
  PROVE  /\ s \o t \in Seq(Nodes)
         /\ Range(s \o t) = Range(s) \cup Range(t)
         /\ IsInjective(s) /\ IsInjective(t) /\ Range(s) \cap Range(t) = {} =>
              IsInjective(s \o t)
<1> DEFINE c == s \o t
           M == Len(s)
           N == Len(t)
<1>1. /\ M \in Nat /\ N \in Nat /\ c \in Seq(Nodes) /\ Len(c) = M + N
      /\ DOMAIN s = 1 .. M /\ DOMAIN t = 1 .. N /\ DOMAIN c = 1 .. M + N
  OBVIOUS
<1>2. /\ \A i \in 1 .. M : c[i] = s[i]
      /\ \A i \in 1 .. M + N : i > M => c[i] = t[i - M]
      /\ \A i \in 1 .. N : c[M + i] = t[i]
  BY ConcatProperties
<1> HIDE DEF c, M, N
<1>3. Range(s) \cup Range(t) \subseteq Range(c)
  <2>1. \A i \in 1 .. M : i \in 1 .. M + N
    BY <1>1
  <2>2. \A i \in 1 .. N : M + i \in 1 .. M + N
    BY <1>1
  <2>3. ASSUME NEW i \in 1 .. M PROVE s[i] \in Range(c)
    BY <1>1, <1>2, <2>1 DEF Range
  <2>4. ASSUME NEW i \in 1 .. N PROVE t[i] \in Range(c)
    <3>1. M + i \in DOMAIN c /\ c[M + i] = t[i]
      BY <1>1, <1>2, <2>2
    <3> QED
      BY <3>1 DEF Range
  <2> QED
    BY <1>1, <2>3, <2>4 DEF Range
<1>4. Range(c) \subseteq Range(s) \cup Range(t)
  <2> SUFFICES ASSUME NEW i \in 1 .. M + N PROVE c[i] \in Range(s) \cup Range(t)
    BY <1>1 DEF Range
  <2>1. CASE i \in 1 .. M
    BY <1>1, <1>2, <2>1 DEF Range
  <2>2. CASE i > M
    <3>1. i - M \in 1 .. N /\ c[i] = t[i - M]
      BY <1>1, <1>2, <2>2
    <3> QED
      BY <1>1, <3>1 DEF Range
  <2> QED
    BY <1>1, <2>1, <2>2
<1>5. ASSUME IsInjective(s), IsInjective(t), Range(s) \cap Range(t) = {} PROVE IsInjective(c)
  <2>1. (\A a, b \in 1 .. M : s[a] = s[b] => a = b) /\ (\A a, b \in 1 .. N : t[a] = t[b] => a = b)
    BY <1>1, <1>5 DEF IsInjective
  <2>2. \A a \in 1 .. M, b \in 1 .. N : s[a] # t[b]
    BY <1>1, <1>5 DEF Range
  <2> SUFFICES ASSUME NEW a \in 1 .. M + N, NEW b \in 1 .. M + N, c[a] = c[b], a < b PROVE FALSE
    BY <1>1 DEF IsInjective
  <2>3. CASE b <= M
    BY <1>1, <1>2, <2>1, <2>3
  <2>4. CASE a <= M /\ b > M
    <3>1. b - M \in 1 .. N /\ a \in 1 .. M
      BY <1>1, <2>4
    <3> QED
      BY <1>2, <2>2, <2>4, <3>1
  <2>5. CASE a > M
    <3>1. a - M \in 1 .. N /\ b - M \in 1 .. N /\ a - M # b - M /\ b > M
      BY <1>1, <2>5
    <3> QED
      BY <1>2, <2>1, <2>5, <3>1
  <2> QED
    BY <1>1, <2>3, <2>4, <2>5
<1> QED
  BY <1>1, <1>3, <1>4, <1>5 DEF c

LEMMA AppendIs ==
  ASSUME NEW s \in Seq(Nodes), NEW n \in Nodes
  PROVE  /\ Append(s, n) \in Seq(Nodes) /\ Append(s, n) # <<>> /\ Last(Append(s, n)) = n
         /\ Range(Append(s, n)) = Range(s) \cup {n}
         /\ IsInjective(s) /\ n \notin Range(s) => IsInjective(Append(s, n))
<1>1. /\ Append(s, n) = s \o <<n>> /\ <<n>> \in Seq(Nodes)
      /\ Len(<<n>>) = 1 /\ <<n>>[1] = n /\ DOMAIN <<n>> = 1 .. 1
  BY AppendIsConcat
<1>2. Range(<<n>>) = {n} /\ IsInjective(<<n>>)
  BY <1>1 DEF Range, IsInjective
<1>3. Append(s, n) # <<>> /\ Last(Append(s, n)) = n
  BY AppendProperties DEF Last
<1> DEFINE o == <<n>>
<1>4. Append(s, n) = s \o o /\ o \in Seq(Nodes) /\ Range(o) = {n} /\ IsInjective(o)
  BY <1>1, <1>2
<1> HIDE DEF o
<1>5. /\ s \o o \in Seq(Nodes) /\ Range(s \o o) = Range(s) \cup Range(o)
      /\ IsInjective(s) /\ Range(s) \cap Range(o) = {} => IsInjective(s \o o)
  BY <1>4, ConcatIs
<1> QED
  BY <1>3, <1>4, <1>5

LEMMA FrontIs ==
  ASSUME NEW s \in Seq(Nodes), s # <<>>
  PROVE  /\ Last(s) \in Nodes /\ Last(s) \in Range(s) /\ Front(s) \in Seq(Nodes)
         /\ IsInjective(s) => IsInjective(Front(s)) /\ Range(Front(s)) = Range(s) \ {Last(s)}
<1> DEFINE t == Front(s)
           N == Len(s)
<1>1. N \in Nat \ {0} /\ DOMAIN s = 1 .. N /\ Last(s) = s[N] /\ \A i \in 1 .. N : s[i] \in Nodes
  BY DEF Last
<1>2. t \in Seq(Nodes) /\ DOMAIN t = 1 .. N - 1 /\ \A i \in 1 .. N - 1 : t[i] = s[i]
  BY <1>1 DEF Front
<1> HIDE DEF t, N
<1>3. N \in 1 .. N /\ (\A i \in 1 .. N - 1 : i \in 1 .. N /\ i # N)
      /\ \A i \in 1 .. N : i # N => i \in 1 .. N - 1
  BY <1>1
<1>4. Last(s) \in Nodes /\ Last(s) \in Range(s)
  BY <1>1, <1>3 DEF Range
<1>5. ASSUME IsInjective(s) PROVE IsInjective(t) /\ Range(t) = Range(s) \ {Last(s)}
  <2>1. \A a, b \in 1 .. N : s[a] = s[b] => a = b
    BY <1>1, <1>5 DEF IsInjective
  <2>2. IsInjective(t)
    BY <1>2, <1>3, <2>1 DEF IsInjective
  <2>3. Range(t) \subseteq Range(s) \ {Last(s)}
    BY <1>1, <1>2, <1>3, <2>1 DEF Range
  <2>4. Range(s) \ {Last(s)} \subseteq Range(t)
    BY <1>1, <1>2, <1>3 DEF Range
  <2> QED
    BY <2>2, <2>3, <2>4
<1> QED
  BY <1>2, <1>4, <1>5 DEF t

LEMMA OnlyMembers ==
  ASSUME NEW s \in Seq(Nodes), NEW S
  PROVE  /\ Only(s, S) \in Seq(Nodes)
         /\ Range(Only(s, S)) = Range(s) \cap S
         /\ IsInjective(s) => IsInjective(Only(s, S))
         /\ s # <<>> /\ Last(s) \in S => Only(s, S) # <<>> /\ Last(Only(s, S)) = Last(s)
<1> DEFINE o == Only(s, S)
<1>1. /\ o \in Seq(Nodes)
      /\ \A j \in 1 .. Len(o) : o[j] \in S /\ \E i \in 1 .. Len(s) : s[i] = o[j]
      /\ \A i \in 1 .. Len(s) : s[i] \in S => \E j \in 1 .. Len(o) : o[j] = s[i]
      /\ IsInjective(s) => IsInjective(o)
      /\ s # <<>> /\ s[Len(s)] \in S => o # <<>> /\ o[Len(o)] = s[Len(s)]
  BY OnlyHas
<1> HIDE DEF o
<1>2. \A n : n \in Range(s) <=> \E i \in 1 .. Len(s) : s[i] = n
  BY MembersAre
<1>3. \A n : n \in Range(o) <=> \E i \in 1 .. Len(o) : o[i] = n
  BY <1>1, MembersAre
<1>4. Range(o) = Range(s) \cap S
  BY <1>1, <1>2, <1>3
<1> QED
  BY <1>1, <1>4 DEF o, Last

-----------------------------------------------------------------------------
AllNodes == [n \in Nodes |-> n]

(* No node twice on the lists, nor there and in use.                         *)
Once(fr, bs, u) ==
  /\ IsInjective(fr) /\ IsInjective(bs)
  /\ Range(fr) \cap Range(bs) = {}
  /\ u \notin Range(fr) \cup Range(bs)

Placed == queue = "ready" => Once(free, busy, use)

(* The queue is there between BeBufInit and the end of BeBufExit.            *)
Phase ==
  /\ queue = "none" <=> ~init \/ lib = "create"
  /\ queue = "created" <=> lib = "setup"
  /\ lib # "idle" => init
  /\ exitState = "EXIT" <=> queue # "ready"
  /\ lib \in {"wait", "destroy"} => exitState = "WAITING"
  /\ queue = "none" => free = <<>>
  /\ queue # "ready" => busy = <<>>

(* While the nodes get their addresses the interrupt thread takes at most one. *)
Setup ==
  lib = "setup" =>
    \/ free = AllNodes
    \/ free = Tail(AllNodes) /\ use # None /\ irq = "idle"

Counted ==
  ~forced =>
    /\ hold = outs
    /\ use_cnt = Total(outs)
    /\ \A n \in Nodes : outs[n] > 0 => queue = "ready" /\ n \in Range(busy)
    /\ lib = "destroy" => use_cnt = 0

(* The busy list ends with the newest node; the others are held.             *)
Fresh ==
  /\ newest = None <=> busy = <<>>
  /\ ordered /\ ~forced =>
       /\ busy # <<>> => Last(busy) = newest
       /\ \A n \in Range(busy) : n # newest => outs[n] > 0

IInv == TypeOK /\ Phase /\ Setup /\ Placed /\ Counted /\ Fresh

LEMMA NodesAre ==
  /\ None \notin Nodes /\ NodeNum \in Nat /\ NodeNum >= 2
  /\ AllNodes \in Seq(Nodes) /\ IsInjective(AllNodes) /\ AllNodes # <<>>
  /\ Len(AllNodes) = NodeNum /\ Len(Tail(AllNodes)) = NodeNum - 1
  /\ Tail(AllNodes) \in Seq(Nodes) /\ Tail(AllNodes) # <<>>
<1>1. None \notin Nodes /\ NodeNum \in Nat /\ NodeNum >= 2
  BY NodeNumAssumption, NoneAssumption DEF Nodes
<1>2. AllNodes \in [1 .. NodeNum -> Nodes]
  BY DEF AllNodes, Nodes
<1>3. AllNodes \in Seq(Nodes) /\ Len(AllNodes) = NodeNum
  BY <1>1, <1>2
<1>4. IsInjective(AllNodes)
  BY DEF IsInjective, AllNodes
<1>5. AllNodes # <<>>
  BY <1>1, <1>3
<1>6. Tail(AllNodes) \in Seq(Nodes) /\ Len(Tail(AllNodes)) = NodeNum - 1
  BY <1>1, <1>3, <1>5, HeadTailProperties
<1>7. Tail(AllNodes) # <<>>
  <2>1. Len(Tail(AllNodes)) # 0
    BY <1>1, <1>6
  <2>2. Len(<<>>) = 0
    OBVIOUS
  <2> QED
    BY <2>1, <2>2
<1> QED
  BY <1>1, <1>3, <1>4, <1>5, <1>6, <1>7

LEMMA InitInv == Init => IInv
<1> SUFFICES ASSUME Init PROVE IInv
  OBVIOUS
<1>1. TypeOK
  <2>1. \A n \in Nodes : hold[n] = 0 /\ outs[n] = 0
    BY DEF Init
  <2>2. hold \in [Nodes -> Nat] /\ outs \in [Nodes -> Nat]
    BY DEF Init
  <2> QED
    BY <2>2, NoMembers DEF Init, TypeOK
<1>2. Phase /\ Setup /\ Placed
  BY DEF Init, Phase, Setup, Placed
<1>3. Counted
  <2>1. hold = outs /\ outs \in [Nodes -> Nat] /\ \A n \in Nodes : outs[n] = 0
    BY DEF Init
  <2>2. Total(outs) = 0
    BY <2>1, SumBounds
  <2> QED
    BY <2>1, <2>2 DEF Init, Counted
<1>4. Fresh
  BY NoMembers DEF Init, Fresh
<1> QED
  BY <1>1, <1>2, <1>3, <1>4 DEF IInv

-----------------------------------------------------------------------------
(* Kinds of steps. *)

(* Nodes, references and configuration stay: only where the threads are      *)
(* changes.                                                                  *)
LEMMA AsideStep ==
  ASSUME IInv, UNCHANGED <<ordered, queue, free, busy, use, hold, use_cnt, outs, forced, newest>>,
         init' \in BOOLEAN, exitState' \in {"READY", "WAITING", "EXIT"}, memInit' \in BOOLEAN,
         runOnce' \subseteq Kinds, lib' \in {"idle", "create", "setup", "wait", "destroy"},
         irq' \in {"idle", "take"}, crashed' \in {"no", "irq", "runonce"},
         Phase', lib' = "setup" => lib = "setup" /\ (irq' = irq \/ irq' = "idle" \/ use = None),
         lib' = "destroy" => lib = "destroy" \/ use_cnt = 0
  PROVE  IInv'
<1>1. TypeOK'
  BY DEF IInv, TypeOK
<1>2. Setup'
  BY DEF IInv, Setup
<1>3. Placed' /\ Counted' /\ Fresh'
  BY DEF IInv, Placed, Counted, Fresh
<1> QED
  BY <1>1, <1>2, <1>3 DEF IInv

(* Nodes change place, and nobody's references do.                           *)
LEMMA PlaceStep ==
  ASSUME IInv, queue = "ready", UNCHANGED <<queue, ordered, init, lib, exitState, hold, use_cnt, outs, forced>>,
         NEW fr \in Seq(Nodes), NEW bs \in Seq(Nodes), NEW u \in Nodes \cup {None},
         free' = fr, busy' = bs, use' = u, newest' \in Nodes \cup {None},
         memInit' = memInit, runOnce' \subseteq Kinds, irq' \in {"idle", "take"}, crashed' = crashed,
         Once(fr, bs, u),
         ~forced => \A n \in Nodes : outs[n] > 0 /\ n \in Range(busy) => n \in Range(bs),
         Fresh'
  PROVE  IInv'
<1>1. TypeOK'
  BY DEF IInv, TypeOK
<1>2. Phase' /\ Setup' /\ Placed'
  BY DEF IInv, Phase, Setup, Placed
<1>3. Counted'
  BY DEF IInv, Counted
<1> QED
  BY <1>1, <1>2, <1>3 DEF IInv

(* The next free node into use, in a ready queue.                            *)
LEMMA TakeHead ==
  ASSUME IInv, queue = "ready", free # <<>>
  PROVE  /\ Tail(free) \in Seq(Nodes) /\ Head(free) \in Nodes
         /\ Once(Tail(free), busy, Head(free))
<1>1. free \in Seq(Nodes) /\ Once(free, busy, use)
  BY DEF IInv, TypeOK, Placed
<1> QED
  BY <1>1, HeadTailAre DEF Once

LEMMA TakeStep ==
  ASSUME IInv, queue = "ready", free # <<>>,
         UNCHANGED <<queue, ordered, init, lib, exitState, hold, use_cnt, outs, forced, busy, newest>>,
         use' = Head(free), free' = Tail(free),
         memInit' = memInit, runOnce' \subseteq Kinds, irq' \in {"idle", "take"}, crashed' = crashed
  PROVE  IInv'
<1>1. busy \in Seq(Nodes) /\ newest \in Nodes \cup {None} /\ Fresh
  BY DEF IInv, TypeOK
<1>2. Fresh'
  BY <1>1 DEF Fresh
<1> HIDE DEF IInv
<1> QED
  BY <1>1, <1>2, TakeHead, PlaceStep

(* PutUseBusy *)
LEMMA PutUseBusyStep ==
  ASSUME IInv, queue = "ready", use # None, PutUseBusy,
         UNCHANGED <<queue, ordered, init, lib, exitState, hold, use_cnt, outs, forced,
                     memInit, runOnce, irq, crashed>>
  PROVE  IInv'
<1> DEFINE held == Only(busy, Held)
           rest == Only(busy, Nodes \ Held)
           fr == free \o rest
           bs == Append(held, use)
<1>1. /\ free \in Seq(Nodes) /\ busy \in Seq(Nodes) /\ use \in Nodes /\ Once(free, busy, use)
      /\ runOnce \subseteq Kinds /\ irq \in {"idle", "take"} /\ None \notin Nodes
  BY NodesAre DEF IInv, TypeOK, Placed
<1>2. /\ held \in Seq(Nodes) /\ Range(held) = Range(busy) \cap Held /\ IsInjective(held)
      /\ rest \in Seq(Nodes) /\ Range(rest) = Range(busy) \cap (Nodes \ Held) /\ IsInjective(rest)
  BY <1>1, OnlyMembers DEF Once
<1> HIDE DEF held, rest
<1>3. fr \in Seq(Nodes) /\ Range(fr) = Range(free) \cup Range(rest) /\ IsInjective(fr)
  BY <1>1, <1>2, ConcatIs DEF Once
<1>4. /\ bs \in Seq(Nodes) /\ Range(bs) = Range(held) \cup {use} /\ IsInjective(bs)
      /\ bs # <<>> /\ Last(bs) = use
  BY <1>1, <1>2, AppendIs DEF Once
<1>5. free' = fr /\ busy' = bs /\ use' = None /\ newest' = use
  BY DEF PutUseBusy, held, rest
<1> HIDE DEF fr, bs
<1>6. Once(fr, bs, None)
  <2>1. Range(fr) \subseteq Nodes /\ Range(bs) \subseteq Nodes
    BY <1>3, <1>4, MembersAre
  <2> QED
    BY <1>1, <1>2, <1>3, <1>4, <2>1 DEF Once
<1>7. \A n \in Range(held) : hold[n] # 0 /\ n \in Nodes
  BY <1>2 DEF Held
<1>8. Fresh'
  <2>1. newest' # None /\ busy' # <<>> /\ Last(busy') = newest'
    BY <1>1, <1>4, <1>5
  <2>2. ASSUME ~forced, NEW n \in Range(busy'), n # newest' PROVE outs'[n] > 0
    <3>1. hold[n] # 0 /\ n \in Nodes
      BY <1>4, <1>5, <1>7, <2>2
    <3>2. hold = outs /\ outs \in [Nodes -> Nat]
      BY <2>2 DEF IInv, Counted, TypeOK
    <3>3. outs[n] \in Nat /\ outs[n] # 0
      BY <3>1, <3>2
    <3> QED
      BY <3>3
  <2> QED
    BY <2>1, <2>2 DEF Fresh
<1>9. ASSUME ~forced, NEW n \in Nodes, outs[n] > 0, n \in Range(busy) PROVE n \in Range(bs)
  <2>1. hold[n] # 0
    BY <1>9 DEF IInv, Counted, TypeOK
  <2> QED
    BY <1>2, <1>4, <1>9, <2>1 DEF Held
<1> QED
  BY <1>1, <1>3, <1>4, <1>5, <1>6, <1>8, <1>9, PlaceStep

-----------------------------------------------------------------------------
(* One lemma per action, or per action that takes a little more.             *)

(* The steps that move no node. *)
Aside ==
  \/ BeBufInitBegin \/ BeBufInitFail
  \/ \E b \in BOOLEAN : MemInfoSet(b)
  \/ ResetCtx
  \/ \E k \in Kinds : RunOnceOff(k)
  \/ BeBufExitBegin \/ BeBufExitWake \/ BeBufExitTimeout
  \/ IrqCheck

LEMMA AsideInv ==
  ASSUME IInv, Aside
  PROVE  IInv'
<1>1. TypeOK /\ Phase /\ Setup
  BY DEF IInv
<1>2. CASE BeBufInitBegin
  <2>1. Phase'
    BY <1>1, <1>2 DEF BeBufInitBegin, Phase, lists, holds
  <2> HIDE DEF IInv
  <2> QED
    BY <1>1, <1>2, <2>1, AsideStep DEF BeBufInitBegin, TypeOK, lists, holds
<1>3. CASE BeBufInitFail
  <2>1. Phase'
    BY <1>1, <1>3 DEF BeBufInitFail, Phase, lists, holds
  <2> QED
    BY <1>1, <1>3, <2>1, AsideStep DEF BeBufInitFail, TypeOK, lists, holds
<1>4. CASE \E b \in BOOLEAN : MemInfoSet(b)
  <2>1. Phase'
    BY <1>1, <1>4 DEF MemInfoSet, Phase, lists, holds
  <2> QED
    BY <1>1, <1>4, <2>1, AsideStep DEF MemInfoSet, TypeOK, lists, holds
<1>5. CASE ResetCtx
  <2>1. Phase'
    BY <1>1, <1>5 DEF ResetCtx, Phase, lists, holds
  <2> QED
    BY <1>1, <1>5, <2>1, AsideStep DEF ResetCtx, TypeOK, lists, holds
<1>6. CASE \E k \in Kinds : RunOnceOff(k)
  <2>1. Phase'
    BY <1>1, <1>6 DEF RunOnceOff, Phase, lists, holds
  <2> QED
    BY <1>1, <1>6, <2>1, AsideStep DEF RunOnceOff, TypeOK, lists, holds
<1>7. CASE BeBufExitBegin
  <2>1. Phase'
    BY <1>1, <1>7 DEF BeBufExitBegin, TypeOK, Phase, lists, holds
  <2> QED
    BY <1>1, <1>7, <2>1, AsideStep DEF BeBufExitBegin, TypeOK, lists, holds
<1>8. CASE BeBufExitWake
  <2>1. Phase'
    BY <1>1, <1>8 DEF BeBufExitWake, Phase, lists, holds
  <2> QED
    BY <1>1, <1>8, <2>1, AsideStep DEF BeBufExitWake, TypeOK, lists, holds
<1>9. CASE BeBufExitTimeout
  <2>1. Phase'
    BY <1>1, <1>9 DEF BeBufExitTimeout, Phase, lists, holds
  <2> QED
    BY <1>1, <1>9, <2>1, AsideStep DEF BeBufExitTimeout, TypeOK, lists, holds
<1>10. CASE IrqCheck
  <2>1. Phase'
    BY <1>1, <1>10 DEF IrqCheck, Phase, lists, holds
  <2> QED
    BY <1>1, <1>10, <2>1, AsideStep DEF IrqCheck, TypeOK, lists, holds
<1> QED
  BY <1>2, <1>3, <1>4, <1>5, <1>6, <1>7, <1>8, <1>9, <1>10 DEF Aside

(* The queue is made, ...                                                    *)
LEMMA InitCreateInv ==
  ASSUME IInv, BeBufInitCreate
  PROVE  IInv'
<1>1. TypeOK /\ Phase /\ Counted /\ Fresh /\ lib = "create"
  BY DEF IInv, BeBufInitCreate
<1>2. free' = AllNodes /\ busy' = <<>> /\ queue' = "created" /\ lib' = "setup"
  BY DEF BeBufInitCreate, AllNodes
<1>3. UNCHANGED <<ordered, init, use, hold, use_cnt, outs, forced, exitState, memInit, runOnce, irq, crashed, newest>>
  BY DEF BeBufInitCreate, holds
<1>4. queue = "none" /\ busy = <<>> /\ exitState = "EXIT" /\ init
  BY <1>1 DEF Phase
<1>5. TypeOK'
  <2>1. free' \in Seq(Nodes) /\ busy' \in Seq(Nodes)
    BY <1>2, NodesAre, NoMembers
  <2> QED
    BY <1>1, <1>2, <1>3, <2>1 DEF TypeOK
<1>6. Phase' /\ Setup' /\ Placed'
  BY <1>2, <1>3, <1>4 DEF Phase, Setup, Placed
<1>7. Counted' /\ Fresh'
  BY <1>1, <1>2, <1>3, <1>4 DEF Counted, Fresh
<1> QED
  BY <1>5, <1>6, <1>7 DEF IInv

(* ... and its nodes get their addresses.                                    *)
LEMMA InitFinishInv ==
  ASSUME IInv, BeBufInitFinish
  PROVE  IInv'
<1>1. TypeOK /\ Phase /\ Setup /\ Counted /\ lib = "setup"
  BY DEF IInv, BeBufInitFinish
<1>2. /\ UNCHANGED <<ordered, init, busy, use_cnt, outs, forced, memInit, runOnce, irq, crashed>>
      /\ queue' = "ready" /\ use' = None /\ exitState' = "READY" /\ lib' = "idle" /\ newest' = None
      /\ free' = IF Len(free) = NodeNum THEN free ELSE Append(Tail(free), Head(free))
      /\ hold' = [n \in Nodes |-> IF n \in Range(free) THEN 0 ELSE hold[n]]
  BY DEF BeBufInitFinish
<1>3. queue = "created" /\ busy = <<>> /\ init
  BY <1>1 DEF Phase
<1>4. free' \in Seq(Nodes) /\ IsInjective(free')
  <2>1. CASE free = AllNodes
    BY <1>2, <2>1, NodesAre
  <2>2. CASE free = Tail(AllNodes)
    <3>1. free \in Seq(Nodes) /\ free # <<>> /\ Len(free) # NodeNum /\ IsInjective(free)
      BY <2>2, NodesAre, HeadTailAre
    <3>2. /\ Tail(free) \in Seq(Nodes) /\ Head(free) \in Nodes
          /\ IsInjective(Tail(free)) /\ Head(free) \notin Range(Tail(free))
      BY <3>1, HeadTailAre
    <3>3. free' = Append(Tail(free), Head(free))
      BY <1>2, <3>1
    <3> QED
      BY <3>2, <3>3, AppendIs
  <2> QED
    BY <1>1, <2>1, <2>2 DEF Setup
<1>5. hold' \in [Nodes -> Nat]
  BY <1>1, <1>2 DEF TypeOK
<1>6. TypeOK'
  BY <1>1, <1>2, <1>4, <1>5 DEF TypeOK
<1>7. Phase' /\ Setup'
  BY <1>2, <1>3 DEF Phase, Setup
<1>8. Placed'
  <2>1. Range(free') \subseteq Nodes
    BY <1>4, MembersAre
  <2> QED
    BY <1>2, <1>3, <1>4, <2>1, NodesAre, NoMembers DEF Placed, Once
<1>9. Counted'
  <2> SUFFICES ASSUME ~forced PROVE Counted'
    BY <1>2 DEF Counted
  <2>1. hold = outs /\ use_cnt = Total(outs) /\ outs \in [Nodes -> Nat]
        /\ \A n \in Nodes : ~(outs[n] > 0)
    BY <1>1, <1>3 DEF Counted, TypeOK
  <2>2. \A n \in Nodes : outs[n] = 0
    BY <2>1
  <2>3. hold' = outs'
    BY <1>2, <2>1, <2>2
  <2> QED
    BY <1>2, <2>1, <2>2, <2>3 DEF Counted
<1>10. Fresh'
  BY <1>2, <1>3, NoMembers DEF Fresh
<1> QED
  BY <1>6, <1>7, <1>8, <1>9, <1>10 DEF IInv

LEMMA GetFirstInv ==
  ASSUME IInv, GetBeBufFirst
  PROVE  IInv'
<1>1. /\ UNCHANGED <<queue, ordered, init, lib, exitState, hold, use_cnt, outs, forced, busy, newest,
                      memInit, runOnce, irq, crashed>>
      /\ use' = Head(free) /\ free' = Tail(free) /\ free # <<>> /\ lib = "idle" /\ init
  BY DEF GetBeBufFirst, holds
<1>2. queue = "ready" /\ runOnce' \subseteq Kinds /\ irq' \in {"idle", "take"}
  BY <1>1 DEF IInv, Phase, TypeOK
<1> QED
  BY <1>1, <1>2, TakeStep

(* AllBeBufInit: with ordered callers the busy list was empty.               *)
LEMMA AllInitInv ==
  ASSUME IInv, AllBeBufInit
  PROVE  IInv'
<1>1. /\ UNCHANGED <<queue, ordered, init, lib, exitState, hold, use_cnt, outs, forced, free,
                      memInit, runOnce, irq, crashed>>
      /\ use' = None /\ busy' = Append(busy, use) /\ newest' = use /\ use # None
      /\ lib = "idle" /\ init /\ (ordered => busy = <<>>)
  BY DEF AllBeBufInit, holds
<1>2. queue = "ready" /\ runOnce' \subseteq Kinds /\ irq' \in {"idle", "take"}
  BY <1>1 DEF IInv, Phase, TypeOK
<1>3. free \in Seq(Nodes) /\ busy \in Seq(Nodes) /\ use \in Nodes /\ Once(free, busy, use)
  BY <1>1, <1>2 DEF IInv, TypeOK, Placed
<1> DEFINE bs == Append(busy, use)
<1>4. /\ bs \in Seq(Nodes) /\ Range(bs) = Range(busy) \cup {use} /\ IsInjective(bs)
      /\ bs # <<>> /\ Last(bs) = use
  BY <1>3, AppendIs DEF Once
<1>a. busy' = bs
  BY <1>1
<1> HIDE DEF bs
<1>5. Once(free, bs, None)
  <2>1. Range(free) \subseteq Nodes /\ Range(busy) \subseteq Nodes
    BY <1>3, MembersAre
  <2> QED
    BY <1>3, <1>4, <2>1, NodesAre DEF Once
<1>6. Fresh'
  <2>1. newest' # None /\ busy' # <<>> /\ Last(busy') = newest'
    BY <1>1, <1>3, <1>4, <1>a, NodesAre
  <2>2. ordered => \A n \in Range(busy') : n = newest'
    BY <1>1, <1>4, <1>a, NoMembers
  <2> QED
    BY <1>1, <2>1, <2>2 DEF Fresh
<1> QED
  BY <1>1, <1>2, <1>3, <1>4, <1>a, <1>5, <1>6, PlaceStep

LEMMA PutBusyInv ==
  ASSUME IInv, BeBufCtl \/ \E k \in Kinds : RunOnceProcess(k) /\ queue # "none"
  PROVE  IInv'
<1>1. /\ UNCHANGED <<queue, ordered, init, lib, exitState, hold, use_cnt, outs, forced,
                      memInit, runOnce, irq, crashed>>
      /\ use # None /\ PutUseBusy /\ lib = "idle" /\ (init \/ queue # "none")
  BY DEF BeBufCtl, RunOnceProcess, holds
<1>2. queue = "ready"
  BY <1>1 DEF IInv, Phase, TypeOK
<1> QED
  BY <1>1, <1>2, PutUseBusyStep

(* GetBeLastBuf: all nodes are free, the last of them is in use if none was. *)
LEMMA GetLastInv ==
  ASSUME IInv, GetBeLastBuf
  PROVE  IInv'
<1> DEFINE all == free \o busy
<1>1. /\ UNCHANGED <<ordered, init, queue, use_cnt, outs, exitState, memInit, runOnce, lib, irq, crashed>>
      /\ hold' = [n \in Nodes |-> IF n \in Range(busy) THEN 0 ELSE hold[n]]
      /\ forced' = (forced \/ \E n \in Range(busy) : hold[n] > 0)
      /\ busy' = <<>> /\ newest' = None /\ lib = "idle" /\ init
      /\ IF use = None /\ all # <<>>
           THEN use' = Last(all) /\ free' = Front(all)
           ELSE use' = use /\ free' = all
  BY DEF GetBeLastBuf
<1>2. TypeOK /\ Phase /\ Counted /\ queue = "ready"
  BY <1>1 DEF IInv, Phase, TypeOK
<1>3. free \in Seq(Nodes) /\ busy \in Seq(Nodes) /\ Once(free, busy, use)
  BY <1>2 DEF IInv, TypeOK, Placed
<1>4. all \in Seq(Nodes) /\ IsInjective(all) /\ Range(all) = Range(free) \cup Range(busy)
  BY <1>3, ConcatIs DEF Once
<1> HIDE DEF all
<1>5. free' \in Seq(Nodes) /\ IsInjective(free') /\ use' \in Nodes \cup {None} /\ use' \notin Range(free')
  <2>1. CASE use = None /\ all # <<>>
    BY <1>1, <1>4, <2>1, FrontIs
  <2>2. CASE ~(use = None /\ all # <<>>)
    BY <1>1, <1>2, <1>3, <1>4, <2>2 DEF Once, TypeOK
  <2> QED
    BY <2>1, <2>2
<1>6. TypeOK'
  <2>1. hold' \in [Nodes -> Nat] /\ forced' \in BOOLEAN
    BY <1>1, <1>2 DEF TypeOK
  <2> QED
    BY <1>1, <1>2, <1>5, <2>1, NoMembers DEF TypeOK
<1>7. Phase' /\ Setup'
  BY <1>1, <1>2 DEF Phase, Setup
<1>8. Placed'
  BY <1>1, <1>5, NoMembers DEF Placed, Once
<1>9. Counted'
  <2> SUFFICES ASSUME ~forced' PROVE Counted'
    BY DEF Counted
  <2>1. hold = outs /\ use_cnt = Total(outs) /\ \A n \in Nodes : outs[n] > 0 => n \in Range(busy)
    BY <1>1, <1>2 DEF Counted
  <2>2. \A n \in Nodes : n \in Range(busy) => ~(outs[n] > 0)
    BY <1>1, <2>1
  <2>3. outs \in [Nodes -> Nat]
    BY <1>2 DEF TypeOK
  <2>4. \A n \in Nodes : outs[n] = 0
    BY <2>1, <2>2, <2>3
  <2>5. hold' = outs'
    BY <1>1, <2>1, <2>3, <2>4
  <2> QED
    BY <1>1, <2>1, <2>4, <2>5 DEF Counted
<1>10. Fresh'
  BY <1>1, NoMembers DEF Fresh
<1> QED
  BY <1>6, <1>7, <1>8, <1>9, <1>10 DEF IInv

(* The run-once flags, also where there is no queue.                         *)
LEMMA RunOnceInv ==
  ASSUME IInv, NEW k \in Kinds, RunOnceOn(k) \/ RunOnceProcess(k)
  PROVE  IInv'
<1>1. CASE queue = "none"
  <2>1. /\ UNCHANGED <<ordered, queue, free, busy, use, hold, use_cnt, outs, forced, newest,
                        init, exitState, memInit, runOnce, lib, irq>>
        /\ crashed' = "runonce" /\ lib = "idle"
    BY <1>1 DEF RunOnceOn, RunOnceProcess, holds
  <2>2. Phase'
    BY <2>1 DEF IInv, Phase
  <2>3. TypeOK
    BY DEF IInv
  <2> QED
    BY <2>1, <2>2, <2>3, AsideStep DEF TypeOK
<1>2. CASE queue # "none" /\ RunOnceOn(k)
  <2>1. /\ UNCHANGED <<queue, ordered, init, lib, exitState, hold, use_cnt, outs, forced, busy, newest,
                        memInit, irq, crashed>>
        /\ use' = Head(free) /\ free' = Tail(free) /\ free # <<>> /\ lib = "idle"
        /\ runOnce' = runOnce \cup {k}
    BY <1>2 DEF RunOnceOn, holds
  <2>2. queue = "ready" /\ runOnce' \subseteq Kinds /\ irq' \in {"idle", "take"}
    BY <1>2, <2>1 DEF IInv, Phase, TypeOK
  <2> QED
    BY <2>1, <2>2, TakeStep
<1>3. CASE queue # "none" /\ RunOnceProcess(k)
  BY <1>3, PutBusyInv
<1> QED
  BY <1>1, <1>2, <1>3

LEMMA DestroyInv ==
  ASSUME IInv, BeBufExitDestroy
  PROVE  IInv'
<1>1. /\ UNCHANGED <<ordered, use, hold, use_cnt, outs, forced, memInit, runOnce, irq, crashed>>
      /\ queue' = "none" /\ free' = <<>> /\ busy' = <<>> /\ init' = FALSE
      /\ exitState' = "EXIT" /\ lib' = "idle" /\ newest' = None /\ lib = "destroy"
  BY DEF BeBufExitDestroy, holds
<1>2. TypeOK /\ Counted
  BY DEF IInv
<1>3. TypeOK'
  BY <1>1, <1>2, NoMembers DEF TypeOK
<1>4. Phase' /\ Setup' /\ Placed'
  BY <1>1 DEF Phase, Setup, Placed
<1>5. Counted'
  <2> SUFFICES ASSUME ~forced PROVE Counted'
    BY <1>1 DEF Counted
  <2>1. hold = outs /\ use_cnt = Total(outs) /\ use_cnt = 0 /\ outs \in [Nodes -> Nat]
    BY <1>1, <1>2 DEF Counted, TypeOK
  <2>2. \A n \in Nodes : ~(outs[n] > 0)
    <3>1. \A n \in Nodes : outs[n] <= 0 /\ outs[n] \in Nat
      BY <2>1, SumBounds
    <3> QED
      BY <3>1
  <2> QED
    BY <1>1, <2>1, <2>2 DEF Counted
<1>6. Fresh'
  BY <1>1, NoMembers DEF Fresh
<1> QED
  BY <1>3, <1>4, <1>5, <1>6 DEF IInv

(* The interrupt thread takes a node, perhaps from a queue that is not ready *)
(* yet, or there is none.                                                    *)
LEMMA IrqTakeInv ==
  ASSUME IInv, IrqTake
  PROVE  IInv'
<1>1. /\ UNCHANGED <<ordered, init, queue, busy, hold, use_cnt, outs, forced, exitState,
                      memInit, runOnce, lib, newest>>
      /\ irq = "take" /\ irq' = "idle"
  BY DEF IrqTake, holds
<1>2. TypeOK /\ Phase /\ Setup
  BY DEF IInv
<1>3. CASE queue = "none"
  <2>1. UNCHANGED <<free, use>> /\ crashed' = "irq"
    BY <1>3 DEF IrqTake
  <2>2. Phase'
    BY <1>1, <1>2, <2>1 DEF Phase
  <2> QED
    BY <1>1, <1>2, <2>1, <2>2, AsideStep DEF TypeOK
<1>4. CASE queue = "ready" /\ free # <<>>
  <2>1. use' = Head(free) /\ free' = Tail(free) /\ crashed' = crashed
    BY <1>4 DEF IrqTake
  <2> QED
    BY <1>1, <1>2, <1>4, <2>1, TakeStep DEF TypeOK
<1>5. CASE queue = "ready" /\ free = <<>>
  <2>1. use' = None /\ free' = free /\ crashed' = crashed
    BY <1>5 DEF IrqTake
  <2>2. Once(free, busy, use) /\ free \in Seq(Nodes) /\ busy \in Seq(Nodes) /\ Fresh
    BY <1>5 DEF IInv, Placed, TypeOK
  <2>3. Once(free, busy, None)
    <3>1. Range(free) \subseteq Nodes /\ Range(busy) \subseteq Nodes
      BY <2>2, MembersAre
    <3> QED
      BY <2>2, <3>1, NodesAre DEF Once
  <2>4. Fresh'
    BY <1>1, <2>2 DEF Fresh
  <2>5. runOnce' \subseteq Kinds /\ newest' \in Nodes \cup {None}
    BY <1>1, <1>2 DEF TypeOK
  <2> QED
    BY <1>1, <1>5, <2>1, <2>2, <2>3, <2>4, <2>5, PlaceStep
<1>6. CASE queue = "created"
  <2>1. lib = "setup" /\ free = AllNodes
    BY <1>1, <1>2, <1>6 DEF Phase, Setup
  <2>2. free # <<>>
    BY <2>1, NodesAre
  <2>3. use' = Head(free) /\ free' = Tail(free) /\ crashed' = crashed
    BY <1>6, <2>2 DEF IrqTake
  <2>4. use' \in Nodes /\ use' # None /\ free' \in Seq(Nodes) /\ free' = Tail(AllNodes)
    BY <2>1, <2>2, <2>3, NodesAre, HeadTailAre
  <2>5. TypeOK'
    BY <1>1, <1>2, <2>3, <2>4 DEF TypeOK
  <2>6. Phase' /\ Setup' /\ Placed'
    BY <1>1, <1>2, <1>6, <2>4 DEF Phase, Setup, Placed
  <2>7. Counted' /\ Fresh'
    BY <1>1 DEF IInv, Counted, Fresh
  <2> QED
    BY <2>5, <2>6, <2>7 DEF IInv
<1> QED
  BY <1>2, <1>3, <1>4, <1>5, <1>6 DEF TypeOK

(* What a client does to the lists and counts, as types.                     *)
LEMMA ClientTypes ==
  ASSUME TypeOK, free' \in Seq(Nodes), busy' \in Seq(Nodes),
         hold' \in [Nodes -> Nat], outs' \in [Nodes -> Nat], use_cnt' \in Nat,
         UNCHANGED <<ordered, init, queue, use, exitState, memInit, runOnce, lib, irq, crashed, forced, newest>>
  PROVE  TypeOK'
  BY DEF TypeOK

(* A reference more on a busy node.                                          *)
LEMMA HoldStep ==
  ASSUME IInv, queue = "ready", NEW n \in Nodes, n \in Range(busy), lib # "destroy",
         UNCHANGED <<ordered, init, queue, free, busy, use, exitState, memInit, runOnce, lib, irq, crashed, forced, newest>>,
         hold' = [hold EXCEPT ![n] = @ + 1], outs' = [outs EXCEPT ![n] = @ + 1],
         use_cnt' = use_cnt + 1
  PROVE  IInv'
<1>1. TypeOK /\ Phase /\ Counted /\ Fresh /\ outs \in [Nodes -> Nat] /\ hold \in [Nodes -> Nat]
      /\ outs[n] \in Nat /\ use_cnt \in Nat
  BY DEF IInv, TypeOK
<1>2. outs' \in [Nodes -> Nat] /\ hold' \in [Nodes -> Nat] /\ use_cnt' \in Nat
  BY <1>1
<1>3. TypeOK'
  BY <1>1, <1>2 DEF TypeOK
<1>4. Phase' /\ Setup' /\ Placed'
  BY DEF IInv, Phase, Setup, Placed
<1>5. outs'[n] > 0 /\ \A m \in Nodes \ {n} : outs'[m] = outs[m]
  BY <1>1
<1>6. Counted'
  <2> SUFFICES ASSUME ~forced PROVE Counted'
    BY DEF Counted
  <2>1. hold = outs /\ use_cnt = Total(outs) /\ \A m \in Nodes : outs[m] > 0 => m \in Range(busy)
    BY <1>1 DEF Counted
  <2>2. outs' \in [Nodes -> Nat] /\ outs'[n] = outs[n] + 1
    BY <1>1, <1>2
  <2>3. use_cnt' = Total(outs')
    <3>1. Total(outs') = Total(outs) + 1
      BY <1>1, <1>5, <2>2, TotalUp
    <3> QED
      BY <2>1, <3>1
  <2>4. hold' = outs'
    BY <2>1
  <2>5. \A m \in Nodes : outs'[m] > 0 => m \in Range(busy)
    BY <1>5, <2>1
  <2> QED
    BY <2>3, <2>4, <2>5 DEF Counted
<1>7. Fresh'
  <2>1. \A m \in Range(busy) : outs[m] > 0 => outs'[m] > 0
    <3>1. Range(busy) \subseteq Nodes
      BY <1>1, MembersAre DEF TypeOK
    <3> QED
      BY <1>5, <3>1
  <2> QED
    BY <1>1, <2>1 DEF Fresh
<1> QED
  BY <1>3, <1>4, <1>6, <1>7 DEF IInv

LEMMA GetReadyInv ==
  ASSUME IInv, GetReadyBeBuf
  PROVE  IInv'
<1> DEFINE n == Last(busy)
<1>1. /\ UNCHANGED <<ordered, init, queue, free, busy, use, exitState, memInit, runOnce, lib, irq, crashed, forced, newest>>
      /\ exitState = "READY" /\ busy # <<>>
      /\ hold' = [hold EXCEPT ![n] = @ + 1] /\ outs' = [outs EXCEPT ![n] = @ + 1]
      /\ use_cnt' = use_cnt + 1
  BY DEF GetReadyBeBuf, lists
<1>2. queue = "ready" /\ lib # "destroy" /\ busy \in Seq(Nodes)
  BY <1>1 DEF IInv, Phase, TypeOK
<1>3. n \in Nodes /\ n \in Range(busy)
  BY <1>1, <1>2, FrontIs
<1> HIDE DEF n
<1> QED
  BY <1>1, <1>2, <1>3, HoldStep

(* HoldBusyBeBuf succeeds without a count only for a node taken away.        *)
LEMMA HoldBusyInv ==
  ASSUME IInv, NEW n \in Nodes, HoldBusyBeBuf(n)
  PROVE  IInv'
<1>1. /\ UNCHANGED <<ordered, init, queue, free, busy, use, exitState, memInit, runOnce, lib, irq, crashed, forced, newest>>
      /\ exitState = "READY" /\ outs[n] > 0 /\ outs' = [outs EXCEPT ![n] = @ + 1]
      /\ IF n \in Range(busy)
           THEN hold' = [hold EXCEPT ![n] = @ + 1] /\ use_cnt' = use_cnt + 1
           ELSE UNCHANGED <<hold, use_cnt>>
  BY DEF HoldBusyBeBuf, lists
<1>2. queue = "ready" /\ lib # "destroy"
  BY <1>1 DEF IInv, Phase
<1>3. CASE n \in Range(busy)
  BY <1>1, <1>2, <1>3, HoldStep
<1>4. CASE n \notin Range(busy)
  <2>1. forced /\ forced'
    BY <1>1, <1>4 DEF IInv, Counted
  <2>2. TypeOK /\ outs \in [Nodes -> Nat]
    BY DEF IInv, TypeOK
  <2>3. TypeOK'
    <3>1. outs' \in [Nodes -> Nat]
      BY <1>1, <2>2
    <3> QED
      BY <1>1, <1>4, <2>2, <3>1 DEF TypeOK
  <2>4. Phase' /\ Setup' /\ Placed'
    BY <1>1 DEF IInv, Phase, Setup, Placed
  <2>5. Counted' /\ Fresh'
    BY <1>1, <2>1 DEF IInv, Counted, Fresh
  <2> QED
    BY <2>3, <2>4, <2>5 DEF IInv
<1> QED
  BY <1>3, <1>4

(* A node that leaves the busy list is not the only one there; and while the *)
(* clients keep the order and what they hold is theirs, not the newest one.  *)
LEMMA FreedIs ==
  ASSUME IInv, queue = "ready", NEW n \in Nodes, n \in Range(busy), Len(busy) > 1
  PROVE  /\ Once(Append(free, n), Only(busy, Nodes \ {n}), use)
         /\ Append(free, n) \in Seq(Nodes) /\ Only(busy, Nodes \ {n}) \in Seq(Nodes)
         /\ Range(Append(free, n)) = Range(free) \cup {n}
         /\ Range(Only(busy, Nodes \ {n})) = Range(busy) \ {n}
         /\ Only(busy, Nodes \ {n}) # <<>>
         /\ n # Last(busy) => Last(Only(busy, Nodes \ {n})) = Last(busy)
         /\ n = Last(busy) => busy[1] # n /\ busy[1] \in Range(busy) /\ busy[Len(busy)] = n
<1>1. free \in Seq(Nodes) /\ busy \in Seq(Nodes) /\ Once(free, busy, use) /\ Range(busy) \subseteq Nodes
  <2>1. free \in Seq(Nodes) /\ busy \in Seq(Nodes) /\ Once(free, busy, use)
    BY DEF IInv, TypeOK, Placed
  <2> QED
    BY <2>1, MembersAre
<1> DEFINE o == Only(busy, Nodes \ {n})
           a == Append(free, n)
<1>2. /\ o \in Seq(Nodes) /\ Range(o) = Range(busy) \cap (Nodes \ {n}) /\ IsInjective(o)
      /\ busy # <<>> /\ Last(busy) \in Nodes \ {n} => o # <<>> /\ Last(o) = Last(busy)
  BY <1>1, OnlyMembers DEF Once
<1>3. a \in Seq(Nodes) /\ Range(a) = Range(free) \cup {n} /\ IsInjective(a)
  BY <1>1, AppendIs DEF Once
<1> HIDE DEF o, a
<1>4. Range(o) = Range(busy) \ {n}
  BY <1>1, <1>2
<1>5. Once(a, o, use)
  BY <1>1, <1>2, <1>3, <1>4 DEF Once
<1>6. 1 \in 1 .. Len(busy) /\ Len(busy) \in 1 .. Len(busy) /\ DOMAIN busy = 1 .. Len(busy)
      /\ 1 # Len(busy) /\ busy # <<>>
  <2>1. Len(busy) \in Nat /\ DOMAIN busy = 1 .. Len(busy)
    BY <1>1
  <2>2. busy # <<>>
    BY NoMembers
  <2> QED
    BY <2>1, <2>2
<1>7. busy[1] # busy[Len(busy)] /\ busy[1] \in Range(busy) /\ busy[Len(busy)] \in Range(busy)
  BY <1>1, <1>6 DEF Once, IsInjective, Range
<1>8. o # <<>>
  <2>1. Range(o) # {}
    BY <1>4, <1>7
  <2> QED
    BY <2>1, NoMembers
<1> QED
  BY <1>1, <1>2, <1>3, <1>4, <1>5, <1>6, <1>7, <1>8 DEF a, o, Last

(* PutFreeBeBuf, whatever the exit is doing.                                 *)
LEMMA PutFreeInv ==
  ASSUME IInv, NEW n \in Nodes, PutFreeBeBuf(n)
  PROVE  IInv'
<1> DEFINE left == IF hold[n] > 0 THEN hold[n] - 1 ELSE 0
<1>1. /\ UNCHANGED <<ordered, init, queue, use, exitState, memInit, runOnce, lib, irq, crashed, forced, newest>>
      /\ outs[n] > 0 /\ outs' = [outs EXCEPT ![n] = @ - 1]
      /\ ordered => \A i, j \in DOMAIN busy : busy[j] = n /\ i < j => outs[busy[i]] = 0
  BY DEF PutFreeBeBuf
<1>2. TypeOK /\ Phase /\ Counted /\ Fresh /\ outs \in [Nodes -> Nat] /\ hold \in [Nodes -> Nat]
      /\ outs[n] \in Nat /\ hold[n] \in Nat /\ use_cnt \in Nat
      /\ free \in Seq(Nodes) /\ busy \in Seq(Nodes)
  BY DEF IInv, TypeOK
<1>3. outs' \in [Nodes -> Nat] /\ outs'[n] = outs[n] - 1 /\ \A m \in Nodes \ {n} : outs'[m] = outs[m]
  BY <1>1, <1>2
<1>6. Total(outs) > 0 /\ Total(outs') = Total(outs) - 1
  <2>1. outs \in [Nodes -> Nat] /\ outs' \in [Nodes -> Nat] /\ outs[n] > 0
    BY <1>1, <1>2, <1>3
  <2> QED
    BY <1>3, <2>1, TotalDown
<1>4. CASE exitState = "EXIT"
  <2>1. UNCHANGED <<hold, use_cnt, free, busy>>
    BY <1>4 DEF PutFreeBeBuf
  <2>2. forced
    BY <1>1, <1>2, <1>4 DEF Phase, Counted
  <2>3. TypeOK'
    BY <1>1, <1>2, <1>3, <2>1 DEF TypeOK
  <2>4. Phase' /\ Setup' /\ Placed'
    BY <1>1, <2>1 DEF IInv, Phase, Setup, Placed
  <2>5. Counted' /\ Fresh'
    BY <1>1, <1>2, <2>1, <2>2 DEF Counted, Fresh
  <2> QED
    BY <2>3, <2>4, <2>5 DEF IInv
<1>5. CASE exitState # "EXIT"
  <2>1. /\ queue = "ready"
        /\ use_cnt' = IF use_cnt > 0 THEN use_cnt - 1 ELSE 0
        /\ IF n \notin Range(busy) THEN UNCHANGED <<hold, free, busy>>
           ELSE /\ hold' = [hold EXCEPT ![n] = left]
                /\ IF left = 0 /\ Len(busy) > 1
                     THEN busy' = Only(busy, Nodes \ {n}) /\ free' = Append(free, n)
                     ELSE UNCHANGED <<free, busy>>
    BY <1>2, <1>5 DEF PutFreeBeBuf, Phase
  <2>2. left \in Nat /\ use_cnt' \in Nat
    BY <1>2, <2>1
  <2>b. UNCHANGED <<ordered, init, queue, use, exitState, memInit, runOnce, lib, irq, crashed, forced, newest>>
    BY <1>1
  <2>a. TypeOK /\ outs' \in [Nodes -> Nat] /\ use_cnt' \in Nat
    BY <1>2, <1>3, <2>2
  <2> DEFINE moves == n \in Range(busy) /\ left = 0 /\ Len(busy) > 1
  <2>3. CASE moves
    <3>1. /\ busy' = Only(busy, Nodes \ {n}) /\ free' = Append(free, n)
          /\ hold' = [hold EXCEPT ![n] = left]
      BY <2>1, <2>3
    <3>2. /\ Once(free', busy', use)
          /\ free' \in Seq(Nodes) /\ busy' \in Seq(Nodes)
          /\ Range(busy') = Range(busy) \ {n} /\ busy' # <<>>
          /\ n # Last(busy) => Last(busy') = Last(busy)
          /\ n = Last(busy) => busy[1] # n /\ busy[1] \in Range(busy) /\ busy[Len(busy)] = n
      BY <2>1, <2>3, <3>1, FreedIs
    <3>3. TypeOK' /\ Phase' /\ Setup' /\ Placed'
      <4>1. hold' \in [Nodes -> Nat]
        BY <1>2, <2>2, <3>1
      <4>3. free' \in Seq(Nodes) /\ busy' \in Seq(Nodes)
        BY <3>2
      <4>2. TypeOK'
        BY <2>a, <2>b, <4>1, <4>3, ClientTypes
      <4> QED
        BY <1>1, <2>1, <3>2, <4>2 DEF IInv, Phase, Setup, Placed
    <3>4. Counted'
      <4> SUFFICES ASSUME ~forced PROVE Counted'
        BY <1>1 DEF Counted
      <4>1. hold = outs /\ use_cnt = Total(outs) /\ (\A m \in Nodes : outs[m] > 0 => m \in Range(busy))
            /\ (lib = "destroy" => use_cnt = 0)
        BY <1>2 DEF Counted
      <4>2. left = outs[n] - 1
        BY <1>1, <1>2, <4>1
      <4>3. hold' = outs' /\ outs'[n] = 0
        BY <1>1, <1>3, <2>3, <3>1, <4>1, <4>2
      <4>4. use_cnt' = Total(outs') /\ (lib = "destroy" => use_cnt' = 0)
        BY <1>6, <2>1, <4>1
      <4>5. \A m \in Nodes : outs'[m] > 0 => m \in Range(busy')
        <5> SUFFICES ASSUME NEW m \in Nodes, outs'[m] > 0 PROVE m \in Range(busy')
          OBVIOUS
        <5>1. m # n
          BY <4>3
        <5>2. outs[m] > 0
          BY <1>3, <5>1
        <5>3. m \in Range(busy)
          BY <4>1, <5>2
        <5> QED
          BY <3>2, <5>1, <5>3
      <4> QED
        BY <1>1, <2>1, <4>3, <4>4, <4>5 DEF Counted
    <3>5. Fresh'
      <4>1. newest' # None /\ busy' # <<>>
        <5>1. busy # <<>>
          BY <2>3, NoMembers
        <5> QED
          BY <1>1, <1>2, <3>2, <5>1 DEF Fresh
      <4>2. ASSUME ordered, ~forced PROVE n # Last(busy)
        <5> SUFFICES ASSUME n = Last(busy) PROVE FALSE
          OBVIOUS
        <5>1. Last(busy) = newest /\ \A m \in Range(busy) : m # newest => outs[m] > 0
          <6>1. busy # <<>>
            BY <2>3, NoMembers
          <6> QED
            BY <1>2, <4>2, <6>1 DEF Fresh
        <5>2. outs[busy[1]] > 0
          BY <3>2, <5>1
        <5>3. 1 \in DOMAIN busy /\ Len(busy) \in DOMAIN busy /\ 1 < Len(busy)
          BY <1>2, <2>3
        <5>4. outs[busy[1]] = 0
          BY <1>1, <3>2, <4>2, <5>3
        <5> QED
          BY <5>2, <5>4
      <4>3. ASSUME ordered, ~forced
            PROVE  Last(busy') = newest' /\ \A m \in Range(busy') : m # newest' => outs'[m] > 0
        <5>1. Last(busy) = newest /\ \A m \in Range(busy) : m # newest => outs[m] > 0
          <6>1. busy # <<>>
            BY <2>3, NoMembers
          <6> QED
            BY <1>2, <4>3, <6>1 DEF Fresh
        <5>2. Range(busy') \subseteq Nodes
          BY <3>2, MembersAre
        <5> QED
          BY <1>1, <1>3, <3>2, <4>2, <4>3, <5>1, <5>2
      <4> QED
        BY <1>1, <4>1, <4>3 DEF Fresh
    <3> QED
      BY <3>3, <3>4, <3>5 DEF IInv
  <2>4. CASE ~moves
    <3>1. /\ UNCHANGED <<free, busy>>
          /\ IF n \in Range(busy) THEN hold' = [hold EXCEPT ![n] = left] ELSE hold' = hold
      BY <2>1, <2>4
    <3>2. TypeOK' /\ Phase' /\ Setup' /\ Placed'
      <4>1. hold' \in [Nodes -> Nat]
        BY <1>2, <2>2, <3>1
      <4>3. free' \in Seq(Nodes) /\ busy' \in Seq(Nodes)
        BY <1>2, <3>1
      <4>2. TypeOK'
        BY <2>a, <2>b, <4>1, <4>3, ClientTypes
      <4> QED
        BY <1>1, <2>1, <3>1, <4>2 DEF IInv, Phase, Setup, Placed
    <3>3. Counted'
      <4> SUFFICES ASSUME ~forced PROVE Counted'
        BY <1>1 DEF Counted
      <4>1. hold = outs /\ use_cnt = Total(outs) /\ (\A m \in Nodes : outs[m] > 0 => m \in Range(busy))
            /\ (lib = "destroy" => use_cnt = 0)
        BY <1>2 DEF Counted
      <4>2. left = outs[n] - 1 /\ n \in Range(busy)
        BY <1>1, <1>2, <4>1
      <4>3. hold' = outs'
        BY <1>1, <3>1, <4>1, <4>2
      <4>4. use_cnt' = Total(outs') /\ (lib = "destroy" => use_cnt' = 0)
        BY <1>6, <2>1, <4>1
      <4>5. \A m \in Nodes : outs'[m] > 0 => m \in Range(busy')
        BY <1>3, <3>1, <4>1, <4>2
      <4> QED
        BY <1>1, <2>1, <4>3, <4>4, <4>5 DEF Counted
    <3>4. Fresh'
      <4>1. newest' = None <=> busy' = <<>>
        BY <1>1, <1>2, <3>1 DEF Fresh
      <4>2. ASSUME ordered, ~forced
            PROVE  /\ busy' # <<>> => Last(busy') = newest'
                   /\ \A m \in Range(busy') : m # newest' => outs'[m] > 0
        <5>1. /\ busy # <<>> => Last(busy) = newest
              /\ \A m \in Range(busy) : m # newest => outs[m] > 0
          BY <1>2, <4>2 DEF Fresh
        <5>2. ASSUME n \in Range(busy), n # newest PROVE outs'[n] > 0
          <6>1. hold[n] = outs[n] /\ left = outs[n] - 1
            BY <1>1, <1>2, <4>2 DEF Counted
          <6>2. Len(busy) > 1
            <7>1. PICK i \in 1 .. Len(busy) : busy[i] = n
              BY <1>2, <5>2, MembersAre
            <7>2. busy # <<>> /\ busy[Len(busy)] # n
              BY <5>1, <5>2, NoMembers DEF Last
            <7>3. i # Len(busy) /\ Len(busy) \in Nat
              BY <1>2, <7>1, <7>2
            <7> QED
              BY <7>1, <7>3
          <6>3. left # 0
            BY <2>4, <5>2, <6>2
          <6> QED
            BY <1>2, <1>3, <2>2, <6>1, <6>3
        <5>3. Range(busy) \subseteq Nodes
          BY <1>2, MembersAre
        <5> QED
          BY <1>1, <1>3, <3>1, <5>1, <5>2, <5>3
      <4> QED
        BY <1>1, <4>1, <4>2 DEF Fresh
    <3> QED
      BY <3>2, <3>3, <3>4 DEF IInv
  <2> QED
    BY <2>3, <2>4
<1> QED
  BY <1>4, <1>5

-----------------------------------------------------------------------------
LEMMA NextInv == IInv /\ [Next]_vars => IInv'
<1> SUFFICES ASSUME IInv, [Next]_vars PROVE IInv'
  OBVIOUS
<1>1. CASE Next
  <2>1. CASE Aside
    BY <2>1, AsideInv
  <2>2. CASE BeBufInitCreate
    BY <2>2, InitCreateInv
  <2>3. CASE BeBufInitFinish
    BY <2>3, InitFinishInv
  <2>4. CASE GetBeBufFirst
    BY <2>4, GetFirstInv
  <2>5. CASE AllBeBufInit
    BY <2>5, AllInitInv
  <2>6. CASE BeBufCtl
    BY <2>6, PutBusyInv
  <2>7. CASE GetBeLastBuf
    BY <2>7, GetLastInv
  <2>8. CASE \E k \in Kinds : RunOnceOn(k) \/ RunOnceProcess(k)
    BY <2>8, RunOnceInv
  <2>9. CASE BeBufExitDestroy
    BY <2>9, DestroyInv
  <2>10. CASE IrqTake
    BY <2>10, IrqTakeInv
  <2>11. CASE GetReadyBeBuf
    BY <2>11, GetReadyInv
  <2>12. CASE \E n \in Nodes : HoldBusyBeBuf(n)
    BY <2>12, HoldBusyInv
  <2>13. CASE ClientPut
    BY <2>13, PutFreeInv DEF ClientPut
  <2> QED
    BY <1>1, <2>1, <2>2, <2>3, <2>4, <2>5, <2>6, <2>7, <2>8, <2>9, <2>10, <2>11, <2>12, <2>13
       DEF Next, Aside
<1>2. CASE UNCHANGED vars
  BY <1>2 DEF vars, lists, holds, IInv, TypeOK, Phase, Setup, Placed, Counted, Fresh
<1> QED
  BY <1>1, <1>2

(* The inductive invariant, for any number of nodes and references.          *)
THEOREM Inductive == Spec => []IInv
  BY InitInv, NextInv, PTL DEF Spec

(* Every state is well typed: no count ever goes below zero.                 *)
THEOREM TypeCorrect == Spec => []TypeOK
  BY Inductive, PTL DEF IInv

(* No node is in two places, and what the clients hold is on the busy list   *)
(* until GetBeLastBuf takes it.                                              *)
THEOREM NodesStayOnce == Spec => []NodesOnce
<1>1. IInv => NodesOnce
  <2> SUFFICES ASSUME IInv PROVE NodesOnce
    OBVIOUS
  <2>1. ASSUME queue = "ready" PROVE IsInjective(free \o busy) /\ use \notin Range(free \o busy)
    <3>1. free \in Seq(Nodes) /\ busy \in Seq(Nodes) /\ Once(free, busy, use)
      BY <2>1 DEF IInv, TypeOK, Placed
    <3> QED
      BY <3>1, ConcatIs DEF Once
  <2> QED
    BY <2>1 DEF IInv, Counted, NodesOnce
<1> QED
  BY <1>1, Inductive, PTL

(* The counts are exactly what the clients have.                             *)
THEOREM HoldsStayExact == Spec => []HoldsExact
<1>1. IInv => HoldsExact
  BY DEF IInv, Counted, HoldsExact, Outs
<1> QED
  BY <1>1, Inductive, PTL

(* There is a busy node for every frame, the newest with ordered callers.    *)
THEOREM LatestStays == Spec => []LatestConfig
<1>1. IInv => LatestConfig
  BY DEF IInv, Fresh, LatestConfig
<1> QED
  BY <1>1, Inductive, PTL

-----------------------------------------------------------------------------
(* What is on the lists or in use. *)
Around == Range(free) \cup Range(busy) \cup {use}

LEMMA ListedIs ==
  ASSUME TypeOK, NEW n
  PROVE  Listed(n) <=> n \in Around
<1>1. Range(free \o busy) = Range(free) \cup Range(busy)
  BY ConcatIs DEF TypeOK
<1> QED
  BY <1>1 DEF Listed, Around

(* PutUseBusy, PutFreeBeBuf and GetBeLastBuf only move nodes.                *)
LEMMA MovesKeep ==
  ASSUME IInv, queue = "ready", NEW n \in Nodes, n \in Around,
         \/ use # None /\ PutUseBusy
         \/ GetBeLastBuf
         \/ \E m \in Nodes : PutFreeBeBuf(m)
  PROVE  n \in Around'
<1>1. free \in Seq(Nodes) /\ busy \in Seq(Nodes) /\ use \in Nodes \cup {None} /\ Once(free, busy, use)
      /\ None \notin Nodes
  BY NodesAre DEF IInv, TypeOK, Placed
<1>2. CASE use # None /\ PutUseBusy
  <2> DEFINE held == Only(busy, Held)
             rest == Only(busy, Nodes \ Held)
  <2>1. free' = free \o rest /\ busy' = Append(held, use)
    BY <1>2 DEF PutUseBusy
  <2>2. /\ held \in Seq(Nodes) /\ Range(held) = Range(busy) \cap Held
        /\ rest \in Seq(Nodes) /\ Range(rest) = Range(busy) \cap (Nodes \ Held)
    BY <1>1, OnlyMembers
  <2> HIDE DEF held, rest
  <2>3. Range(free') = Range(free) \cup Range(rest)
    BY <1>1, <2>1, <2>2, ConcatIs
  <2>4. Range(busy') = Range(held) \cup {use}
    BY <1>1, <1>2, <2>1, <2>2, AppendIs
  <2> QED
    BY <2>2, <2>3, <2>4 DEF Around
<1>3. CASE GetBeLastBuf
  <2> DEFINE all == free \o busy
  <2>1. IF use = None /\ all # <<>>
          THEN use' = Last(all) /\ free' = Front(all)
          ELSE use' = use /\ free' = all
    BY <1>3 DEF GetBeLastBuf
  <2>2. all \in Seq(Nodes) /\ IsInjective(all) /\ Range(all) = Range(free) \cup Range(busy)
    BY <1>1, ConcatIs DEF Once
  <2> HIDE DEF all
  <2>3. CASE use = None /\ all # <<>>
    <3>1. Range(free') = Range(all) \ {use'}
      BY <2>1, <2>2, <2>3, FrontIs
    <3>2. n # use
      BY <1>1, <2>3
    <3> QED
      BY <2>2, <3>1, <3>2 DEF Around
  <2>4. CASE ~(use = None /\ all # <<>>)
    BY <2>1, <2>2, <2>4 DEF Around
  <2> QED
    BY <2>3, <2>4
<1>4. CASE \E m \in Nodes : PutFreeBeBuf(m)
  <2>1. PICK m \in Nodes : PutFreeBeBuf(m)
    BY <1>4
  <2>2. use' = use
    BY <2>1 DEF PutFreeBeBuf
  <2>3. CASE UNCHANGED <<free, busy>>
    BY <2>2, <2>3 DEF Around
  <2>4. CASE ~UNCHANGED <<free, busy>>
    <3>1. m \in Range(busy) /\ Len(busy) > 1 /\ busy' = Only(busy, Nodes \ {m}) /\ free' = Append(free, m)
      BY <2>1, <2>4 DEF PutFreeBeBuf
    <3>2. Range(free') = Range(free) \cup {m} /\ Range(busy') = Range(busy) \ {m}
      BY <3>1, FreedIs
    <3> QED
      BY <2>2, <3>2 DEF Around
  <2> QED
    BY <2>3, <2>4
<1> QED
  BY <1>2, <1>3, <1>4

LEMMA OnlyOverwrites ==
  ASSUME IInv, Next, queue = "ready", queue' = "ready",
         NEW n \in Nodes, n \in Around, n \notin Around'
  PROVE  n = use /\ (IrqTake \/ GetBeBufFirst)
<1>1. free \in Seq(Nodes) /\ busy \in Seq(Nodes) /\ use \in Nodes \cup {None} /\ Once(free, busy, use)
      /\ None \notin Nodes
  BY NodesAre DEF IInv, TypeOK, Placed
<1>2. ~UNCHANGED <<free, busy, use>>
  BY DEF Around
<1>3. ASSUME free # <<>>, use' = Head(free), free' = Tail(free), busy' = busy PROVE n = use
  <2>1. Range(free') = Range(free) \ {use'}
    BY <1>1, <1>3, HeadTailAre DEF Once
  <2> QED
    BY <1>3, <2>1 DEF Around
<1>4. CASE GetBeBufFirst
  BY <1>3, <1>4 DEF GetBeBufFirst
<1>5. CASE IrqTake
  <2>1. busy' = busy
    BY <1>5 DEF IrqTake
  <2>2. CASE free = <<>>
    <3>1. free' = free
      BY <1>5, <2>2 DEF IrqTake
    <3> QED
      BY <1>5, <2>1, <3>1 DEF Around
  <2>3. CASE free # <<>>
    <3>1. use' = Head(free) /\ free' = Tail(free)
      BY <1>5, <2>3 DEF IrqTake
    <3> QED
      BY <1>3, <1>5, <2>1, <2>3, <3>1
  <2> QED
    BY <2>2, <2>3
<1>6. CASE \E k \in Kinds : RunOnceOn(k)
  <2>1. use = None /\ free # <<>> /\ use' = Head(free) /\ free' = Tail(free) /\ busy' = busy
    BY <1>6 DEF RunOnceOn
  <2>2. n = None
    BY <1>3, <2>1
  <2> QED
    BY <1>1, <2>2
<1>7. CASE AllBeBufInit
  <2>1. busy' = Append(busy, use) /\ free' = free /\ use # None
    BY <1>7 DEF AllBeBufInit
  <2>2. Range(busy') = Range(busy) \cup {use}
    BY <1>1, <2>1, AppendIs
  <2> QED
    BY <2>1, <2>2 DEF Around
<1>8. CASE BeBufCtl \/ (\E k \in Kinds : RunOnceProcess(k)) \/ GetBeLastBuf \/ ClientPut
  <2>1. (use # None /\ PutUseBusy) \/ GetBeLastBuf \/ \E m \in Nodes : PutFreeBeBuf(m)
    BY <1>8 DEF BeBufCtl, RunOnceProcess, ClientPut
  <2> QED
    BY <2>1, MovesKeep
<1>9. CASE BeBufInitCreate \/ BeBufInitFinish \/ BeBufExitDestroy
  BY <1>9 DEF BeBufInitCreate, BeBufInitFinish, BeBufExitDestroy, IInv, Phase
<1>10. CASE Aside \/ GetReadyBeBuf \/ \E m \in Nodes : HoldBusyBeBuf(m)
  BY <1>2, <1>10 DEF Aside, BeBufInitBegin, BeBufInitFail, MemInfoSet, ResetCtx, RunOnceOff,
     BeBufExitBegin, BeBufExitWake, BeBufExitTimeout, IrqCheck, GetReadyBeBuf, HoldBusyBeBuf, lists
<1> QED
  BY <1>4, <1>5, <1>6, <1>7, <1>8, <1>9, <1>10 DEF Next, Aside

(* A node leaves the pipe only when pstUseNode is overwritten, by the        *)
(* interrupt thread or GetBeBufFirst.                                        *)
THEOREM LostOnlyByOverwrite == Spec => LostByOverwriteOnly
<1> DEFINE Lost == queue = "ready" /\ queue' = "ready" =>
              \A n \in Nodes : Listed(n) /\ ~Listed(n)' => n = use /\ (IrqTake \/ GetBeBufFirst)
<1>1. IInv /\ IInv' /\ [Next]_vars => [Lost]_vars
  <2> SUFFICES ASSUME IInv, IInv', Next, queue = "ready", queue' = "ready",
                      NEW n \in Nodes, Listed(n), ~Listed(n)'
               PROVE  n = use /\ (IrqTake \/ GetBeBufFirst)
    OBVIOUS
  <2>1. n \in Around
    BY ListedIs DEF IInv
  <2>2. Listed(n)' <=> n \in Around'
    <3>1. TypeOK'
      BY DEF IInv
    <3>2. free' \in Seq(Nodes) /\ busy' \in Seq(Nodes)
      BY <3>1 DEF TypeOK
    <3>3. Range(free' \o busy') = Range(free') \cup Range(busy')
      BY <3>2, ConcatIs
    <3> QED
      BY <3>3 DEF Listed, Around
  <2> QED
    BY <2>1, <2>2, OnlyOverwrites
<1>2. Spec => [][Lost]_vars
  BY <1>1, Inductive, PTL DEF Spec
<1> QED
  BY <1>2 DEF LostByOverwriteOnly
=============================================================================
