--------------------------- MODULE BootSerialProofs ---------------------------
(***************************************************************************)
(* Proofs about BootSerial, for an image of any number of chunks, any      *)
(* numbering from two on and any number of faults.                         *)
(***************************************************************************)
EXTENDS BootSerial, TLAPS

USE BootAssumption

(***************************************************************************)
(* Sequence numbers, without the remainder.                                *)
(***************************************************************************)
Number(k) == k % SeqMod
Numbers == 0 .. SeqMod - 1

LEMMA Quotient == ASSUME NEW a \in Nat
                  PROVE  /\ Number(a) \in Numbers
                         /\ \E q \in Nat : a = SeqMod * q + Number(a)
<1>1. a % SeqMod \in 0 .. SeqMod - 1
  BY SMTT(30)
<1>2. a = SeqMod * (a \div SeqMod) + (a % SeqMod) /\ a \div SeqMod \in Nat
  BY SMTT(30)
<1> QED
  BY <1>1, <1>2, Zenon DEF Number, Numbers

LEMMA Remainder == ASSUME NEW x, NEW q \in Int, NEW r \in Numbers, x = SeqMod * q + r
                   PROVE  Number(x) = r
  BY SMTT(30) DEF Number, Numbers

LEMMA NumberNext ==
    ASSUME NEW a \in Nat
    PROVE  Number(a + 1) = IF Number(a) = SeqMod - 1 THEN 0 ELSE Number(a) + 1
<1>1. PICK q \in Nat : a = SeqMod * q + Number(a)
  BY Quotient
<1>2. Number(a) \in Numbers
  BY Quotient
<1>3. CASE Number(a) = SeqMod - 1
  <2>1. a + 1 = SeqMod * (q + 1) + 0
    BY <1>1, <1>3, SMTT(30)
  <2>2. q + 1 \in Int /\ 0 \in Numbers
    BY DEF Numbers
  <2>3. Number(a + 1) = 0
    BY <2>1, <2>2, Remainder, Zenon
  <2> QED
    BY <1>3, <2>3
<1>4. CASE Number(a) # SeqMod - 1
  <2>1. a + 1 = SeqMod * q + (Number(a) + 1)
    BY <1>1, <1>2, SMTT(30) DEF Numbers
  <2>2. q \in Int /\ Number(a) + 1 \in Numbers
    BY <1>2, <1>4 DEF Numbers
  <2>3. Number(a + 1) = Number(a) + 1
    BY <2>1, <2>2, Remainder, Zenon
  <2> QED
    BY <1>4, <2>3
<1> QED
  BY <1>3, <1>4

\* byte + 1 is the next number
LEMMA AfterIsNext == ASSUME NEW a \in Nat PROVE NumberAfter(Number(a)) = Number(a + 1)
<1>1. Number(a) \in Nat /\ Number(a) \in Numbers
  BY Quotient DEF Numbers
<1>2. CASE Number(a) = SeqMod - 1
  <2>1. NumberAfter(Number(a)) = SeqMod % SeqMod
    BY <1>2 DEF NumberAfter
  <2>2. SeqMod % SeqMod = 0
    BY SMTT(30)
  <2> QED
    BY <1>2, <2>1, <2>2, NumberNext
<1>3. CASE Number(a) # SeqMod - 1
  <2>1. Number(a) + 1 \in 0 .. SeqMod - 1
    BY <1>1, <1>3 DEF Numbers
  <2>2. \A n \in 0 .. SeqMod - 1 : n % SeqMod = n
    BY SMTT(30)
  <2>3. NumberAfter(Number(a)) = Number(a) + 1
    BY <2>1, <2>2, Zenon DEF NumberAfter
  <2> QED
    BY <1>3, <2>3, NumberNext
<1> QED
  BY <1>2, <1>3

\* the numbers since the last wrap grow with the frames
LEMMA NumberBelow ==
    ASSUME NEW a \in Nat, NEW b \in Nat, a <= b, b - a <= Number(b)
    PROVE  Number(a) = Number(b) - (b - a)
<1>1. PICK q \in Nat : b = SeqMod * q + Number(b)
  BY Quotient
<1>2. Number(b) \in Numbers
  BY Quotient
<1>3. Number(b) - (b - a) \in Numbers
  BY <1>2 DEF Numbers
<1>4. a = SeqMod * q + (Number(b) - (b - a))
  BY <1>1, <1>2, SMTT(30) DEF Numbers
<1>5. q \in Int
  OBVIOUS
<1> QED
  BY <1>3, <1>4, <1>5, Remainder, Zenon

LEMMA NumberPrev == ASSUME NEW a \in Nat \ {0}, Number(a) >= 1
                    PROVE  Number(a - 1) = Number(a) - 1
  BY NumberBelow, Quotient DEF Numbers
-----------------------------------------------------------------------------
(***************************************************************************)
(* What is on the line is the frame of the host, or what became of it.     *)
(***************************************************************************)
Carried(k) == {Frame(k)} \cup Damaged(Frame(k))

LEMMA FrameIs ==
    ASSUME NEW k \in 0 .. N + 1
    PROVE  /\ Frame(k).magic = Magic(k) /\ Frame(k).seq = Number(k)
           /\ Frame(k).chunk = (IF k \in Chunks THEN k ELSE 0) /\ Frame(k).sum = TRUE
           /\ Number(k) \in Numbers
           /\ Magic(k) = "head" <=> k = 0
           /\ Magic(k) = "data" <=> k \in Chunks
           /\ Magic(k) = "tail" <=> k = N + 1
<1>1. Number(k) \in Numbers
  BY Quotient
<1> QED
  BY <1>1 DEF Frame, Magic, Number, Chunks

LEMMA CarriedIs ==
    ASSUME NEW k \in 0 .. N + 1, NEW f \in Carried(k)
    PROVE  /\ f # NoFrame
           /\ f.seq \in Numbers /\ f.chunk \in 0 .. N /\ f.sum \in BOOLEAN
           /\ f.sum => f = Frame(k)
           /\ f = Frame(k) \/ ~f.sum
<1> DEFINE g == Frame(k)
<1>1. /\ g.magic = Magic(k) /\ g.seq = Number(k) /\ g.sum = TRUE /\ Number(k) \in Numbers
      /\ g.chunk \in 0 .. N /\ g.magic \in {"head", "data", "tail"}
  <2>1. g.chunk \in 0 .. N
    BY DEF Chunks, Frame
  <2>2. Magic(k) \in {"head", "data", "tail"}
    BY DEF Magic
  <2> QED
    BY <2>1, <2>2, FrameIs
<1>2. 0 \in 0 .. N
  OBVIOUS
<1> HIDE DEF g
<1>3. CASE f = g
  <2>1. f # NoFrame
    BY <1>1, <1>3 DEF NoFrame
  <2> QED
    BY <1>1, <1>3, <2>1 DEF g
<1>4. CASE f \in Damaged(g)
  <2>1. /\ f \in [magic : {"head", "data", "tail", "other"}, seq : 0 .. SeqMod - 1,
                   fits : BOOLEAN, type : BOOLEAN, chunk : {g.chunk, 0},
                   last : {g.last - 1, g.last, g.last + 1}, sum : {FALSE}]
    BY <1>4 DEF Damaged
  <2>2. f.magic \in {"head", "data", "tail", "other"} /\ f.seq \in Numbers /\ f.sum = FALSE
    BY <2>1 DEF Numbers
  <2>3. f.chunk \in {g.chunk, 0}
    BY <2>1
  <2>4. f # NoFrame
    BY <2>2 DEF NoFrame
  <2> QED
    BY <1>1, <1>2, <2>2, <2>3, <2>4
<1> QED
  BY <1>3, <1>4 DEF Carried, g
-----------------------------------------------------------------------------
(***************************************************************************)
(* The inductive invariant.  Of the line, who has the turn and what may be *)
(* on it; of the device, that it is at most one frame ahead, what number   *)
(* it expects, and that what it has counted is in its memory unless it is  *)
(* behind; of the program, that it was started with the image and that the *)
(* context has been clear since.                                           *)
(***************************************************************************)
DevType == [count : 0 .. N + 1, byte : Numbers, total : {0, N + 1}, left : BOOLEAN]

LineOK ==
    /\ line = NoFrame \/ line \in Carried(host.at)
    /\ line # NoFrame => host.pc = "wait" /\ answer = "none"
    /\ answer # "none" => host.pc = "wait"
    /\ host.pc = "done" <=> host.at = N + 2

DeviceOK ==
    /\ dev.count <= host.at + 1
    /\ dev.count >= 1 => dev.byte = Number(dev.count) /\ dev.total = N + 1
    /\ dev.count >= 1 /\ dev.count >= host.at =>
           \A k \in Chunks : k < dev.count => mem[k] = k

RanOK == \/ ran = <<>>
         \/ ran = <<Image>> /\ host.at >= N + 1 /\ dev.count = 0

IInv == TypeOK /\ LineOK /\ DeviceOK /\ RanOK

(***************************************************************************)
(* The four things receive_frame may do: clear the context, take the head, *)
(* take or refuse a frame as number j, which it may have gone back to, or  *)
(* take the tail.  A whole frame clears the context only as a head, and    *)
(* takes the ROM back only as data of the number before.                   *)
(***************************************************************************)
Whole == line # NoFrame /\ ~dev.left /\ line.magic # "other"

StoreAt(r, j) == r.mem = mem \/ \E v \in 0 .. N : r.mem = [mem EXCEPT ![j] = v]

Cleared(r) ==
    /\ r.answer \in {"nack", "none"} /\ r.dev.count = 0 /\ r.mem = mem
    /\ Whole => dev.count = 0 \/ line.magic = "head"

HeadTaken(r) ==
    /\ host.at = 0 /\ r.answer = "ack" /\ r.mem = mem
    /\ r.dev.count = 1 /\ r.dev.byte = 1 /\ r.dev.total = N + 1

Refused(r, j) == r.answer \in {"nack", "none"} /\ r.dev.count = j /\ StoreAt(r, j)

Taken(r, j) ==
    /\ r.answer = "ack" /\ r.dev.count = j + 1
    /\ host.at \in Chunks /\ j <= host.at /\ Number(j) = Number(host.at)
    /\ r.mem = [mem EXCEPT ![j] = host.at]

Stepped(r, j) ==
    /\ dev.count >= 1 /\ j >= dev.count - 1
    /\ j # dev.count => dev.count > 1 /\ dev.byte >= 1
    /\ j # dev.count /\ Whole => line.magic = "data" /\ line.seq = dev.byte - 1
    /\ r.dev.total = N + 1 /\ r.dev.byte = Number(r.dev.count)
    /\ Refused(r, j) \/ Taken(r, j)

Done(r) ==
    /\ host.at = N + 1 /\ dev.count = N + 1
    /\ r.answer = "done" /\ r.dev = dev /\ r.mem = mem

Outcome(r) ==
    /\ r.dev \in DevType /\ r.mem \in [Chunks -> 0 .. N]
    /\ Cleared(r) \/ HeadTaken(r) \/ (\E j \in 1 .. dev.count : Stepped(r, j)) \/ Done(r)

LEMMA CheckIs ==
    ASSUME NEW f, NEW want, NEW d \in DevType, NEW m, NEW accepted,
           NEW r, r = Check(f, want, Result("nack", d, m), accepted)
    PROVE  \/ r = accepted /\ f.sum
           \/ /\ r.answer \in {"nack", "none"} /\ r.dev \in DevType /\ r.mem = m
              /\ r.dev.count = d.count /\ r.dev.byte = d.byte /\ r.dev.total = d.total
<1> DEFINE refused == [answer |-> "nack", dev |-> d, mem |-> m]
<1>1. \/ r = [refused EXCEPT !.answer = "none"]
      \/ r = [refused EXCEPT !.dev.left = TRUE]
      \/ f.sum /\ r = accepted
      \/ r = refused
  BY DEF Check, Result
<1>2. CASE r = [refused EXCEPT !.dev.left = TRUE]
  <2>1. r.answer = "nack" /\ r.mem = m /\ r.dev = [d EXCEPT !.left = TRUE]
    BY <1>2
  <2>2. /\ r.dev.count = d.count /\ r.dev.byte = d.byte /\ r.dev.total = d.total
        /\ r.dev \in DevType
    BY <2>1 DEF DevType
  <2> QED
    BY <2>1, <2>2
<1>3. CASE r = [refused EXCEPT !.answer = "none"] \/ r = refused
  BY <1>3 DEF DevType
<1> QED
  BY <1>1, <1>2, <1>3

LEMMA ClosedType == Closed \in DevType /\ Closed.count = 0
  BY DEF Closed, DevType, Numbers

LEMMA HeadOutcome ==
    ASSUME IInv, line # NoFrame, line.magic = "head", NEW r \in ReceiveHead(line)
    PROVE  Outcome(r)
<1>0. /\ host.at \in 0 .. N + 1 /\ line \in Carried(host.at) /\ mem \in [Chunks -> 0 .. N]
  BY DEF IInv, LineOK, TypeOK
<1>1. CASE r \in Scan
  BY <1>0, <1>1, ClosedType DEF Scan, Result, Outcome, Cleared
<1>2. CASE r = Check(line, HeadLast, Result("nack", Closed, mem),
                Result("ack", [count |-> 1, byte |-> 1, total |-> N + 1, left |-> FALSE], mem))
  <2>1. CASE /\ line.sum
             /\ r = Result("ack", [count |-> 1, byte |-> 1, total |-> N + 1, left |-> FALSE], mem)
    <3>1. host.at = 0
      BY <1>0, <2>1, CarriedIs, FrameIs
    <3> QED
      BY <1>0, <2>1, <3>1 DEF Result, Outcome, HeadTaken, DevType, Numbers
  <2>2. CASE /\ r.answer \in {"nack", "none"} /\ r.dev \in DevType /\ r.mem = mem
             /\ r.dev.count = 0
    BY <1>0, <2>2 DEF Outcome, Cleared
  <2> QED
    BY <1>2, <2>1, <2>2, CheckIs, ClosedType
<1> QED
  BY <1>1, <1>2 DEF ReceiveHead

\* what the states of a frame under way have in common
LEMMA UnderWay ==
    ASSUME IInv, line # NoFrame
    PROVE  /\ host.at \in 0 .. N + 1 /\ line \in Carried(host.at) /\ mem \in [Chunks -> 0 .. N]
           /\ dev \in DevType /\ dev.count \in 0 .. N + 1 /\ dev.count <= host.at + 1
           /\ dev.count >= 1 => dev.byte = Number(dev.count) /\ dev.total = N + 1
           /\ host.pc = "wait" /\ answer = "none"
  BY DEF IInv, LineOK, DeviceOK, TypeOK, DevType, Numbers

LEMMA DataOutcome ==
    ASSUME IInv, line # NoFrame, line.magic = "data", dev.count # 0,
           NEW r \in ReceiveData(line)
    PROVE  Outcome(r)
<1> DEFINE back == line.seq # dev.byte
           d == IF back THEN GoBack(line) ELSE dev
           want == 4 + (IF ~back /\ dev.count = dev.total - 1 THEN rest ELSE Full)
           m == Stored(line, d.count)
           acc == Result("ack", [d EXCEPT !.count = @ + 1, !.byte = NumberAfter(@)], m)
           j == d.count
<1>0. /\ host.at \in 0 .. N + 1 /\ line \in Carried(host.at) /\ mem \in [Chunks -> 0 .. N]
      /\ dev \in DevType /\ dev.count \in 1 .. N + 1 /\ dev.count <= host.at + 1
      /\ dev.byte = Number(dev.count) /\ dev.total = N + 1
  BY UnderWay
<1>1. \/ back /\ ~Repeats(line) /\ r = Result("nack", dev, mem)
      \/ (back => Repeats(line)) /\ ~Complemented(line) /\ r = Result("nack", d, mem)
      \/ /\ back => Repeats(line)
         /\ Complemented(line)
         /\ r = Check(line, want, Result("nack", d, m), acc)
  BY DEF ReceiveData
<1>2. CASE back /\ ~Repeats(line) /\ r = Result("nack", dev, mem)
  <2>1. Stepped(r, dev.count) /\ r.dev = dev /\ r.mem = mem
    BY <1>0, <1>2 DEF Result, Stepped, Refused, StoreAt
  <2> QED
    BY <1>0, <2>1 DEF Outcome
<1>3. ASSUME back => Repeats(line)
      PROVE  /\ d \in DevType /\ j \in 1 .. dev.count /\ j >= dev.count - 1
             /\ d.byte = Number(j) /\ d.total = N + 1
             /\ j # dev.count => dev.count > 1 /\ dev.byte >= 1 /\ line.seq = dev.byte - 1
             /\ line.seq = Number(j)
  <2>1. CASE ~back
    BY <1>0, <2>1
  <2>2. CASE back
    <3>1. dev.count > 1 /\ line.seq = dev.byte - 1 /\ line.seq \in Numbers
      BY <1>0, <1>3, <2>2, CarriedIs DEF Repeats
    <3>2. Number(dev.count - 1) = Number(dev.count) - 1
      <4>1. dev.count \in Nat \ {0} /\ Number(dev.count) >= 1
        BY <1>0, <3>1 DEF DevType, Numbers
      <4> QED
        BY <4>1, NumberPrev
    <3>3. d = [dev EXCEPT !.byte = line.seq, !.count = @ - 1]
      BY <2>2 DEF GoBack
    <3> HIDE DEF d
    <3>4. /\ d.count = dev.count - 1 /\ d.byte = line.seq /\ d.total = dev.total
          /\ d = [count |-> d.count, byte |-> d.byte, total |-> dev.total, left |-> dev.left]
      BY <1>0, <3>3 DEF DevType
    <3>5. d \in DevType
      BY <1>0, <3>1, <3>4 DEF DevType
    <3>6. dev.byte >= 1
      BY <1>0, <3>1 DEF DevType, Numbers
    <3> QED
      BY <1>0, <3>1, <3>2, <3>4, <3>5, <3>6
  <2> QED
    BY <2>1, <2>2
<1> HIDE DEF d
<1>4. CASE (back => Repeats(line)) /\ ~Complemented(line) /\ r = Result("nack", d, mem)
  <2>1. Stepped(r, j) /\ r.dev = d /\ r.mem = mem
    BY <1>0, <1>3, <1>4 DEF Result, Stepped, Refused, StoreAt
  <2> QED
    BY <1>0, <1>3, <1>4, <2>1 DEF Outcome
<1>5. CASE /\ back => Repeats(line)
           /\ Complemented(line)
           /\ r = Check(line, want, Result("nack", d, m), acc)
  <2>1. line.chunk \in 0 .. N
    BY <1>0, CarriedIs
  <2>2. m \in [Chunks -> 0 .. N] /\ (m = mem \/ m = [mem EXCEPT ![j] = line.chunk])
    BY <1>0, <2>1 DEF Stored
  <2>3. CASE r = acc /\ line.sum
    <3>1. host.at \in Chunks /\ line.chunk = host.at /\ Number(j) = Number(host.at)
      <4>1. line = Frame(host.at)
        BY <1>0, <2>3, CarriedIs
      <4> QED
        BY <1>0, <1>3, <1>5, <4>1, FrameIs
    <3>2. j <= host.at
      <4>1. Number(host.at + 1) # Number(host.at)
        <5>1. host.at \in Nat
          BY <1>0
        <5>2. Number(host.at) \in Numbers
          BY <5>1, Quotient
        <5> QED
          BY <5>1, <5>2, NumberNext DEF Numbers
      <4>2. host.at + 1 # j
        BY <3>1, <4>1
      <4> QED
        BY <1>0, <1>3, <1>5, <4>2
    <3>3. /\ r.dev.count = j + 1 /\ r.dev.total = N + 1 /\ r.dev.byte = Number(j + 1)
          /\ r.dev.left = d.left
          /\ r.dev = [count |-> r.dev.count, byte |-> r.dev.byte,
                      total |-> r.dev.total, left |-> d.left]
      <4>1. r.dev = [d EXCEPT !.count = @ + 1, !.byte = NumberAfter(@)]
        BY <2>3 DEF Result
      <4>2. NumberAfter(d.byte) = Number(j + 1)
        <5>1. j \in Nat
          BY <1>3, <1>5
        <5> QED
          BY <1>3, <1>5, <5>1, AfterIsNext
      <4>3. d \in DevType /\ d.total = N + 1
        BY <1>3, <1>5
      <4> QED
        BY <4>1, <4>2, <4>3 DEF DevType
    <3>4. r.dev \in DevType
      <4>1. Number(j + 1) \in Numbers /\ j + 1 \in 0 .. N + 1
        BY <1>3, <1>5, <3>1, <3>2, Quotient DEF Chunks
      <4>2. d.left \in BOOLEAN
        BY <1>3, <1>5 DEF DevType
      <4> QED
        BY <3>3, <4>1, <4>2 DEF DevType
    <3>5. r.mem = [mem EXCEPT ![j] = host.at] /\ r.answer = "ack" /\ r.mem = m
      <4>1. j \in Chunks
        BY <1>3, <1>5, <3>1, <3>2 DEF Chunks
      <4> QED
        BY <2>3, <3>1, <4>1 DEF Result, Stored
    <3>6. Stepped(r, j)
      BY <1>0, <1>3, <1>5, <3>1, <3>2, <3>3, <3>5 DEF Stepped, Taken
    <3> QED
      BY <1>3, <1>5, <2>2, <3>4, <3>5, <3>6 DEF Outcome
  <2>4. CASE /\ r.answer \in {"nack", "none"} /\ r.dev \in DevType /\ r.mem = m
             /\ r.dev.count = d.count /\ r.dev.byte = d.byte /\ r.dev.total = d.total
    <3>1. StoreAt(r, j)
      BY <2>1, <2>2, <2>4 DEF StoreAt
    <3>2. Stepped(r, j)
      BY <1>0, <1>3, <1>5, <2>4, <3>1 DEF Stepped, Refused
    <3> QED
      BY <1>3, <1>5, <2>2, <2>4, <3>2 DEF Outcome
  <2> QED
    BY <1>3, <1>5, <2>3, <2>4, CheckIs
<1> QED
  BY <1>1, <1>2, <1>4, <1>5

LEMMA TailOutcome ==
    ASSUME IInv, line # NoFrame, line.magic = "tail", dev.count # 0,
           NEW r \in ReceiveTail(line)
    PROVE  Outcome(r)
<1> DEFINE refused == Result("nack", dev, mem)
           acc == IF dev.count = dev.total THEN Result("done", dev, mem) ELSE refused
<1>0. /\ host.at \in 0 .. N + 1 /\ line \in Carried(host.at) /\ mem \in [Chunks -> 0 .. N]
      /\ dev \in DevType /\ dev.count \in 1 .. N + 1 /\ dev.count <= host.at + 1
      /\ dev.byte = Number(dev.count) /\ dev.total = N + 1
  BY UnderWay
<1>1. r = refused \/ r = Check(line, TailLast, refused, acc)
  BY DEF ReceiveTail
<1>2. CASE /\ r.answer \in {"nack", "none"} /\ r.dev \in DevType /\ r.mem = mem
           /\ r.dev.count = dev.count /\ r.dev.byte = dev.byte /\ r.dev.total = dev.total
  <2>1. Stepped(r, dev.count)
    BY <1>0, <1>2 DEF Stepped, Refused, StoreAt
  <2> QED
    BY <1>0, <1>2, <2>1 DEF Outcome
<1>3. CASE r = refused
  BY <1>0, <1>2, <1>3 DEF Result
<1>4. CASE r = acc /\ line.sum /\ dev.count = dev.total
  <2>1. host.at = N + 1
    <3>1. line = Frame(host.at)
      BY <1>0, <1>4, CarriedIs
    <3> QED
      BY <1>0, <3>1, FrameIs
  <2>2. Done(r)
    BY <1>0, <1>4, <2>1 DEF Result, Done
  <2> QED
    BY <1>0, <2>2 DEF Outcome, Done
<1> QED
  BY <1>0, <1>1, <1>2, <1>3, <1>4, CheckIs

\* bytes that are no whole frame are refused, or clear the context
LEMMA StrayOutcome ==
    ASSUME IInv, ~Whole, NEW r \in Stray
    PROVE  /\ Outcome(r) /\ r.answer \in {"nack", "none"}
           /\ Cleared(r) \/ \E j \in 1 .. dev.count : Stepped(r, j) /\ Refused(r, j)
<1>0. /\ mem \in [Chunks -> 0 .. N] /\ dev \in DevType /\ dev.count \in 0 .. N + 1
      /\ dev.count >= 1 => dev.byte = Number(dev.count) /\ dev.total = N + 1
  BY DEF IInv, TypeOK, DeviceOK, DevType, Numbers
<1>1. CASE r \in Scan
  BY <1>0, <1>1, ClosedType DEF Scan, Result, Outcome, Cleared
<1>2. CASE r \notin Scan
  <2>1. dev.count # 0
    BY <1>2 DEF Stray
  <2>0. /\ r \in [answer : {"none", "nack"},
                  dev : {[d EXCEPT !.left = l] : d \in AsItIsOrBack, l \in BOOLEAN},
                  mem : {mem} \cup {Stored(Garbage, d.count) : d \in AsItIsOrBack}]
        /\ r.mem \in {mem, Stored(Garbage, r.dev.count)}
    BY <1>2, <2>1 DEF Stray
  <2>2. PICK d \in AsItIsOrBack, l \in BOOLEAN : r.dev = [d EXCEPT !.left = l]
    BY <2>0
  <2>3. /\ d \in DevType /\ d.count \in 1 .. dev.count /\ d.count >= dev.count - 1
        /\ d.byte = Number(d.count) /\ d.total = N + 1
        /\ d.count # dev.count => dev.count > 1 /\ dev.byte >= 1
    <3>1. CASE d = dev
      BY <1>0, <2>1, <3>1
    <3>2. CASE \E f \in [seq : 0 .. SeqMod - 1] : Repeats(f) /\ d = GoBack(f)
      <4>1. PICK f \in [seq : 0 .. SeqMod - 1] : Repeats(f) /\ d = GoBack(f)
        BY <3>2
      <4>2. /\ dev.count > 1 /\ f.seq = dev.byte - 1 /\ f.seq \in Numbers
            /\ d = [dev EXCEPT !.byte = f.seq, !.count = @ - 1]
        <5>1. f.seq \in 0 .. SeqMod - 1
          OBVIOUS
        <5>2. dev.count > 1 /\ f.seq = dev.byte - 1
          BY <4>1 DEF Repeats
        <5>3. d = [dev EXCEPT !.byte = f.seq, !.count = @ - 1]
          BY <4>1, Zenon DEF GoBack
        <5> QED
          BY <5>1, <5>2, <5>3, Zenon DEF Numbers
      <4>3. dev.count \in Nat \ {0} /\ Number(dev.count) >= 1 /\ dev.byte = Number(dev.count)
        BY <1>0, <4>2 DEF DevType, Numbers
      <4>4. Number(dev.count - 1) = Number(dev.count) - 1
        BY <4>3, NumberPrev
      <4>5. /\ d.count = dev.count - 1 /\ d.byte = f.seq /\ d.total = dev.total
            /\ d = [count |-> d.count, byte |-> d.byte, total |-> dev.total, left |-> dev.left]
        BY <1>0, <4>2 DEF DevType
      <4>6. d \in DevType
        BY <1>0, <4>2, <4>5 DEF DevType
      <4> QED
        BY <1>0, <4>2, <4>3, <4>4, <4>5, <4>6
    <3> QED
      BY <3>1, <3>2 DEF AsItIsOrBack
  <2>4. /\ r.answer \in {"none", "nack"} /\ r.dev \in DevType
        /\ r.dev.count = d.count /\ r.dev.byte = d.byte /\ r.dev.total = d.total
    BY <2>0, <2>2, <2>3 DEF DevType
  <2>5. /\ r.mem \in [Chunks -> 0 .. N]
        /\ r.mem = mem \/ r.mem = [mem EXCEPT ![d.count] = 0]
    BY <1>0, <2>0, <2>4 DEF Stored, Garbage
  <2>6. StoreAt(r, d.count)
    <3>1. 0 \in 0 .. N
      OBVIOUS
    <3> QED
      BY <2>4, <2>5, <3>1 DEF StoreAt
  <2>7. Refused(r, d.count)
    BY <2>4, <2>6 DEF Refused
  <2>8. Stepped(r, d.count)
    BY <1>0, <2>1, <2>3, <2>4, <2>7 DEF Stepped
  <2> QED
    BY <2>3, <2>4, <2>5, <2>7, <2>8 DEF Outcome
<1> QED
  BY <1>1, <1>2

LEMMA ReceiveOutcome ==
    ASSUME IInv, line # NoFrame, NEW r \in Receive(line)
    PROVE  Outcome(r)
<1>0. /\ mem \in [Chunks -> 0 .. N] /\ line \in Carried(host.at) /\ host.at \in 0 .. N + 1
      /\ line.magic \in {"head", "data", "tail", "other"}
  <2>1. host.at \in 0 .. N + 1 /\ line \in Carried(host.at) /\ mem \in [Chunks -> 0 .. N]
    BY UnderWay
  <2>2. CASE line = Frame(host.at)
    <3>1. Magic(host.at) \in {"head", "data", "tail"}
      BY DEF Magic
    <3> QED
      BY <2>1, <2>2, <3>1, FrameIs
  <2>3. CASE line \in Damaged(Frame(host.at))
    <3>1. line.magic \in {"head", "data", "tail", "other"}
      BY <2>3 DEF Damaged
    <3> QED
      BY <2>1, <3>1
  <2> QED
    BY <2>1, <2>2, <2>3 DEF Carried
<1>1. CASE line.magic = "head"
  BY <1>1, HeadOutcome DEF Receive
<1>2. CASE line.magic # "head" /\ dev.count = 0
  BY <1>0, <1>2, ClosedType DEF Receive, Scan, Result, Outcome, Cleared
<1>3. CASE line.magic = "data" /\ dev.count # 0
  BY <1>3, DataOutcome DEF Receive
<1>4. CASE line.magic = "tail" /\ dev.count # 0
  BY <1>4, TailOutcome DEF Receive
<1>5. CASE line.magic = "other" /\ dev.count # 0
  BY <1>5, StrayOutcome DEF Receive, Whole
<1> QED
  BY <1>0, <1>1, <1>2, <1>3, <1>4, <1>5
-----------------------------------------------------------------------------
(***************************************************************************)
(* The invariant holds: one lemma an operation, the line's faults first.   *)
(***************************************************************************)
LEMMA SameFrame == ASSUME rest' = rest, host'.at = host.at
                   PROVE  /\ Frame(host.at)' = Frame(host.at)
                          /\ Carried(host.at)' = Carried(host.at)
<1>1. Frame(host.at)' = Frame(host.at)
  BY DEF Frame, Magic
<1> QED
  BY <1>1 DEF Carried

LEMMA InitInv == Init => IInv
<1> SUFFICES ASSUME Init PROVE IInv
  OBVIOUS
<1> USE DEF Init
<1>1. TypeOK
  BY DEF TypeOK, Closed
<1>2. LineOK
  BY DEF LineOK
<1>3. DeviceOK
  BY DEF DeviceOK, Closed
<1> QED
  BY <1>1, <1>2, <1>3 DEF IInv, RanOK

LEMMA SendInv == IInv /\ Send => IInv'
<1> SUFFICES ASSUME IInv, Send PROVE IInv'
  OBVIOUS
<1>0. /\ host \in [at : 0 .. N + 2, pc : {"send", "wait", "done"}] /\ host.pc = "send"
      /\ line' = Frame(host.at) /\ host' = [host EXCEPT !.pc = "wait"]
      /\ UNCHANGED <<rest, answer, dev, mem, ran>>
      /\ TypeOK /\ LineOK /\ DeviceOK /\ RanOK
  BY DEF Send, IInv, TypeOK
<1>1. host' \in [at : 0 .. N + 2, pc : {"send", "wait", "done"}] /\ host'.at = host.at
      /\ host'.pc = "wait"
  BY <1>0
<1>2. LineOK'
  <2>1. line' \in Carried(host.at)'
    BY <1>0, <1>1, SameFrame DEF Carried
  <2>2. host.at # N + 2 /\ answer' = "none"
    BY <1>0 DEF LineOK, TypeOK
  <2> QED
    BY <1>1, <2>1, <2>2 DEF LineOK
<1> QED
  BY <1>0, <1>1, <1>2 DEF IInv, TypeOK, DeviceOK, RanOK

\* steps that leave all but the line, the answer and the history alone
LEMMA LineInv ==
    ASSUME IInv, UNCHANGED <<host, rest, mem, ran>>, dev' = dev \/ dev' = [dev EXCEPT !.left = TRUE],
           \/ line' = line
           \/ line' = NoFrame
           \/ line' \in Damaged(Frame(host.at)) /\ line # NoFrame,
           answer' = answer \/ (answer # "none" /\ line' = line),
           answer' \in {"none", "ack", "nack"}
    PROVE  IInv'
<1>0. TypeOK /\ LineOK /\ DeviceOK /\ RanOK
  BY DEF IInv
<1>1. dev'.count = dev.count /\ dev'.byte = dev.byte /\ dev'.total = dev.total
      /\ dev' \in [count : 0 .. N + 1, byte : 0 .. SeqMod - 1, total : {0, N + 1}, left : BOOLEAN]
  BY <1>0 DEF TypeOK
<1>2. LineOK'
  BY <1>0, SameFrame DEF LineOK, Carried
<1> QED
  BY <1>0, <1>1, <1>2 DEF IInv, TypeOK, DeviceOK, RanOK

\* what was refused, or cleared the context, leaves the device in order
LEMMA RefusedInv ==
    ASSUME IInv, NEW r, Outcome(r),
           Cleared(r) \/ \E j \in 1 .. dev.count : Stepped(r, j) /\ Refused(r, j),
           UNCHANGED <<host, ran>>, dev' = r.dev, mem' = r.mem
    PROVE  /\ DeviceOK' /\ RanOK' /\ mem' \in [Chunks -> 0 .. N]
           /\ dev' \in [count : 0 .. N + 1, byte : 0 .. SeqMod - 1, total : {0, N + 1},
                         left : BOOLEAN]
<1>0. /\ DeviceOK /\ RanOK /\ mem \in [Chunks -> 0 .. N] /\ dev.count \in 0 .. N + 1
      /\ dev.count <= host.at + 1 /\ host.at \in 0 .. N + 2
  BY DEF IInv, TypeOK, DeviceOK
<1>1. /\ mem' \in [Chunks -> 0 .. N]
      /\ dev' \in [count : 0 .. N + 1, byte : 0 .. SeqMod - 1, total : {0, N + 1},
                    left : BOOLEAN]
  BY DEF Outcome, DevType, Numbers
<1>2. CASE Cleared(r)
  <2>1. dev'.count = 0
    BY <1>2 DEF Cleared
  <2> QED
    BY <1>0, <1>1, <2>1 DEF DeviceOK, RanOK
<1>3. ASSUME NEW j \in 1 .. dev.count, Stepped(r, j), Refused(r, j)
      PROVE  DeviceOK' /\ RanOK'
  <2>1. /\ dev.count >= 1 /\ dev'.count = j /\ dev'.total = N + 1 /\ dev'.byte = Number(j)
        /\ j >= dev.count - 1 /\ j <= dev.count
    BY <1>0, <1>3 DEF Stepped, Refused
  <2>2. ran = <<>> /\ RanOK'
    BY <1>0, <2>1 DEF RanOK
  <2>3. \A k \in Chunks : k < j => mem'[k] = mem[k]
    <3>1. mem' = mem \/ \E v \in 0 .. N : mem' = [mem EXCEPT ![j] = v]
      BY <1>3 DEF Refused, StoreAt
    <3>2. \A k \in Chunks : k < j => k # j
      BY DEF Chunks
    <3> QED
      BY <1>0, <3>1, <3>2
  <2>4. j >= host.at => \A k \in Chunks : k < j => mem[k] = k
    BY <1>0, <2>1 DEF DeviceOK, Chunks
  <2> QED
    BY <1>0, <2>1, <2>2, <2>3, <2>4 DEF DeviceOK
<1> QED
  BY <1>1, <1>2, <1>3

\* what follows for the device, whatever the frame was
LEMMA AnswerInv ==
    ASSUME IInv, line # NoFrame, NEW r, Outcome(r), Answer(r)
    PROVE  IInv'
<1>0. /\ TypeOK /\ LineOK /\ DeviceOK /\ RanOK
      /\ host.at \in 0 .. N + 1 /\ mem \in [Chunks -> 0 .. N]
      /\ dev \in DevType /\ dev.count \in 0 .. N + 1 /\ dev.count <= host.at + 1
      /\ host.pc = "wait"
  BY UnderWay DEF IInv
<1>1. /\ UNCHANGED <<host, rest>> /\ line' = NoFrame
      /\ mem' = r.mem /\ r.mem \in [Chunks -> 0 .. N] /\ r.dev \in DevType
  BY DEF Answer, Outcome
<1>2. LineOK'
  BY <1>0, <1>1 DEF LineOK
<1>3. CASE Done(r)
  <2>1. /\ dev' = Closed /\ answer' = "ack" /\ ran' = Append(ran, mem) /\ mem' = mem
        /\ host.at = N + 1 /\ dev.count = N + 1
    BY <1>3 DEF Answer, Done
  <2>2. ran = <<>>
    BY <1>0, <2>1 DEF RanOK
  <2>3. mem = Image
    <3>1. \A k \in Chunks : mem[k] = k
      BY <1>0, <2>1 DEF DeviceOK, Chunks
    <3>2. mem = [k \in Chunks |-> mem[k]]
      BY <1>0
    <3> QED
      BY <3>1, <3>2 DEF Image
  <2>4. ran' = <<Image>> /\ dev'.count = 0
    BY <2>1, <2>2, <2>3, ClosedType
  <2>5. TypeOK'
    BY <1>0, <1>1, <2>1, ClosedType DEF TypeOK, DevType, Numbers
  <2>6. DeviceOK' /\ RanOK'
    BY <1>0, <1>1, <2>1, <2>4 DEF DeviceOK, RanOK
  <2> QED
    BY <1>2, <2>5, <2>6 DEF IInv
<1>4. CASE r.answer # "done"
  <2>0. dev' = r.dev /\ answer' = r.answer /\ ran' = ran
    BY <1>4 DEF Answer
  <2>1. CASE Cleared(r) \/ \E j \in 1 .. dev.count : Stepped(r, j) /\ Refused(r, j)
    <3>1. answer' \in {"none", "ack", "nack"}
      BY <2>0, <2>1 DEF Cleared, Refused
    <3>2. DeviceOK' /\ RanOK' /\ TypeOK'
      BY <1>0, <1>1, <2>0, <2>1, <3>1, RefusedInv DEF TypeOK
    <3> QED
      BY <1>2, <3>2 DEF IInv
  <2>2. CASE HeadTaken(r)
    <3>1. /\ answer' = "ack" /\ dev'.count = 1 /\ dev'.byte = 1 /\ dev'.total = N + 1
          /\ host.at = 0 /\ mem' = mem
      BY <1>1, <2>0, <2>2 DEF HeadTaken
    <3>2. Number(1) = 1
      <4>1. Number(0) = 0
        BY SMTT(30) DEF Number
      <4> QED
        BY <4>1, NumberNext
    <3>3. DeviceOK' /\ RanOK'
      BY <1>0, <1>1, <2>0, <3>1, <3>2 DEF DeviceOK, RanOK, Chunks
    <3>4. TypeOK'
      BY <1>0, <1>1, <2>0, <3>1 DEF TypeOK, DevType, Numbers
    <3> QED
      BY <1>2, <3>3, <3>4 DEF IInv
  <2>3. ASSUME NEW j \in 1 .. dev.count, Stepped(r, j)
        PROVE  IInv'
    <3>1. /\ dev.count >= 1 /\ j >= dev.count - 1 /\ j <= dev.count
          /\ r.dev.total = N + 1 /\ r.dev.byte = Number(r.dev.count)
          /\ Refused(r, j) \/ Taken(r, j)
      BY <1>0, <2>3 DEF Stepped
    <3>2. ran = <<>> /\ RanOK'
      BY <1>0, <2>0, <3>1 DEF RanOK
    <3>3. answer' \in {"none", "ack", "nack"}
      BY <2>0, <3>1 DEF Refused, Taken
    <3>4. TypeOK'
      BY <1>0, <1>1, <2>0, <3>3, <3>2 DEF TypeOK, DevType, Numbers
    <3>5. CASE Refused(r, j)
      BY <2>1, <2>3, <3>5
    <3>6. CASE Taken(r, j)
      <4>1. /\ dev'.count = j + 1 /\ host.at \in Chunks /\ j <= host.at
            /\ Number(j) = Number(host.at) /\ mem' = [mem EXCEPT ![j] = host.at]
        BY <1>1, <2>0, <3>6 DEF Taken
      <4>2. j + 1 >= host.at => j = host.at
        <5>1. CASE j + 1 = host.at
          <6>1. j \in Nat /\ Number(j) \in Numbers /\ host.at = j + 1
            BY <1>0, <5>1, Quotient
          <6>2. Number(j + 1) # Number(j)
            BY <6>1, NumberNext DEF Numbers
          <6> QED
            BY <4>1, <6>1, <6>2
        <5> QED
          BY <1>0, <4>1, <5>1
      <4>3. j = host.at => \A k \in Chunks : k < j + 1 => mem'[k] = k
        BY <1>0, <3>1, <4>1 DEF DeviceOK, Chunks
      <4> QED
        BY <1>0, <1>1, <1>2, <2>0, <3>1, <3>2, <3>4, <4>1, <4>2, <4>3 DEF IInv, DeviceOK
    <3> QED
      BY <3>1, <3>5, <3>6
  <2> QED
    BY <1>4, <2>1, <2>2, <2>3 DEF Outcome, Done
<1> QED
  BY <1>3, <1>4 DEF Outcome, Cleared, HeadTaken, Stepped, Refused, Taken

LEMMA TakeFrameInv == IInv /\ TakeFrame => IInv'
  BY ReceiveOutcome, AnswerInv DEF TakeFrame

LEMMA SwallowFrameInv == IInv /\ SwallowFrame => IInv'
  BY StrayOutcome, AnswerInv DEF SwallowFrame, Whole

LEMMA LeftTimesOutInv == IInv /\ LeftTimesOut => IInv'
<1> SUFFICES ASSUME IInv, LeftTimesOut PROVE IInv'
  OBVIOUS
<1>0. TypeOK /\ LineOK /\ UNCHANGED <<host, rest, line, answer, ran>>
  BY DEF IInv, LeftTimesOut
<1>1. PICK r \in Stray : dev' = r.dev /\ mem' = r.mem
  BY DEF LeftTimesOut
<1>2. /\ Outcome(r)
      /\ Cleared(r) \/ \E j \in 1 .. dev.count : Stepped(r, j) /\ Refused(r, j)
  BY StrayOutcome DEF LeftTimesOut, Whole
<1>3. DeviceOK' /\ RanOK' /\ TypeOK'
  BY <1>0, <1>1, <1>2, RefusedInv DEF TypeOK
<1>4. LineOK'
  BY <1>0, SameFrame DEF LineOK
<1> QED
  BY <1>3, <1>4 DEF IInv

LEMMA ReadAnswerInv == IInv /\ ReadAnswer => IInv'
<1> SUFFICES ASSUME IInv, ReadAnswer PROVE IInv'
  OBVIOUS
<1>0. /\ TypeOK /\ LineOK /\ DeviceOK /\ RanOK /\ UNCHANGED <<rest, line, dev, mem, ran>>
      /\ host.pc = "wait" /\ answer # "none" /\ answer' = "none"
      /\ host \in [at : 0 .. N + 2, pc : {"send", "wait", "done"}] /\ host.at \in 0 .. N + 1
      /\ line = NoFrame
  BY DEF IInv, ReadAnswer, TypeOK, LineOK
<1>1. \/ host' = [host EXCEPT !.pc = "send"]
      \/ host' = [at |-> host.at + 1, pc |-> IF host.at = N + 1 THEN "done" ELSE "send"]
  BY DEF ReadAnswer
<1>2. /\ host' \in [at : 0 .. N + 2, pc : {"send", "wait", "done"}]
      /\ host'.at >= host.at /\ host'.at <= host.at + 1
      /\ host'.pc \in {"send", "done"} /\ (host'.pc = "done" <=> host'.at = N + 2)
  BY <1>0, <1>1
<1>3. DeviceOK'
  BY <1>0, <1>2 DEF DeviceOK, TypeOK
<1> QED
  BY <1>0, <1>2, <1>3 DEF IInv, TypeOK, LineOK, RanOK

\* The state of the two sides, of the line between them and of the program's
\* runs stays within the invariant the theorems below rest on.
THEOREM Inductive == Spec => []IInv
<1>1. IInv /\ [Next]_vars => IInv'
  <2> SUFFICES ASSUME IInv, [Next]_vars PROVE IInv'
    OBVIOUS
  <2>0. LineOK /\ TypeOK
    BY DEF IInv
  <2>1. CASE Send
    BY <2>1, SendInv
  <2>2. CASE TakeFrame
    BY <2>2, TakeFrameInv
  <2>3. CASE SwallowFrame
    BY <2>3, SwallowFrameInv
  <2>4. CASE ReadAnswer
    BY <2>4, ReadAnswerInv
  <2>5. CASE LeftTimesOut
    BY <2>5, LeftTimesOutInv
  <2>6. CASE LineDamages
    <3>1. line \in Carried(host.at) /\ host.at \in 0 .. N + 1 /\ line.sum
      BY <2>0, <2>6 DEF LineDamages, LineOK, TypeOK
    <3>2. line = Frame(host.at)
      BY <3>1, CarriedIs
    <3> QED
      <4>1. /\ UNCHANGED <<host, rest, mem, ran>> /\ line # NoFrame
            /\ answer' = answer /\ dev' = dev
            /\ line' \in Damaged(Frame(host.at)) /\ answer' \in {"none", "ack", "nack"}
        BY <2>0, <2>6, <3>2 DEF LineDamages, TypeOK
      <4> QED
        BY <4>1, LineInv
  <2>7. CASE LineDrops
    <3>1. /\ UNCHANGED <<host, rest, mem, ran>> /\ line' = NoFrame
          /\ answer' = answer /\ dev' = dev /\ answer' \in {"none", "ack", "nack"}
      BY <2>0, <2>7 DEF LineDrops, TypeOK
    <3> QED
      BY <3>1, LineInv
  <2>8. CASE LineChangesAnswer
    BY <2>0, <2>8, LineInv DEF LineChangesAnswer, TypeOK
  <2>9. CASE LineDropsAnswer
    BY <2>0, <2>9, LineInv DEF LineDropsAnswer, TypeOK
  <2>10. CASE LineInserts
    BY <2>0, <2>10, LineInv DEF LineInserts, TypeOK
  <2>11. CASE UNCHANGED vars
    BY <2>0, <2>11, LineInv DEF vars, TypeOK
  <2> QED
    BY <2>1, <2>2, <2>3, <2>4, <2>5, <2>6, <2>7, <2>8, <2>9, <2>10, <2>11
       DEF Next, Works, Faults
<1> QED
  BY <1>1, InitInv, PTL DEF Spec

\* The counters and numbers of the two sides keep their types, for any image,
\* any numbering and any line (TypeOK).
THEOREM TypeCorrect == Spec => []TypeOK
<1>1. IInv => TypeOK
  BY DEF IInv
<1> QED
  BY <1>1, Inductive, PTL

\* The boot ROM starts the complete image or nothing, and starts it once,
\* whatever the line does (receive_frame, serial_invoke).
THEOREM OnlyTheImageRuns == Spec => []RunsIntact
<1>1. IInv => RunsIntact
  BY DEF IInv, RanOK, RunsIntact
<1> QED
  BY <1>1, Inductive, PTL
-----------------------------------------------------------------------------
(***************************************************************************)
(* What the ROM counts as taken.  Without a forged answer the device may   *)
(* be behind the host, taken back by damaged frames and stray bytes, but   *)
(* not farther than to the last time the numbering began: there the frame  *)
(* of the host has a number the ROM has not got to, and an intact frame is *)
(* taken in its own place or not at all.                                   *)
(***************************************************************************)
Acked ==
    "forged" \notin fatal =>
        /\ dev.count >= 1 => host.at - dev.count <= Number(host.at)
        /\ \A k \in Chunks : k < dev.count => mem[k] = k
        /\ answer = "ack" /\ dev.count >= 1 =>
               host.at + 1 - dev.count <= Number(host.at + 1)

\* the device does not go back beyond that
LEMMA NotBeyond ==
    ASSUME NEW h \in Nat, NEW c \in Nat \ {0}, c <= h + 1, h - c <= Number(h), Number(c) >= 1
    PROVE  h - (c - 1) <= Number(h)
<1>1. Number(h) \in Numbers
  BY Quotient
<1>2. CASE c = h + 1
  BY <1>1, <1>2 DEF Numbers
<1>3. CASE c <= h
  <2>1. Number(c) = Number(h) - (h - c)
    BY <1>3, NumberBelow
  <2> QED
    BY <1>1, <2>1 DEF Numbers
<1> QED
  BY <1>2, <1>3

\* what is refused is stored, if at all, where the ROM has not counted it
LEMMA RefusedAcked ==
    ASSUME IInv, Acked, NEW r, Outcome(r),
           Cleared(r) \/ \E j \in 1 .. dev.count : Stepped(r, j) /\ Refused(r, j),
           UNCHANGED <<host, fatal>>, dev' = r.dev, mem' = r.mem,
           answer' # "ack" \/ answer' = answer
    PROVE  Acked'
<1> SUFFICES ASSUME "forged" \notin fatal PROVE Acked'
  BY DEF Acked
<1>0. /\ host.at \in 0 .. N + 2 /\ mem \in [Chunks -> 0 .. N] /\ dev.count \in 0 .. N + 1
      /\ dev.count <= host.at + 1
      /\ dev.count >= 1 => dev.byte = Number(dev.count)
      /\ dev.count >= 1 => host.at - dev.count <= Number(host.at)
      /\ \A k \in Chunks : k < dev.count => mem[k] = k
      /\ answer = "ack" /\ dev.count >= 1 => host.at + 1 - dev.count <= Number(host.at + 1)
  BY DEF IInv, TypeOK, DeviceOK, Acked
<1>1. CASE Cleared(r)
  <2>1. dev'.count = 0
    BY <1>1 DEF Cleared
  <2>2. \A k \in Chunks : ~(k < 0)
    BY DEF Chunks
  <2> QED
    BY <2>1, <2>2 DEF Acked
<1>2. ASSUME NEW j \in 1 .. dev.count, Stepped(r, j), Refused(r, j)
      PROVE  Acked'
  <2>1. /\ dev.count >= 1 /\ dev'.count = j /\ j >= dev.count - 1 /\ j <= dev.count
        /\ j # dev.count => Number(dev.count) >= 1 /\ j = dev.count - 1
    BY <1>0, <1>2 DEF Stepped, Refused
  <2>2. \A k \in Chunks : k < j => mem'[k] = k
    <3>1. mem' = mem \/ \E v \in 0 .. N : mem' = [mem EXCEPT ![j] = v]
      BY <1>2 DEF Refused, StoreAt
    <3>2. \A k \in Chunks : k < j => k # j /\ k < dev.count
      BY <1>0, <2>1 DEF Chunks
    <3> QED
      BY <1>0, <3>1, <3>2
  <2>3. host.at - j <= Number(host.at)
    <3>1. CASE j = dev.count
      BY <1>0, <2>1, <3>1
    <3>2. CASE j # dev.count
      <4>1. host.at \in Nat /\ dev.count \in Nat \ {0}
        BY <1>0, <2>1
      <4> QED
        BY <1>0, <2>1, <3>2, <4>1, NotBeyond
    <3> QED
      BY <3>1, <3>2
  <2>4. answer = "ack" => host.at + 1 - j <= Number(host.at + 1)
    <3>1. CASE j = dev.count
      BY <1>0, <2>1, <3>1
    <3>2. CASE j # dev.count /\ answer = "ack"
      <4>1. /\ host.at + 1 \in Nat /\ dev.count \in Nat \ {0}
            /\ dev.count <= (host.at + 1) + 1
            /\ (host.at + 1) - dev.count <= Number(host.at + 1)
        BY <1>0, <2>1, <3>2
      <4>2. Number(dev.count) >= 1
        BY <2>1, <3>2
      <4>3. (host.at + 1) - (dev.count - 1) <= Number(host.at + 1)
        BY <4>1, <4>2, NotBeyond
      <4> QED
        BY <1>0, <2>1, <3>2, <4>3
    <3> QED
      BY <3>1, <3>2
  <2> QED
    BY <2>1, <2>2, <2>3, <2>4 DEF Acked
<1> QED
  BY <1>1, <1>2

LEMMA AnswerAcked ==
    ASSUME IInv, Acked, line # NoFrame, NEW r, Outcome(r), Answer(r), "forged" \notin fatal
    PROVE  Acked'
<1>0. /\ host.at \in 0 .. N + 1 /\ mem \in [Chunks -> 0 .. N]
      /\ dev.count \in 0 .. N + 1 /\ dev.count <= host.at + 1
      /\ dev.count >= 1 => dev.byte = Number(dev.count)
      /\ Number(host.at) \in Numbers
  BY UnderWay, Quotient
<1>1. /\ host' = host /\ fatal' = fatal /\ mem' = r.mem
      /\ dev.count >= 1 => host.at - dev.count <= Number(host.at)
      /\ \A k \in Chunks : k < dev.count => mem[k] = k
  BY DEF Answer, Acked
<1>2. CASE Done(r)
  <2>1. dev'.count = 0
    BY <1>1, <1>2, ClosedType DEF Answer, Done
  <2>2. \A k \in Chunks : ~(k < 0)
    BY DEF Chunks
  <2> QED
    BY <1>1, <2>1, <2>2 DEF Acked
<1>3. CASE r.answer # "done"
  <2>0. dev' = r.dev /\ answer' = r.answer
    BY <1>3 DEF Answer
  <2>1. CASE Cleared(r) \/ \E j \in 1 .. dev.count : Stepped(r, j) /\ Refused(r, j)
    <3>1. answer' # "ack"
      BY <2>0, <2>1 DEF Cleared, Refused
    <3> QED
      BY <1>1, <2>0, <2>1, <3>1, RefusedAcked
  <2>2. CASE HeadTaken(r)
    <3>1. dev'.count = 1 /\ host.at = 0 /\ mem' = mem
      BY <1>1, <2>0, <2>2 DEF HeadTaken
    <3>2. \A k \in Chunks : ~(k < 1)
      BY DEF Chunks
    <3>3. Number(0 + 1) \in Numbers
      BY Quotient
    <3> QED
      BY <1>0, <1>1, <3>1, <3>2, <3>3 DEF Acked, Numbers
  <2>3. ASSUME NEW j \in 1 .. dev.count, Stepped(r, j), Taken(r, j)
        PROVE  Acked'
    <3>1. /\ dev.count >= 1 /\ j >= dev.count - 1 /\ j <= dev.count /\ j <= host.at
          /\ j # dev.count => Number(dev.count) >= 1 /\ j = dev.count - 1
          /\ Number(j) = Number(host.at) /\ host.at \in Chunks
          /\ dev'.count = j + 1 /\ mem' = [mem EXCEPT ![j] = host.at]
      BY <1>0, <1>1, <2>0, <2>3 DEF Stepped, Taken
    <3>2. host.at - j <= Number(host.at)
      <4>1. CASE j = dev.count
        BY <1>1, <3>1, <4>1
      <4>2. CASE j # dev.count
        <5>1. host.at \in Nat /\ dev.count \in Nat \ {0}
          BY <1>0, <3>1
        <5> QED
          BY <1>0, <1>1, <3>1, <4>2, <5>1, NotBeyond
      <4> QED
        BY <4>1, <4>2
    <3>3. j = host.at
      <4>1. CASE j < host.at
        <5>1. j \in Nat /\ host.at \in Nat
          BY <1>0
        <5>2. Number(j) = Number(host.at) - (host.at - j)
          BY <3>2, <4>1, <5>1, NumberBelow
        <5> QED
          BY <1>0, <3>1, <4>1, <5>1, <5>2 DEF Numbers
      <4> QED
        BY <1>0, <3>1, <4>1
    <3>4. \A k \in Chunks : k < j + 1 => mem'[k] = k
      <4>1. \A k \in Chunks : k < j + 1 => k = j \/ k < dev.count
        BY <1>0, <3>1 DEF Chunks
      <4> QED
        BY <1>0, <1>1, <3>1, <3>3, <4>1
    <3>5. Number(host.at + 1) \in Numbers
      BY <1>0, Quotient
    <3> QED
      BY <1>0, <1>1, <3>1, <3>3, <3>4, <3>5 DEF Acked, Numbers
  <2> QED
    BY <1>3, <2>1, <2>2, <2>3 DEF Outcome, Done, Stepped
<1> QED
  BY <1>2, <1>3 DEF Outcome, Cleared, HeadTaken, Stepped, Refused, Taken

LEMMA ReadAnswerAcked == IInv /\ Acked /\ ReadAnswer => Acked'
<1> SUFFICES ASSUME IInv, Acked, ReadAnswer, "forged" \notin fatal PROVE Acked'
  BY DEF ReadAnswer, Acked
<1>0. /\ UNCHANGED <<dev, mem, fatal>> /\ answer \in {"ack", "nack"} /\ answer' = "none"
      /\ dev.count >= 1 => host.at - dev.count <= Number(host.at)
      /\ \A k \in Chunks : k < dev.count => mem[k] = k
      /\ answer = "ack" /\ dev.count >= 1 => host.at + 1 - dev.count <= Number(host.at + 1)
      /\ host.at \in Int /\ dev.count \in Int
  BY DEF IInv, ReadAnswer, TypeOK, Acked
<1>1. CASE answer = "nack"
  <2>1. host'.at = host.at
    BY <1>1 DEF ReadAnswer, IInv, TypeOK
  <2> QED
    BY <1>0, <2>1 DEF Acked
<1>2. CASE answer = "ack"
  <2>1. host'.at = host.at + 1
    BY <1>2 DEF ReadAnswer
  <2>2. dev'.count >= 1 => host'.at - dev'.count <= Number(host'.at)
    BY <1>0, <1>2, <2>1
  <2> QED
    BY <1>0, <2>2 DEF Acked
<1> QED
  BY <1>0, <1>1, <1>2

LEMMA AckedStep == IInv /\ Acked /\ [Next]_vars => Acked'
<1> SUFFICES ASSUME IInv, Acked, [Next]_vars PROVE Acked'
  OBVIOUS
<1>0. LineOK /\ TypeOK
  BY DEF IInv
<1>1. CASE Send
  BY <1>0, <1>1 DEF Send, Acked, TypeOK
<1>2. CASE TakeFrame
  <2> SUFFICES ASSUME "forged" \notin fatal PROVE Acked'
    BY <1>2 DEF Acked, TakeFrame, Answer
  <2> QED
    BY <1>2, ReceiveOutcome, AnswerAcked DEF TakeFrame
<1>3. CASE SwallowFrame
  <2> SUFFICES ASSUME "forged" \notin fatal PROVE Acked'
    BY <1>3 DEF Acked, SwallowFrame, Answer
  <2> QED
    BY <1>3, StrayOutcome, AnswerAcked DEF SwallowFrame, Whole
<1>4. CASE ReadAnswer
  BY <1>4, ReadAnswerAcked
<1>5. CASE LeftTimesOut
  <2>1. PICK r \in Stray : dev' = r.dev /\ mem' = r.mem
    BY <1>5 DEF LeftTimesOut
  <2>2. /\ Outcome(r)
        /\ Cleared(r) \/ \E j \in 1 .. dev.count : Stepped(r, j) /\ Refused(r, j)
    BY <1>5, StrayOutcome DEF LeftTimesOut, Whole
  <2>3. UNCHANGED <<host, fatal, answer>>
    BY <1>5 DEF LeftTimesOut
  <2> QED
    BY <2>1, <2>2, <2>3, RefusedAcked
<1>6. CASE LineDamages
  BY <1>6 DEF LineDamages, Acked
<1>7. CASE LineDrops
  BY <1>7 DEF LineDrops, Acked
<1>8. CASE LineChangesAnswer
  BY <1>8 DEF LineChangesAnswer, Acked
<1>9. CASE LineDropsAnswer
  BY <1>9 DEF LineDropsAnswer, Acked
<1>10. CASE LineInserts
  <2>1. dev'.count = dev.count
    BY <1>0, <1>10 DEF LineInserts, TypeOK
  <2> QED
    BY <1>10, <2>1 DEF LineInserts, Acked
<1>11. CASE UNCHANGED vars
  BY <1>11 DEF vars, Acked
<1> QED
  BY <1>1, <1>2, <1>3, <1>4, <1>5, <1>6, <1>7, <1>8, <1>9, <1>10, <1>11
     DEF Next, Works, Faults

\* What the ROM counts as taken is in the memory of the device, whatever becomes
\* of the frames and however far it is taken back, as long as no refusal is turned
\* into 0xAA: receive_frame stores before it checks, and goes back by a frame
\* before it checks (AcknowledgedIsThere).
THEOREM AcknowledgedStays == Spec => []AcknowledgedIsThere
<1>1. Init => Acked
  BY DEF Init, Acked, Closed, Chunks
<1>2. Acked => AcknowledgedIsThere
  BY DEF Acked, AcknowledgedIsThere
<1> QED
  BY <1>1, <1>2, AckedStep, Inductive, PTL DEF Spec
-----------------------------------------------------------------------------
(***************************************************************************)
(* The refinement.  As long as no fault was fatal the device has the       *)
(* frames the host has an answer for, or one more, and an answer 0xAA says *)
(* that it has the frame under way.                                        *)
(***************************************************************************)
Got == IF ran = <<>> THEN dev.count ELSE N + 2

InStep ==
    fatal = {} =>
        /\ ~dev.left
        /\ ran = <<>> => dev.count = host.at \/ dev.count = host.at + 1
        /\ line # NoFrame =>
               /\ line.magic = Magic(host.at) /\ line.last = Frame(host.at).last
               /\ line.seq = Number(host.at) \/ ~(Repeats(line) \/ Shortened(line))
        /\ answer = "ack" => Got = host.at + 1

LEMMA GotIs == ASSUME IInv, InStep, fatal = {}
               PROVE  /\ host.at \in 0 .. N + 2 /\ Got \in 0 .. N + 2
                      /\ Got = host.at \/ Got = host.at + 1
<1>1. host.at \in 0 .. N + 2 /\ dev.count \in 0 .. N + 1
  BY DEF IInv, TypeOK
<1>2. CASE ran = <<>>
  BY <1>1, <1>2 DEF InStep, Got
<1>3. CASE ran # <<>>
  BY <1>1, <1>3 DEF IInv, RanOK, Got
<1> QED
  BY <1>2, <1>3

\* no part of a frame is left over: it is no longer than the ROM expects
LEMMA NoneLeft ==
    ASSUME IInv, InStep, line # NoFrame, fatal = {}, NEW r \in Receive(line)
    PROVE  r.dev.left = FALSE
<1>0. /\ host.at \in 0 .. N + 1 /\ dev \in DevType /\ dev.count \in 0 .. N + 1
      /\ dev.count >= 1 => dev.byte = Number(dev.count) /\ dev.total = N + 1
      /\ dev.left = FALSE /\ rest \in {100, Full} /\ RanOK
      /\ ran = <<>> => dev.count = host.at \/ dev.count = host.at + 1
      /\ line.magic = Magic(host.at) /\ line.last = Frame(host.at).last
      /\ line.seq = Number(host.at) \/ ~(Repeats(line) \/ Shortened(line))
  BY UnderWay DEF InStep, IInv, TypeOK, Rests, DevType
<1>1. /\ line.magic = "head" <=> host.at = 0
      /\ line.magic = "data" <=> host.at \in Chunks
      /\ line.magic = "tail" <=> host.at = N + 1
  <2>1. line.magic = Magic(host.at) /\ host.at \in 0 .. N + 1
    BY <1>0
  <2> QED
    BY <2>1, FrameIs
<1>2. ASSUME NEW want, ~(line.last > want), NEW d, d.left = FALSE, NEW m,
             NEW accepted, accepted.dev.left = FALSE,
             r = Check(line, want, Result("nack", d, m), accepted)
      PROVE  r.dev.left = FALSE
  BY <1>2 DEF Check, Result
<1>3. CASE r \in Scan
  BY <1>3 DEF Scan, Result, Closed
<1>4. CASE line.magic = "head"
  <2>1. line.last = HeadLast
    BY <1>0, <1>1, <1>4 DEF Frame
  <2>2. Closed.left = FALSE /\ ~(line.last > HeadLast)
    BY <2>1 DEF Closed, HeadLast
  <2> DEFINE acc == Result("ack", [count |-> 1, byte |-> 1, total |-> N + 1, left |-> FALSE], mem)
  <2>4. acc.dev.left = FALSE
    BY DEF Result
  <2> HIDE DEF acc
  <2>3. CASE r = Check(line, HeadLast, Result("nack", Closed, mem), acc)
    BY <1>2, <2>2, <2>3, <2>4, Zenon
  <2> QED
    BY <1>3, <1>4, <2>3 DEF Receive, ReceiveHead, acc
<1>5. CASE line.magic = "data" /\ dev.count # 0
  <2> DEFINE back == line.seq # dev.byte
             d == IF back THEN GoBack(line) ELSE dev
             want == 4 + (IF ~back /\ dev.count = dev.total - 1 THEN rest ELSE Full)
             m == Stored(line, d.count)
             acc == Result("ack", [d EXCEPT !.count = @ + 1, !.byte = NumberAfter(@)], m)
  <2>1. \/ r.dev = dev
        \/ r.dev = d
        \/ Complemented(line) /\ r = Check(line, want, Result("nack", d, m), acc)
    BY <1>5 DEF Receive, ReceiveData, Result
  <2>2. \E a, b, c : d = [count |-> a, byte |-> b, total |-> c, left |-> FALSE]
    <3>1. CASE back
      <4>1. d = [dev EXCEPT !.byte = line.seq, !.count = @ - 1] /\ line.seq \in Int
        BY <3>1, UnderWay, CarriedIs DEF GoBack, Numbers
      <4> HIDE DEF d
      <4>2. /\ dev.count \in Int /\ dev.total \in Int /\ dev.left = FALSE
            /\ dev = [count |-> dev.count, byte |-> dev.byte, total |-> dev.total,
                      left |-> dev.left]
        BY <1>0 DEF DevType
      <4>3. d = [count |-> dev.count - 1, byte |-> line.seq, total |-> dev.total, left |-> FALSE]
        BY <4>1, <4>2
      <4> QED
        BY <4>3, Zenon
    <3>2. CASE ~back
      <4>1. dev = [count |-> dev.count, byte |-> dev.byte, total |-> dev.total, left |-> FALSE]
        BY <1>0 DEF DevType
      <4> QED
        BY <3>2, <4>1, Zenon
    <3> QED
      BY <3>1, <3>2
  <2>3. acc.dev.left = FALSE
    <3> HIDE DEF d
    <3>1. PICK a, b, c : d = [count |-> a, byte |-> b, total |-> c, left |-> FALSE]
      BY <2>2
    <3>2. acc.dev = [count |-> a + 1, byte |-> NumberAfter(b), total |-> c, left |-> FALSE]
      BY <3>1 DEF Result
    <3> QED
      BY <3>2
  <2>4. Complemented(line) => ~(line.last > want)
    <3>1. /\ host.at \in Chunks /\ dev.count >= 1 /\ ran = <<>>
          /\ line.last = 4 + (IF host.at = N THEN rest ELSE Full)
      BY <1>0, <1>1, <1>5 DEF Frame, RanOK, Chunks
    <3>2. CASE ~back /\ dev.count = N /\ rest < Full /\ Complemented(line)
      <4>1. Shortened(line)
        BY <1>0, <3>1, <3>2 DEF Shortened, Complemented
      <4>2. Number(host.at) = Number(N)
        BY <1>0, <3>1, <3>2, <4>1
      <4>3. host.at # N - 1
        <5> DEFINE a == N - 1
        <5>1. a \in Nat /\ a + 1 = N
          OBVIOUS
        <5> HIDE DEF a
        <5>2. Number(a) \in Numbers
          BY <5>1, Quotient
        <5>3. Number(a) # Number(a + 1)
          BY <5>1, <5>2, NumberNext DEF Numbers
        <5>4. host.at # a
          BY <4>2, <5>1, <5>3
        <5> QED
          BY <5>4 DEF a
      <4>4. host.at = N
        BY <1>0, <3>1, <3>2, <4>3
      <4> QED
        BY <1>0, <3>1, <3>2, <4>4 DEF Full
    <3>3. CASE ~(~back /\ dev.count = N /\ rest < Full)
      <4>1. want = 4 + Full
        BY <1>0, <3>1, <3>3 DEF Full
      <4>2. line.last <= 4 + Full /\ line.last \in Int
        BY <1>0, <3>1 DEF Full
      <4> QED
        BY <4>1, <4>2 DEF Full
    <3> QED
      BY <3>2, <3>3
  <2> HIDE DEF d, m, want, acc
  <2>5. d.left = FALSE
    BY <2>2
  <2> QED
    <3>1. CASE r.dev = dev \/ r.dev = d
      BY <1>0, <2>5, <3>1
    <3>2. CASE Complemented(line) /\ r = Check(line, want, Result("nack", d, m), acc)
      BY <1>2, <2>3, <2>4, <2>5, <3>2, Zenon
    <3> QED
      BY <2>1, <3>1, <3>2
<1>6. CASE line.magic = "tail" /\ dev.count # 0
  <2> DEFINE refused == Result("nack", dev, mem)
             acc == IF dev.count = dev.total THEN Result("done", dev, mem) ELSE refused
  <2>1. r = refused \/ r = Check(line, TailLast, refused, acc)
    BY <1>6 DEF Receive, ReceiveTail
  <2>2. ~(line.last > TailLast)
    BY <1>0, <1>1, <1>6 DEF Frame, TailLast, Chunks
  <2>3. refused.dev.left = FALSE /\ acc.dev.left = FALSE
    BY <1>0 DEF Result
  <2> HIDE DEF acc
  <2> QED
    BY <1>0, <1>2, <2>1, <2>2, <2>3
<1>7. CASE line.magic # "head" /\ dev.count = 0
  BY <1>3, <1>7 DEF Receive
<1> QED
  BY <1>0, <1>4, <1>5, <1>6, <1>7 DEF Magic

\* whatever receive_frame does with the frame, the device stays in step
LEMMA AnswerInStep ==
    ASSUME IInv, InStep, line # NoFrame, fatal = {},
           NEW r, Outcome(r), Answer(r), r.dev.left = FALSE
    PROVE  InStep'
<1>0. /\ host.at \in 0 .. N + 1 /\ dev.count \in 0 .. N + 1
      /\ dev.count >= 1 => dev.byte = Number(dev.count)
      /\ host' = host /\ fatal' = fatal /\ line' = NoFrame
      /\ RanOK
  BY UnderWay DEF Answer, IInv
<1>1. /\ ran = <<>> => dev.count = host.at \/ dev.count = host.at + 1
      /\ line.magic = Magic(host.at)
      /\ line.seq = Number(host.at) \/ ~Repeats(line)
      /\ Whole /\ dev'.left = FALSE
  <2>1. dev' = Closed \/ dev' = r.dev
    BY DEF Answer
  <2>2. Magic(host.at) # "other"
    BY DEF Magic
  <2> QED
    BY <2>1, <2>2 DEF InStep, Whole, Closed
<1>2. CASE Done(r)
  <2>1. /\ host.at = N + 1 /\ ran' = Append(ran, r.mem) /\ answer' = "ack" /\ ran = <<>>
    BY <1>0, <1>2 DEF Answer, Done, RanOK
  <2>2. ran' # <<>>
    BY <2>1
  <2> QED
    BY <1>0, <1>1, <2>1, <2>2 DEF InStep, Got
<1>3. CASE r.answer # "done"
  <2>0. dev' = r.dev /\ answer' = r.answer /\ ran' = ran
    BY <1>3 DEF Answer
  <2>1. CASE Cleared(r)
    <3>1. dev'.count = 0 /\ answer' # "ack"
      BY <2>0, <2>1 DEF Cleared
    <3>2. line.magic = "head" => host.at = 0
      BY <1>0, <1>1, FrameIs
    <3>3. ran = <<>> => host.at = 0
      BY <1>0, <1>1, <2>1, <3>2 DEF Cleared
    <3> QED
      BY <1>0, <1>1, <2>0, <3>1, <3>3 DEF InStep
  <2>2. CASE HeadTaken(r)
    <3>1. dev'.count = 1 /\ host.at = 0 /\ ran = <<>>
      BY <1>0, <2>0, <2>2 DEF HeadTaken, RanOK
    <3> QED
      BY <1>0, <1>1, <2>0, <3>1 DEF InStep, Got
  <2>3. ASSUME NEW j \in 1 .. dev.count, Stepped(r, j)
        PROVE  InStep'
    <3>1. /\ dev.count >= 1 /\ ran = <<>>
          /\ j = dev.count \/ j = dev.count - 1
          /\ j # dev.count => line.seq = Number(dev.count) - 1 /\ Repeats(line)
          /\ Refused(r, j) \/ Taken(r, j)
      BY <1>0, <1>1, <2>3 DEF Stepped, RanOK, Repeats
    <3>2. Number(dev.count) \in Numbers
      BY <1>0, Quotient
    <3>3. j = host.at \/ j = host.at + 1
      <4>1. CASE j = dev.count
        BY <1>1, <3>1, <4>1
      <4>2. CASE j # dev.count
        <5>1. Number(host.at) = Number(dev.count) - 1 /\ j = dev.count - 1
          BY <1>1, <3>1, <4>2
        <5>2. dev.count # host.at
          BY <3>2, <5>1 DEF Numbers
        <5> QED
          BY <1>0, <1>1, <3>1, <5>1, <5>2
      <4> QED
        BY <4>1, <4>2
    <3>4. CASE Refused(r, j)
      BY <1>0, <1>1, <2>0, <3>1, <3>3, <3>4 DEF Refused, InStep
    <3>5. CASE Taken(r, j)
      <4>1. j = host.at /\ dev'.count = host.at + 1
        BY <1>0, <2>0, <3>3, <3>5 DEF Taken
      <4> QED
        BY <1>0, <1>1, <2>0, <3>1, <4>1 DEF InStep, Got
    <3> QED
      BY <3>1, <3>4, <3>5
  <2> QED
    BY <1>3, <2>1, <2>2, <2>3 DEF Outcome, Done
<1> QED
  BY <1>2, <1>3 DEF Outcome, Cleared, HeadTaken, Stepped, Refused, Taken

\* the faults that are not fatal leave the magic and the length alone, and make
\* no number of it that takes the ROM back or is that of a shorter frame
LEMMA DamageInStep == IInv /\ InStep /\ LineDamages /\ fatal' = {} => InStep'
<1> SUFFICES ASSUME IInv, InStep, LineDamages, fatal' = {} PROVE InStep'
  OBVIOUS
<1>1. PICK g \in Damaged(line) :
          /\ line' = g
          /\ fatal' = IF EndsDownload(line, g) THEN fatal \cup {"frame"} ELSE fatal
  BY DEF LineDamages
<1>2. fatal = {} /\ ~EndsDownload(line, g)
  BY <1>1
<1>3. /\ host.at \in 0 .. N + 1 /\ line = Frame(host.at)
      /\ UNCHANGED <<host, dev, ran, answer, rest>>
  BY UnderWay, CarriedIs DEF LineDamages
<1>4. /\ g.magic = Magic(host.at) /\ g.last = Frame(host.at).last
      /\ g.seq = Number(host.at) \/ ~(Repeats(g) \/ Shortened(g))
  BY <1>2, <1>3, FrameIs DEF EndsDownload
<1>5. dev.count \in 0 .. N + 1
  BY UnderWay DEF LineDamages
<1>6. Magic(host.at)' = Magic(host.at) /\ Frame(host.at)' = Frame(host.at)
  BY <1>3, SameFrame DEF Magic
<1>7. Repeats(line)' = Repeats(g) /\ Shortened(line)' = Shortened(g)
  BY <1>1, <1>3 DEF Repeats, Shortened
<1> QED
  BY <1>1, <1>2, <1>3, <1>4, <1>5, <1>6, <1>7 DEF InStep, Got

LEMMA ReadAnswerInStep == IInv /\ InStep /\ ReadAnswer => InStep'
<1> SUFFICES ASSUME IInv, InStep, ReadAnswer, fatal = {} PROVE InStep'
  BY DEF InStep, ReadAnswer
<1>0. /\ LineOK /\ host.at \in 0 .. N + 2 /\ dev.count \in 0 .. N + 1
      /\ host \in [at : 0 .. N + 2, pc : {"send", "wait", "done"}]
      /\ answer \in {"ack", "nack"} /\ line' = NoFrame /\ answer' = "none"
      /\ UNCHANGED <<dev, ran>>
  BY DEF IInv, ReadAnswer, TypeOK, LineOK
<1>1. CASE answer = "nack"
  <2>1. host'.at = host.at
    BY <1>0, <1>1 DEF ReadAnswer
  <2> QED
    BY <1>0, <2>1 DEF InStep
<1>2. CASE answer = "ack"
  <2>1. host'.at = host.at + 1
    BY <1>2 DEF ReadAnswer
  <2>2. ran = <<>> => dev.count = host.at + 1
    BY <1>2 DEF InStep, Got
  <2> QED
    BY <1>0, <2>1, <2>2 DEF InStep
<1> QED
  BY <1>0, <1>1, <1>2

LEMMA InStepStep == IInv /\ InStep /\ [Next]_vars => InStep' /\ (fatal' = {} => fatal = {})
<1> SUFFICES ASSUME IInv, InStep, [Next]_vars
             PROVE  InStep' /\ (fatal' = {} => fatal = {})
  OBVIOUS
<1>0. TypeOK /\ LineOK
  BY DEF IInv
<1>1. CASE Send
  <2>1. /\ host'.at = host.at /\ line' = Frame(host.at) /\ host.at \in 0 .. N + 1
        /\ fatal' = fatal /\ UNCHANGED <<answer, dev, ran, rest>>
    BY <1>0, <1>1 DEF Send, TypeOK, LineOK
  <2>2. /\ Frame(host.at).magic = Magic(host.at) /\ Frame(host.at).seq = Number(host.at)
        /\ Number(host.at) \in Numbers
    BY <2>1, FrameIs
  <2>3. Magic(host.at)' = Magic(host.at) /\ Frame(host.at)' = Frame(host.at)
    BY <2>1, SameFrame DEF Magic
  <2> QED
    BY <2>1, <2>2, <2>3 DEF InStep, Got, Numbers
<1>2. CASE TakeFrame
  <2>1. fatal' = fatal
    BY <1>2 DEF TakeFrame, Answer
  <2>2. fatal = {} => InStep'
    BY <1>2, ReceiveOutcome, NoneLeft, AnswerInStep DEF TakeFrame
  <2> QED
    BY <2>1, <2>2 DEF InStep
<1>3. CASE SwallowFrame
  BY <1>3 DEF SwallowFrame, Answer, InStep
<1>4. CASE ReadAnswer
  BY <1>4, ReadAnswerInStep DEF ReadAnswer
<1>5. CASE LeftTimesOut
  BY <1>5 DEF LeftTimesOut, InStep
<1>6. CASE LineDamages
  BY <1>6, DamageInStep DEF LineDamages, InStep
<1>7. CASE LineDrops
  BY <1>7 DEF LineDrops, InStep
<1>8. CASE LineChangesAnswer
  <2>1. PICK a \in {"ack", "nack"} \ {answer} :
            /\ answer' = a
            /\ fatal' = fatal \cup (IF a = "ack" THEN {"forged"}
                                    ELSE IF NotTwice(host.at) THEN {"twice"} ELSE {})
    BY <1>8 DEF LineChangesAnswer
  <2>2. fatal' = {} => fatal = {} /\ answer' = "nack"
    BY <2>1
  <2>3. UNCHANGED <<host, rest, line, dev, ran>>
    BY <1>8 DEF LineChangesAnswer
  <2>4. /\ Magic(host.at)' = Magic(host.at) /\ Frame(host.at)' = Frame(host.at)
        /\ Repeats(line)' = Repeats(line) /\ Shortened(line)' = Shortened(line)
    BY <2>3, SameFrame DEF Magic, Repeats, Shortened
  <2> QED
    BY <2>2, <2>3, <2>4 DEF InStep
<1>9. CASE LineDropsAnswer
  BY <1>9 DEF LineDropsAnswer, InStep
<1>10. CASE LineInserts
  BY <1>10 DEF LineInserts, InStep
<1>11. CASE UNCHANGED vars
  <2>1. /\ Magic(host.at)' = Magic(host.at) /\ Frame(host.at)' = Frame(host.at)
        /\ Repeats(line)' = Repeats(line) /\ Shortened(line)' = Shortened(line)
    BY <1>11, SameFrame DEF vars, Magic, Repeats, Shortened
  <2> QED
    BY <1>11, <2>1 DEF vars, InStep, Got
<1> QED
  BY <1>1, <1>2, <1>3, <1>4, <1>5, <1>6, <1>7, <1>8, <1>9, <1>10, <1>11
     DEF Next, Works, Faults

\* a step of the download is a step of the row of frames, or none
LEMMA StepInStep ==
    ASSUME IInv, InStep, IInv', InStep', [Next]_vars, fatal = {}, fatal' = {}
    PROVE  A!Next \/ UNCHANGED A!vars
<1>1. /\ host.at \in 0 .. N + 2 /\ Got \in 0 .. N + 2
      /\ Got = host.at \/ Got = host.at + 1
  BY GotIs
<1>2. /\ Got' \in 0 .. N + 2
      /\ Got' = host'.at \/ Got' = host'.at + 1
  <2>1. CASE ran' = <<>>
    BY <2>1 DEF IInv, TypeOK, InStep, Got
  <2>2. CASE ran' # <<>>
    BY <2>2 DEF IInv, TypeOK, RanOK, Got
  <2> QED
    BY <2>1, <2>2
<1>3. CASE host'.at = host.at
  <2>1. UNCHANGED <<host.at, Got>> \/ (Got = host.at /\ Got' = Got + 1 /\ Got < N + 2)
        \/ (Got = host.at + 1 /\ Got' = host.at)
    BY <1>1, <1>2, <1>3
  <2> QED
    BY <1>3, <2>1 DEF A!Next, A!Accept, A!TakeBack, A!vars, Got
<1>4. CASE host'.at # host.at
  <2>1. ReadAnswer
    <3>1. host \in [at : 0 .. N + 2, pc : {"send", "wait", "done"}]
      BY DEF IInv, TypeOK
    <3> QED
      BY <1>4, <3>1 DEF Next, Works, Send, TakeFrame, SwallowFrame, Answer, LeftTimesOut,
                        Faults, LineDamages, LineDrops, LineInserts, LineChangesAnswer,
                        LineDropsAnswer, vars
  <2>2. answer = "ack" /\ host'.at = host.at + 1 /\ UNCHANGED <<dev, ran>>
    BY <1>4, <2>1 DEF ReadAnswer, IInv, TypeOK
  <2>3. Got = host.at + 1 /\ Got' = Got
    BY <2>2 DEF InStep, Got
  <2> QED
    BY <2>2, <2>3 DEF A!Next, A!Confirm, Got
<1> QED
  BY <1>3, <1>4

\* Without a fatal fault the ROM is never more than one frame ahead of
\* upload_image, takes no frame but the one under way, and takes back no other:
\* the download implements StopAndWait (StaysInStep).
THEOREM InStepThroughout == Spec => StaysInStep
<1>1. Init => InStep /\ A!Init
  BY DEF Init, InStep, A!Init, Closed
<1>2. IInv /\ InStep /\ IInv' /\ InStep' /\ [Next]_vars /\ (fatal' = {} => fatal = {})
      => [fatal' = {} => A!Next \/ UNCHANGED A!vars]_vars
  BY StepInStep
<1> QED
  BY <1>1, <1>2, InStepStep, Inductive, PTL DEF Spec, StaysInStep
===============================================================================
