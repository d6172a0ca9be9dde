----------------------------- MODULE BootSerial -----------------------------
(***************************************************************************)
(* The download of a program over the serial line: the host (fastburn)     *)
(* sends a head frame, the image in frames of 1024 bytes and a tail frame, *)
(* each again until it reads the byte 0xAA; the boot ROM (receive_frame)   *)
(* takes frames apart byte by byte, stores their payload as it comes, and  *)
(* answers 0xAA, 0x55 or nothing at all.  The line changes, drops and      *)
(* inserts bytes.  A frame is taken as a whole: its magic, its sequence    *)
(* number and whether the complement of it fits, whether the type in a     *)
(* head is one, its payload (the number of the chunk, 0 for garbage), the  *)
(* index of its last byte, and whether its checksum fits, which is taken   *)
(* to tell every changed frame.                                            *)
(***************************************************************************)
EXTENDS Integers, Sequences

CONSTANTS N,          \* chunks of the image
          SeqMod,     \* sequence numbers are counted modulo this (256)
          MaxFaults   \* bound on the faults of the line

ASSUME BootAssumption == N \in Nat \ {0} /\ SeqMod \in Nat \ {0, 1} /\ MaxFaults \in Nat

Full == 1024                \* payload of a data frame
Rests == {100, Full}        \* payload of the last one
HeadLast == 13
TailLast == 4

VARIABLES
    host,     \* upload_image: the next frame and what it waits for
    rest,     \* bytes of the image in the last data frame
    line,     \* the frame on the line
    answer,   \* the answer on the line
    dev,      \* framing_context_t, and what is left over of an ended frame
    mem,      \* the chunks in the memory of the device
    ran,      \* the memory each time the program was started
    faults,   \* number of faults so far
    fatal     \* history: the faults after which the download need not end
vars == <<host, rest, line, answer, dev, mem, ran, faults, fatal>>

Chunks == 1 .. N
Magic(k) == IF k = 0 THEN "head" ELSE IF k \in Chunks THEN "data" ELSE "tail"
\* byte_stream: frame number k of the image
Frame(k) ==
    [magic |-> Magic(k), seq |-> k % SeqMod, fits |-> TRUE, type |-> TRUE,
     chunk |-> IF k \in Chunks THEN k ELSE 0,
     last |-> IF k = 0 THEN HeadLast ELSE IF k = N + 1 THEN TailLast
              ELSE 4 + (IF k = N THEN rest ELSE Full),
     sum |-> TRUE]
NoFrame == [magic |-> "none"]
Closed == [count |-> 0, byte |-> 0, total |-> 0, left |-> FALSE]
Image == [k \in Chunks |-> k]

Init ==
    /\ host = [at |-> 0, pc |-> "send"]
    /\ rest \in Rests
    /\ line = NoFrame /\ answer = "none"
    /\ dev = Closed
    /\ mem = [k \in Chunks |-> 0]
    /\ ran = <<>> /\ faults = 0 /\ fatal = {}

\* deviation: only the frame of the number expected is taken
RepeatsNever(f) == FALSE

\* deviation: 255 comes before 0
RepeatsAtWrap(f) == dev.count > 1 /\ f.seq = (dev.byte + SeqMod - 1) % SeqMod

\* the frame of the number expected, or the one before it once more
Repeats(f) == dev.count > 1 /\ f.seq = dev.byte - 1

\* the ROM takes it for the last frame, which may end before it does
Shortened(f) == f.fits /\ f.seq = dev.byte /\ dev.count = dev.total - 1 /\ rest < Full

(***************************************************************************)
(* What the line makes of a frame: any of its fields, and any of them      *)
(* together.  A changed frame ends the download or may do so if it is not  *)
(* answered, if a part of it is read as a frame of its own, or if the ROM  *)
(* goes back to a frame the host will not send again; a changed payload,   *)
(* complement or number of a data or tail frame is refused and sent again. *)
(***************************************************************************)
Damaged(f) ==
    {g \in [magic : {"head", "data", "tail", "other"}, seq : 0 .. SeqMod - 1,
            fits : BOOLEAN, type : BOOLEAN, chunk : {f.chunk, 0},
            last : {f.last - 1, f.last, f.last + 1}, sum : {FALSE}] :
        g.magic = "head" \/ g.type}
EndsDownload(f, g) ==
    \/ g.magic # f.magic \/ g.last # f.last
    \/ f.magic = "head" /\ (g.seq # f.seq \/ ~g.fits \/ ~g.type)
    \/ g.seq # f.seq /\ (Repeats(g) \/ Shortened(g))

Send ==
    /\ host.pc = "send"
    /\ line' = Frame(host.at)
    /\ host' = [host EXCEPT !.pc = "wait"]
    /\ UNCHANGED <<rest, answer, dev, mem, ran, faults, fatal>>

LineDamages ==
    /\ line # NoFrame /\ line.sum /\ faults < MaxFaults
    /\ \E g \in Damaged(line) :
         /\ line' = g
         /\ fatal' = IF EndsDownload(line, g) THEN fatal \cup {"frame"} ELSE fatal
    /\ faults' = faults + 1
    /\ UNCHANGED <<host, rest, answer, dev, mem, ran>>

LineDrops ==
    /\ line # NoFrame /\ faults < MaxFaults
    /\ line' = NoFrame
    /\ faults' = faults + 1 /\ fatal' = fatal \cup {"lost"}
    /\ UNCHANGED <<host, rest, answer, dev, mem, ran>>

\* a byte between the frames
LineInserts ==
    /\ ~dev.left /\ faults < MaxFaults
    /\ dev' = [dev EXCEPT !.left = TRUE]
    /\ faults' = faults + 1 /\ fatal' = fatal \cup {"byte"}
    /\ UNCHANGED <<host, rest, line, answer, mem, ran>>

(***************************************************************************)
(* receive_frame.  The result is 1 ("ack"), 2 ("nack"), 3 ("none") or 4    *)
(* ("done"), after which the context is as in "dev".  A frame that is      *)
(* shorter than expected ends in a timeout, one that is longer is refused  *)
(* and what is left over is read as a frame of its own.                    *)
(***************************************************************************)
Result(a, d, m) == [answer |-> a, dev |-> d, mem |-> m]
Check(f, want, refused, accepted) ==
    IF f.last < want THEN [refused EXCEPT !.answer = "none"]
    ELSE IF f.last > want THEN [refused EXCEPT !.dev.left = TRUE]
    ELSE IF f.sum THEN accepted ELSE refused

\* without a head all bytes are dropped, up to one that looks like a head;
\* that one may be refused when it is one of the last
Scan == {Result(a, Closed, mem) : a \in {"none", "nack"}}

Complemented(f) == f.fits

\* the context is cleared before the head is checked; after a wrong number or
\* type the rest of the head is scanned for another one
ReceiveHead(f) ==
    IF f.seq # 0 \/ ~Complemented(f) \/ ~f.type THEN Scan
    ELSE {Check(f, HeadLast, Result("nack", Closed, mem),
                Result("ack", [count |-> 1, byte |-> 1, total |-> N + 1, left |-> FALSE], mem))}

Stored(f, k) ==
    IF k \notin Chunks THEN mem ELSE [mem EXCEPT ![k] = f.chunk]
\* deviation: the number expected grows beyond a byte
NumberAfterNoWrap(b) == b + 1
NumberAfter(b) == (b + 1) % SeqMod

\* deviation: a repeated frame is counted again
GoBackCounted(f) == [dev EXCEPT !.byte = f.seq]
GoBack(f) == [dev EXCEPT !.byte = f.seq, !.count = @ - 1]

\* the ROM as it is, or gone back by what looks like the frame before
AsItIsOrBack == {dev} \cup {GoBack(f) : f \in {g \in [seq : 0 .. SeqMod - 1] : Repeats(g)}}

\* bytes that are no frame of the host: they clear the context if they look like
\* a head, and if they look like a data frame they are stored, maybe after going
\* back, until the checksum does not fit or no byte follows
Garbage == [chunk |-> 0]
Stray ==
    IF dev.count = 0 THEN Scan
    ELSE Scan \cup
         {r \in [answer : {"none", "nack"},
                 dev : {[d EXCEPT !.left = l] : d \in AsItIsOrBack, l \in BOOLEAN},
                 mem : {mem} \cup {Stored(Garbage, d.count) : d \in AsItIsOrBack}] :
              r.mem \in {mem, Stored(Garbage, r.dev.count)}}

ReceiveData(f) ==
    LET back == f.seq # dev.byte
        d == IF back THEN GoBack(f) ELSE dev
        want == 4 + (IF ~back /\ dev.count = dev.total - 1 THEN rest ELSE Full)
        m == Stored(f, d.count)
    IN  IF back /\ ~Repeats(f) THEN {Result("nack", dev, mem)}
        ELSE IF ~Complemented(f) THEN {Result("nack", d, mem)}
        ELSE {Check(f, want, Result("nack", d, m),
                    Result("ack", [d EXCEPT !.count = @ + 1, !.byte = NumberAfter(@)], m))}

ReceiveTail(f) ==
    LET refused == Result("nack", dev, mem)
    IN  IF f.seq # dev.byte \/ ~Complemented(f) THEN {refused}
        ELSE {Check(f, TailLast, refused,
                    IF dev.count = dev.total THEN Result("done", dev, mem) ELSE refused)}

Receive(f) ==
    IF f.magic = "head" THEN ReceiveHead(f)
    ELSE IF dev.count = 0 THEN Scan
    ELSE IF f.magic = "data" THEN ReceiveData(f)
    ELSE IF f.magic = "tail" THEN ReceiveTail(f)
    ELSE Stray

\* deviation: the context survives the program
AnswerKeepsContext(r) ==
    /\ line' = NoFrame
    /\ answer' = IF r.answer = "done" THEN "ack" ELSE r.answer
    /\ dev' = r.dev
    /\ mem' = r.mem
    /\ ran' = IF r.answer = "done" THEN Append(ran, r.mem) ELSE ran
    /\ UNCHANGED <<host, rest, faults, fatal>>

\* serial_invoke: answer, or answer and start the program; when the program
\* returns the context is cleared
Answer(r) ==
    /\ line' = NoFrame
    /\ answer' = IF r.answer = "done" THEN "ack" ELSE r.answer
    /\ dev' = IF r.answer = "done" THEN Closed ELSE r.dev
    /\ mem' = r.mem
    /\ ran' = IF r.answer = "done" THEN Append(ran, r.mem) ELSE ran
    /\ UNCHANGED <<host, rest, faults, fatal>>

TakeFrame ==
    /\ line # NoFrame /\ ~dev.left
    /\ \E r \in Receive(line) : Answer(r)

\* what is left over takes the next frame with it, unless it timed out before
SwallowFrame ==
    /\ line # NoFrame /\ dev.left
    /\ \E r \in Stray : Answer(r)

LeftTimesOut ==
    /\ dev.left
    /\ \E r \in Stray : r.answer = "none" /\ dev' = r.dev /\ mem' = r.mem
    /\ UNCHANGED <<host, rest, line, answer, ran, faults, fatal>>

(***************************************************************************)
(* Answers may change or be lost.  The host takes any byte but 0xAA for a  *)
(* no.  A frame whose answer was 0xAA and is sent again is taken again,    *)
(* unless it is the last one of the numbering, a short one or the tail.    *)
(***************************************************************************)
NotTwice(k) == \/ k \in Chunks /\ k % SeqMod = SeqMod - 1
               \/ k = N /\ rest < Full
               \/ k = N + 1
LineChangesAnswer ==
    /\ answer \in {"ack", "nack"} /\ faults < MaxFaults
    /\ \E a \in {"ack", "nack"} \ {answer} :
         /\ answer' = a
         /\ fatal' = fatal \cup (IF a = "ack" THEN {"forged"}
                                 ELSE IF NotTwice(host.at) THEN {"twice"} ELSE {})
    /\ faults' = faults + 1
    /\ UNCHANGED <<host, rest, line, dev, mem, ran>>

LineDropsAnswer ==
    /\ answer \in {"ack", "nack"} /\ faults < MaxFaults
    /\ answer' = "none"
    /\ faults' = faults + 1 /\ fatal' = fatal \cup {"lost"}
    /\ UNCHANGED <<host, rest, line, dev, mem, ran>>

ReadAnswer ==
    /\ host.pc = "wait" /\ answer # "none"
    /\ answer' = "none"
    /\ host' = IF answer = "nack" THEN [host EXCEPT !.pc = "send"]
               ELSE [at |-> host.at + 1, pc |-> IF host.at = N + 1 THEN "done" ELSE "send"]
    /\ UNCHANGED <<rest, line, dev, mem, ran, faults, fatal>>

Works == Send \/ TakeFrame \/ SwallowFrame \/ ReadAnswer
Faults == LineDamages \/ LineDrops \/ LineInserts \/ LineChangesAnswer \/ LineDropsAnswer
Next == Works \/ LeftTimesOut \/ Faults
\* both sides go on as long as there is something to send or to read
Spec == Init /\ [][Next]_vars /\ WF_vars(Works)
-----------------------------------------------------------------------------
\* Types of the host, the line and the device.
TypeOK ==
    /\ host \in [at : 0 .. N + 2, pc : {"send", "wait", "done"}] /\ rest \in Rests
    /\ answer \in {"none", "ack", "nack"}
    /\ dev \in [count : 0 .. N + 1, byte : 0 .. SeqMod - 1, total : {0, N + 1},
                left : BOOLEAN]
    /\ mem \in [Chunks -> 0 .. N]

\* Whatever the line does, the ROM starts only the complete image, and starts
\* it once (receive_frame answers 4, serial_invoke clears the context).
RunsIntact == ran \in {<<>>, <<Image>>}

\* What the ROM counts as taken, and has answered, is in the memory of the device
\* and stays there: a later frame, damaged in any way or repeated, is stored over
\* a chunk only after the ROM has gone back before it and expects it again;
\* unless a refusal was changed to 0xAA on the line.
AcknowledgedIsThere ==
    "forged" \notin fatal => \A k \in Chunks : k < dev.count => mem[k] = k

\* Refinement: without those faults the ROM is never more than one frame
\* ahead of upload_image, and only ever takes back the frame under way.
A == INSTANCE StopAndWait WITH
         Frames <- N + 2, sent <- host.at,
         got <- IF ran = <<>> THEN dev.count ELSE N + 2
StaysInStep == A!Init /\ [][fatal' = {} => A!Next \/ UNCHANGED A!vars]_vars

\* The faults the protocol answers do not stop the download: upload_image
\* comes to its end if no other happens.
Completes == <>[](fatal = {}) => <>(host.pc = "done")
=============================================================================
