--------------------------- MODULE ConsoleProofs ---------------------------
(***************************************************************************)
(* Theorems about console calls: for any keys, calls, buffers and handlers *)
(* no two calls in progress run on one stack of the kernel; InDOS is the   *)
(* number of calls in progress, as long as no handler of INT 28h is ended  *)
(* by ^C inside a call of its own; and the line that is read for 3Fh is    *)
(* handed over as it was typed.                                            *)
(***************************************************************************)
EXTENDS Console, SequenceTheorems, FiniteSetTheorems, WellFoundedInduction, TLAPS

(* A call of the program, and what INT 23h makes again.                    *)
ProgramOps == {"00", "01", "02", "03", "06", "07", "0A", "0D", "3F", "3FA"}
NestedOps  == {"00", "0D", "25"}
Ops        == ProgramOps \cup {"25", Hook, Int23}
Places     == {"get", "held", "after", "idle", "hand", "done"}

FrameType == [op : Ops, chk : BOOLEAN, on : {"user", "disk", "char", "caller"}, pc : Places,
              next : Places, echo : BOOLEAN, want : Ops \cup {"char", "skip", "ext", "F2", "F4"}]

(* The stack the first call in progress runs on.                           *)
FirstStack(op) == IF op = "25" THEN "disk" ELSE IF InDOS > 1 THEN "caller"
                  ELSE IF op \in CharOps THEN "char" ELSE "disk"

Alone ==
    /\ Len(frames) = 1
    /\ \/ frames[1].op = Int23 /\ frames[1].on = "user" /\ frames[1].want \in ProgramOps
       \/ frames[1].op \in ProgramOps /\ InDOS >= 1 /\ frames[1].on = FirstStack(frames[1].op)

(* INT 28h is run by a call on the character stack, with InDOS 1.          *)
Hooked ==
    /\ frames[1].op \in CharOps /\ frames[1].on = "char"
    /\ frames[2].op = Hook /\ frames[2].on = "user"

Nested ==
    /\ Len(frames) = 3 /\ Hooked
    /\ \/ frames[3].op = Int23 /\ frames[3].on = "user" /\ frames[3].want \in NestedOps /\ InDOS = 1
       \/ /\ frames[3].op \in NestedOps /\ frames[3].on \in {"caller", "disk"}
          /\ frames[3].pc = "done" /\ InDOS = 2

StackInv ==
    /\ frames \in Seq(FrameType) /\ InDOS \in Nat
    /\ breakEna \in BOOLEAN /\ use \in Uses
    /\ \/ frames = <<>>
       \/ Alone
       \/ Len(frames) = 2 /\ Hooked /\ InDOS = 1
       \/ Nested

(* No call made from a handler of INT 28h is left by ^C.                   *)
HandlersReturn == "0D" \notin HookOps \/ TRUE \notin Breaks

ExactInv ==
    /\ StackInv
    /\ breakEna \in Breaks
    /\ frames = <<>> => InDOS = 0
    /\ Alone => InDOS = IF frames[1].op = Int23 THEN 0 ELSE 1
    /\ Nested => frames[3].op \in HookOps

(***************************************************************************)
(* Sequences of frames.                                                    *)
(***************************************************************************)
(* The frame on top is replaced.                                           *)
LEMMA TopReplaced ==
    ASSUME frames \in Seq(FrameType), frames # <<>>, NEW t \in FrameType
    PROVE  /\ SetTop(t) \in Seq(FrameType) /\ Len(SetTop(t)) = Len(frames)
           /\ Len(frames) \in Nat /\ Len(frames) >= 1
           /\ SetTop(t)[Len(frames)] = t
           /\ \A i \in 1 .. Len(frames) - 1 : SetTop(t)[i] = frames[i]
           /\ SetTop(t) # <<>>
<1>1. Len(frames) \in Nat \ {0}
  BY EmptySeq
<1>2. Len(frames) \in 1 .. Len(frames)
  BY <1>1
<1>3. /\ SetTop(t) \in Seq(FrameType) /\ Len(SetTop(t)) = Len(frames)
      /\ \A j \in 1 .. Len(frames) : SetTop(t)[j] = IF j = Len(frames) THEN t ELSE frames[j]
  BY <1>2, ExceptSeq DEF SetTop
<1>5. SetTop(t) # <<>>
  BY <1>1, <1>3, EmptySeq
<1>4. QED
  BY <1>1, <1>3, <1>5

(* The frame on top is one of them.                                        *)
LEMMA TopFrame ==
    ASSUME frames \in Seq(FrameType), frames # <<>>
    PROVE  /\ Top = frames[Len(frames)] /\ Top \in FrameType
           /\ Len(frames) \in Nat /\ Len(frames) >= 1
<1>1. Len(frames) \in Nat \ {0}
  BY EmptySeq
<1>2. Len(frames) \in 1 .. Len(frames)
  BY <1>1
<1>3. QED
  BY <1>1, <1>2, ElementOfSeq DEF Top, Last

(* A frame is put on top of others.                                        *)
LEMMA OneMore ==
    ASSUME NEW fs \in Seq(FrameType), NEW f \in FrameType
    PROVE  /\ Append(fs, f) \in Seq(FrameType) /\ Len(fs) \in Nat
           /\ Len(Append(fs, f)) = Len(fs) + 1 /\ Append(fs, f)[Len(fs) + 1] = f
           /\ \A i \in 1 .. Len(fs) : Append(fs, f)[i] = fs[i]
           /\ Append(fs, f) # <<>>
<1>1. Len(fs) \in Nat
  BY LenProperties
<1>2. /\ Append(fs, f) \in Seq(FrameType) /\ Len(Append(fs, f)) = Len(fs) + 1
      /\ \A i \in 1 .. Len(fs) : Append(fs, f)[i] = fs[i]
      /\ Append(fs, f)[Len(fs) + 1] = f
  OBVIOUS
<1>3. Append(fs, f) # <<>>
  BY <1>1, <1>2, EmptySeq
<1>4. QED
  BY <1>1, <1>2, <1>3

(* The frame on top is taken away.                                         *)
LEMMA OneLess ==
    ASSUME frames \in Seq(FrameType), frames # <<>>
    PROVE  /\ Front(frames) \in Seq(FrameType) /\ Len(Front(frames)) = Len(frames) - 1
           /\ Len(frames) \in Nat /\ Len(frames) >= 1
           /\ \A i \in 1 .. Len(frames) - 1 : Front(frames)[i] = frames[i]
           /\ Len(frames) = 1 <=> Front(frames) = <<>>
<1>1. Len(frames) \in Nat \ {0}
  BY EmptySeq
<1> DEFINE n == Len(frames) - 1
<1>2. \A i \in 1 .. n : frames[i] \in FrameType
  BY <1>1, ElementOfSeq
<1>3. /\ SubSeq(frames, 1, n) \in Seq(FrameType) /\ Len(SubSeq(frames, 1, n)) = n
      /\ \A i \in 1 .. n : SubSeq(frames, 1, n)[i] = frames[i]
  <2> DEFINE m == 1
  <2>1. n \in Int /\ m \in Int /\ m = 1 /\ n \in Nat
    BY <1>1
  <2>2. \A i \in m .. n : frames[i] \in FrameType
    BY <1>2
  <2> HIDE DEF m, n
  <2>3. /\ SubSeq(frames, m, n) \in Seq(FrameType)
        /\ Len(SubSeq(frames, m, n)) = IF m <= n THEN n - m + 1 ELSE 0
        /\ \A i \in 1 .. n - m + 1 : SubSeq(frames, m, n)[i] = frames[m + i - 1]
    BY <2>1, <2>2, SubSeqProperties
  <2>4. Len(SubSeq(frames, m, n)) = n
    BY <2>1, <2>3
  <2>5. \A i \in 1 .. n : SubSeq(frames, m, n)[i] = frames[i]
    <3>1. TAKE i \in 1 .. n
    <3>2. i \in 1 .. n - m + 1 /\ m + i - 1 = i
      BY <2>1, <3>1
    <3>3. QED
      BY <2>3, <3>2
  <2>6. QED
    BY <2>1, <2>3, <2>4, <2>5
<1>5. Front(frames) = SubSeq(frames, 1, n)
  BY DEF Front
<1> DEFINE F == Front(frames)
<1>7. F \in Seq(FrameType) /\ Len(F) = Len(frames) - 1
  BY <1>3, <1>5
<1> HIDE DEF F
<1>8. Len(F) = 0 <=> F = <<>>
  BY <1>7, EmptySeq
<1>4. Len(frames) = 1 <=> Front(frames) = <<>>
  BY <1>1, <1>7, <1>8 DEF F
<1>6. QED
  BY <1>1, <1>3, <1>4, <1>5

(***************************************************************************)
(* What a step does to the calls in progress.                              *)
(***************************************************************************)
Stays  == \E t \in FrameType : /\ t.op = Top.op /\ t.on = Top.on
                               /\ frames' = SetTop(t) /\ InDOS' = InDOS
Broken == frames' = SetTop(Handler(Int23, Top)) /\ InDOS' = InDOS - 1

(* fs is what was in progress when op is called.                           *)
Entering(fs, op) == \E f \in FrameType :
    /\ f.op = op /\ f.on = Call(op).on /\ (op \in NestedOps => f.pc = "done")
    /\ frames' = Append(fs, f) /\ InDOS' = InDOS + 1
LeftAtOnce(fs, op) == \E f \in FrameType :
    /\ f.op = Int23 /\ f.on = "user" /\ f.want = op
    /\ op # "25" /\ (breakEna \/ op \notin {"25", "0D"})
    /\ frames' = Append(fs, f) /\ InDOS' = InDOS
Called(fs, op) == Entering(fs, op) \/ LeftAtOnce(fs, op)

(* A frame that waits for ^S keeps its call and its stack.                 *)
LEMMA PausedFrame ==
    ASSUME NEW f \in FrameType, NEW k
    PROVE  Paused(f, k) \in FrameType /\ Paused(f, k).op = f.op /\ Paused(f, k).on = f.on
<1> DEFINE g == [f EXCEPT !.next = f.pc]
           t == [f EXCEPT !.next = f.pc, !.pc = "get", !.echo = TRUE]
<1>1. g \in FrameType /\ g.op = f.op /\ g.on = f.on
  BY DEF FrameType
<1>2. t = [[g EXCEPT !.pc = "get"] EXCEPT !.echo = TRUE]
  OBVIOUS
<1> HIDE DEF g
<1>3. t \in FrameType /\ t.op = f.op /\ t.on = f.on
  BY <1>1, <1>2 DEF FrameType, Places
<1> HIDE DEF t
<1>4. Paused(f, k) = t \/ Paused(f, k) = f
  BY DEF Paused, t
<1>5. QED
  BY <1>3, <1>4

(* So does one whose place changes.                                        *)
LEMMA MovedFrame ==
    ASSUME NEW f \in FrameType, NEW p \in Places
    PROVE  /\ [f EXCEPT !.pc = p] \in FrameType
           /\ [f EXCEPT !.pc = p].op = f.op /\ [f EXCEPT !.pc = p].on = f.on
BY DEF FrameType

(* The editor's frame, when it waits for the next byte.                    *)
LEMMA WantingFrame ==
    ASSUME NEW f \in FrameType, NEW w \in {"char", "skip", "ext", "F2", "F4"}
    PROVE  LET t == [f EXCEPT !.want = w, !.pc = "get"]
           IN t \in FrameType /\ t.op = f.op /\ t.on = f.on
<1> DEFINE g == [f EXCEPT !.want = w]
<1>1. g \in FrameType /\ g.op = f.op /\ g.on = f.on
  BY DEF FrameType
<1>2. [f EXCEPT !.want = w, !.pc = "get"] = [g EXCEPT !.pc = "get"]
  OBVIOUS
<1> HIDE DEF g
<1>3. QED
  BY <1>1, <1>2, MovedFrame, ZenonT(30) DEF Places

(* A call that goes on after a pause.                                      *)
LEMMA ResumedFrame ==
    ASSUME NEW f \in FrameType
    PROVE  LET t == [f EXCEPT !.pc = f.next, !.next = "done", !.echo = FALSE]
           IN t \in FrameType /\ t.op = f.op /\ t.on = f.on
<1> DEFINE g == [f EXCEPT !.pc = f.next]
           h == [g EXCEPT !.next = "done"]
<1>1. g \in FrameType /\ g.op = f.op /\ g.on = f.on
  BY DEF FrameType
<1>2. [f EXCEPT !.pc = f.next, !.next = "done", !.echo = FALSE] = [h EXCEPT !.echo = FALSE]
  OBVIOUS
<1> HIDE DEF g
<1>3. h \in FrameType /\ h.op = f.op /\ h.on = f.on
  BY <1>1 DEF FrameType, Places
<1> HIDE DEF h
<1>4. QED
  BY <1>2, <1>3 DEF FrameType

(* The frame of a handler of the program.                                  *)
LEMMA HandlerFrame ==
    ASSUME NEW f \in FrameType, NEW h \in {Hook, Int23}
    PROVE  /\ Handler(h, f) \in FrameType /\ Handler(h, f).op = h
           /\ Handler(h, f).on = "user" /\ Handler(h, f).want = f.op
<1> DEFINE g == [f EXCEPT !.op = h]
           u == [g EXCEPT !.want = f.op]
<1>1. g \in FrameType /\ g.op = h
  BY DEF FrameType, Ops
<1>2. Handler(h, f) = [u EXCEPT !.on = "user"]
  BY DEF Handler
<1> HIDE DEF g
<1>3. u \in FrameType /\ u.op = h /\ u.want = f.op
  BY <1>1 DEF FrameType
<1> HIDE DEF u
<1>4. QED
  BY <1>2, <1>3 DEF FrameType

(* The line editor handles a byte inside its call.                         *)
LEMMA GoOnStays ==
    ASSUME StackInv, frames # <<>>, NEW E, NEW want \in {"char", "skip", "ext", "F2", "F4"}, NEW k,
           GoOn(E, want, k)
    PROVE  Stays
<1>1. Top \in FrameType
  BY TopFrame DEF StackInv
<1> DEFINE f == [Top EXCEPT !.want = want, !.pc = "get"]
           t == Paused(f, k)
<1>2. f \in FrameType /\ f.op = Top.op /\ f.on = Top.on
  BY <1>1, WantingFrame
<1> HIDE DEF f
<1>3. t \in FrameType /\ t.op = Top.op /\ t.on = Top.on
  BY <1>2, PausedFrame
<1>4. frames' = SetTop(t) /\ InDOS' = InDOS
  BY DEF GoOn, t, f
<1> HIDE DEF t
<1>5. QED
  BY <1>3, <1>4 DEF Stays

(* 3Fh goes on with its line inside its call.                              *)
LEMMA HandNextStays ==
    ASSUME StackInv, frames # <<>>, NEW k, HandNext(k), InDOS' = InDOS
    PROVE  Stays
<1>1. Top \in FrameType
  BY TopFrame DEF StackInv
<1> DEFINE p == IF k.buf[1] = "^Z" THEN "done" ELSE "hand"
           t == [Top EXCEPT !.pc = p]
<1>2. p \in Places
  BY DEF Places
<1>3. frames' = SetTop(t)
  BY DEF HandNext
<1> HIDE DEF p
<1>4. t \in FrameType /\ t.op = Top.op /\ t.on = Top.on
  BY <1>1, <1>2, MovedFrame
<1> HIDE DEF t
<1>5. QED
  BY <1>3, <1>4 DEF Stays

(* A line ends inside its call.                                            *)
LEMMA EndLineStays ==
    ASSUME StackInv, frames # <<>>, NEW E, NEW c, NEW k, EndLine(E, c, k)
    PROVE  Stays
<1>0. InDOS' = InDOS
  BY DEF EndLine
<1>1. CASE Top.op = "0A"
  <2>1. Top \in FrameType
    BY TopFrame DEF StackInv
  <2>2. Done \in FrameType /\ Done.op = Top.op /\ Done.on = Top.on
    BY <2>1, MovedFrame DEF Done, Places
  <2> DEFINE t == Paused(Done, k)
  <2>3. t \in FrameType /\ t.op = Top.op /\ t.on = Top.on
    BY <2>2, PausedFrame
  <2>4. frames' = SetTop(t)
    BY <1>1 DEF EndLine
  <2> HIDE DEF t
  <2>5. QED
    BY <1>0, <2>3, <2>4 DEF Stays
<1>2. CASE Top.op # "0A"
  <2>1. \E x : HandNext(x)
    BY <1>2 DEF EndLine
  <2>2. QED
    BY <1>0, <2>1, HandNextStays
<1>3. QED
  BY <1>1, <1>2

(* The end of a stream ends the call, or its hang-up handler leaves it.    *)
LEMMA EndOfStreamOne ==
    ASSUME StackInv, frames # <<>>, EndOfStream
    PROVE  Stays \/ Broken
<1>1. CASE sig = "handler"
  BY <1>1 DEF EndOfStream, Signal, Broken
<1>2. CASE sig # "handler" /\ Top.op = "3F"
  BY <1>2, HandNextStays DEF EndOfStream
<1>3. CASE sig # "handler" /\ Top.op # "3F"
  <2>1. Top \in FrameType
    BY TopFrame DEF StackInv
  <2>2. Done \in FrameType /\ Done.op = Top.op /\ Done.on = Top.on
    BY <2>1, MovedFrame DEF Done, Places
  <2>3. QED
    BY <1>3, <2>2 DEF EndOfStream, Stays
<1>4. QED
  BY <1>1, <1>2, <1>3

(* A byte goes to the line editor.                                         *)
LEMMA LineByteStays ==
    ASSUME StackInv, frames # <<>>, NEW E, NEW c, NEW k, LineByte(E, c, k)
    PROVE  Stays
<1>1. \/ \E F : GoOn(F, "char", k) \/ GoOn(F, "skip", k) \/ GoOn(F, "ext", k)
                \/ GoOn(F, "F2", k) \/ GoOn(F, "F4", k)
      \/ \E F : EndLine(F, c, k)
  <2>1. CASE Top.want = "char"
    <3>1. CharByte(E, c, k)
      BY <2>1 DEF LineByte
    <3>2. CASE Ends(c) /\ c \notin Ext /\ ~(c = Nul /\ Top.op = "3F")
      BY <3>1, <3>2 DEF CharByte
    <3>3. CASE ~(Ends(c) /\ c \notin Ext /\ ~(c = Nul /\ Top.op = "3F"))
      BY <3>1, <3>3 DEF CharByte
    <3>4. QED
      BY <3>2, <3>3
  <2>2. CASE Top.want = "ext"
    BY <2>2 DEF LineByte
  <2>3. CASE Top.want = "skip"
    BY <2>3 DEF LineByte
  <2>4. CASE Top.want \notin {"char", "ext", "skip"}
    BY <2>4 DEF LineByte
  <2>5. QED
    BY <2>1, <2>2, <2>3, <2>4
<1>2. ASSUME NEW F, EndLine(F, c, k)
      PROVE  Stays
  BY <1>2, EndLineStays
<1>3. ASSUME NEW F, NEW w \in {"char", "skip", "ext", "F2", "F4"}, GoOn(F, w, k)
      PROVE  Stays
  BY <1>3, GoOnStays
<1>4. QED
  BY <1>1, <1>2, <1>3

(* A call gets a byte, or the end of its stream.                           *)
LEMMA DeliverOne ==
    ASSUME StackInv, frames # <<>>, NEW c, NEW k, Deliver(c, k)
    PROVE  Stays \/ Broken
<1>1. Top \in FrameType
  BY TopFrame DEF StackInv
<1>2. CASE Top.echo
  <2> DEFINE t == [Top EXCEPT !.pc = Top.next, !.next = "done", !.echo = FALSE]
  <2>1. t \in FrameType /\ t.op = Top.op /\ t.on = Top.on
    BY <1>1, ResumedFrame
  <2>2. frames' = SetTop(t) /\ InDOS' = InDOS
    BY <1>2 DEF Deliver, Quiet
  <2> HIDE DEF t
  <2>3. QED
    BY <2>1, <2>2 DEF Stays
<1>3. CASE ~Top.echo /\ Ended(c)
  BY <1>3, EndOfStreamOne DEF Deliver
<1>4. CASE ~Top.echo /\ ~Ended(c) /\ Top.op \in {"0A", "3F"}
  <2>1. \E E : LineByte(E, c, k)
    BY <1>4 DEF Deliver
  <2>2. QED
    BY <2>1, LineByteStays
<1>5. CASE ~Top.echo /\ ~Ended(c) /\ Top.op \notin {"0A", "3F"}
  <2> DEFINE t == IF Top.op = "01" THEN Paused(Done, k) ELSE Done
  <2>1. Done \in FrameType /\ Done.op = Top.op /\ Done.on = Top.on
    BY <1>1, MovedFrame DEF Done, Places
  <2>2. t \in FrameType /\ t.op = Top.op /\ t.on = Top.on
    BY <2>1, PausedFrame
  <2>3. frames' = SetTop(t) /\ InDOS' = InDOS
    BY <1>5 DEF Deliver
  <2> HIDE DEF t
  <2>4. QED
    BY <2>2, <2>3 DEF Stays
<1>6. QED
  BY <1>2, <1>3, <1>4, <1>5

(* A call is left by ^C: its frame becomes that of INT 23h.                *)
LEMMA BreakReplaces ==
    ASSUME NEW dev, NEW fs, NEW depth, handle_break(dev, fs, depth)
    PROVE  /\ frames' = [fs EXCEPT ![Len(fs)] = Handler(Int23, fs[Len(fs)])]
           /\ InDOS' = depth - 1
BY DEF handle_break

(* A read of a device.                                                     *)
LEMMA GotOne ==
    ASSUME StackInv, frames # <<>>, NEW c, NEW dev, NEW k, Got(c, dev, k)
    PROVE  Stays \/ Broken
<1>1. Top \in FrameType /\ Top = frames[Len(frames)]
  BY TopFrame DEF StackInv
<1> DEFINE held  == [Top EXCEPT !.pc = "held"]
           after == [Top EXCEPT !.pc = "after"]
<1>2. /\ held \in FrameType /\ held.op = Top.op /\ held.on = Top.on
      /\ after \in FrameType /\ after.op = Top.op /\ after.on = Top.on
  BY <1>1, MovedFrame DEF Places
<1>3. \/ handle_break(dev, frames, InDOS)
      \/ frames' = SetTop(held) /\ Quiet
      \/ frames' = SetTop(after) /\ Quiet
      \/ \E x : Deliver(c, x)
  BY DEF Got
<1> HIDE DEF held, after
<1>4. CASE handle_break(dev, frames, InDOS)
  BY <1>1, <1>4, BreakReplaces DEF Broken, SetTop
<1>5. CASE frames' = SetTop(held) /\ Quiet
  BY <1>2, <1>5 DEF Quiet, Stays
<1>6. CASE frames' = SetTop(after) /\ Quiet
  BY <1>2, <1>6 DEF Quiet, Stays
<1>7. CASE \E x : Deliver(c, x)
  BY <1>7, DeliverOne
<1>8. QED
  BY <1>3, <1>4, <1>5, <1>6, <1>7

(* A read leaves the other calls alone.                                    *)
LEMMA ReadsOne ==
    ASSUME StackInv, Reads
    PROVE  Reading /\ (Stays \/ Broken) /\ UNCHANGED <<breakEna, use>>
<1>1. Reading /\ frames # <<>>
  BY DEF Reads, ReadCon, ReadGone, ReadAux, AuxLooks, Reading
<1>2. UNCHANGED <<breakEna, use>>
  BY DEF Reads, ReadCon, ReadGone, ReadAux, AuxLooks
<1>3. \/ \E c, dev, k : Got(c, dev, k)
      \/ handle_break("con", frames, InDOS)
  BY DEF Reads, ReadCon, ReadGone, ReadAux, AuxLooks
<1>4. ASSUME NEW c, NEW dev, NEW k, Got(c, dev, k)
      PROVE  Stays \/ Broken
  BY <1>1, <1>4, GotOne
<1>5. ASSUME handle_break("con", frames, InDOS)
      PROVE  Broken
  <2>1. Top = frames[Len(frames)]
    BY <1>1, TopFrame DEF StackInv
  <2>2. QED
    BY <1>5, <2>1, BreakReplaces DEF Broken, SetTop
<1>6. QED
  BY <1>1, <1>2, <1>3, <1>4, <1>5

(* The frame of a call that is entered.                                    *)
LEMMA CallFrame ==
    ASSUME StackInv, NEW op \in Ops, NEW k
    PROVE  /\ Call(op) \in FrameType /\ Call(op).op = op
           /\ [Call(op) EXCEPT !.pc = Start(op, k)] \in FrameType
           /\ [Call(op) EXCEPT !.pc = Start(op, k)].op = op
           /\ [Call(op) EXCEPT !.pc = Start(op, k)].on = Call(op).on
           /\ op \in NestedOps => [Call(op) EXCEPT !.pc = Start(op, k)].pc = "done"
<1>1. Call(op) \in FrameType /\ Call(op).op = op
  BY DEF Call, FrameType, StackInv, Places
<1>2. Start(op, k) \in Places
  BY DEF Start, Places
<1>3. op \in NestedOps => Start(op, k) = "done"
  BY DEF Start, NestedOps
<1>4. [Call(op) EXCEPT !.pc = Start(op, k)].pc = Start(op, k)
  BY <1>1 DEF FrameType
<1>5. QED
  BY <1>1, <1>2, <1>3, <1>4, MovedFrame

(* A call that ^C leaves at once has the frame of INT 23h.                 *)
LEMMA LeftFrame ==
    ASSUME StackInv, NEW fs \in Seq(FrameType), NEW op \in Ops,
           handle_break("con", Append(fs, Call(op)), InDOS + 1)
    PROVE  frames' = Append(fs, Handler(Int23, Call(op))) /\ InDOS' = InDOS
<1> DEFINE h == Handler(Int23, Call(op))
           g == Append(fs, Call(op))
           n == Len(fs) + 1
<1>1. Call(op) \in FrameType
  BY CallFrame
<1>2. h \in FrameType
  BY <1>1, HandlerFrame
<1> HIDE DEF h
<1>3. /\ g \in Seq(FrameType) /\ Len(g) = n /\ g[n] = Call(op) /\ Len(fs) \in Nat
      /\ \A i \in 1 .. Len(fs) : g[i] = fs[i]
  BY <1>1, OneMore
<1>4. /\ Append(fs, h) \in Seq(FrameType) /\ Len(Append(fs, h)) = n /\ Append(fs, h)[n] = h
      /\ \A i \in 1 .. Len(fs) : Append(fs, h)[i] = fs[i]
  BY <1>2, OneMore
<1> HIDE DEF g, n
<1> DEFINE depth == InDOS + 1
<1>11. handle_break("con", g, depth)
  BY DEF g
<1> HIDE DEF depth
<1>12. frames' = [g EXCEPT ![Len(g)] = Handler(Int23, g[Len(g)])] /\ InDOS' = depth - 1
  BY <1>11, BreakReplaces
<1>5. frames' = [g EXCEPT ![n] = h]
  BY <1>3, <1>12 DEF h
<1>13. InDOS' = InDOS
  BY <1>12 DEF StackInv, depth
<1>6. n \in 1 .. Len(g) /\ n = Len(fs) + 1
  BY <1>3 DEF n
<1>7. /\ frames' \in Seq(FrameType) /\ Len(frames') = n
      /\ \A j \in 1 .. n : frames'[j] = IF j = n THEN h ELSE g[j]
  BY <1>2, <1>3, <1>5, <1>6, ExceptSeq
<1>8. \A j \in 1 .. n : frames'[j] = Append(fs, h)[j]
  BY <1>3, <1>4, <1>6, <1>7
<1>9. frames' = Append(fs, h)
  BY <1>4, <1>7, <1>8, SeqEqual
<1>10. QED
  BY <1>9, <1>13 DEF h

(* A call is entered, or left at once for INT 23h.                         *)
LEMMA EnterOne ==
    ASSUME StackInv, NEW fs \in Seq(FrameType), NEW op \in Ops, NEW flush, Enter(fs, op, flush)
    PROVE  Called(fs, op) /\ UNCHANGED <<breakEna, use>>
<1>1. UNCHANGED <<breakEna, use>>
  BY DEF Enter
<1>2. \/ /\ handle_break("con", Append(fs, Call(op)), InDOS + 1)
         /\ op # "25" /\ (breakEna \/ op \notin {"25", "0D"})
      \/ \E k : Entered(fs, op, k)
  BY DEF Enter
<1>3. ASSUME handle_break("con", Append(fs, Call(op)), InDOS + 1)
      PROVE  frames' = Append(fs, Handler(Int23, Call(op))) /\ InDOS' = InDOS
  BY <1>3, LeftFrame
<1>4. CASE /\ handle_break("con", Append(fs, Call(op)), InDOS + 1)
           /\ op # "25" /\ (breakEna \/ op \notin {"25", "0D"})
  <2> DEFINE h == Handler(Int23, Call(op))
  <2>1. h \in FrameType /\ h.op = Int23 /\ h.on = "user" /\ h.want = op
    BY CallFrame, HandlerFrame
  <2>2. frames' = Append(fs, h) /\ InDOS' = InDOS
    BY <1>3, <1>4
  <2> HIDE DEF h
  <2>3. LeftAtOnce(fs, op)
    BY <1>4, <2>1, <2>2 DEF LeftAtOnce
  <2>4. QED
    BY <1>1, <2>3 DEF Called
<1>5. ASSUME NEW k, Entered(fs, op, k)
      PROVE  Entering(fs, op)
  <2> DEFINE f == [Call(op) EXCEPT !.pc = Start(op, k)]
             t == IF op = "02" THEN Paused(f, k) ELSE f
  <2>1. f \in FrameType /\ f.op = op /\ f.on = Call(op).on /\ (op \in NestedOps => f.pc = "done")
    BY CallFrame
  <2>2. frames' = Append(fs, t) /\ InDOS' = InDOS + 1
    BY <1>5 DEF Entered
  <2> HIDE DEF f
  <2>3. t \in FrameType /\ t.op = op /\ t.on = Call(op).on /\ (op \in NestedOps => t.pc = "done")
    BY <2>1, PausedFrame DEF NestedOps
  <2> HIDE DEF t
  <2>4. QED
    BY <2>2, <2>3 DEF Entering
<1>6. QED
  BY <1>1, <1>2, <1>4, <1>5 DEF Called

(***************************************************************************)
(* One step per action.                                                    *)
(***************************************************************************)
(* What a step preserves: StackInv, and ExactInv where the handlers return. *)
Kept == StackInv' /\ (HandlersReturn /\ ExactInv => ExactInv')

(* A call that has more to do is the only one, or waits for INT 28h.       *)
LEMMA OnlyCall ==
    ASSUME StackInv, frames # <<>>, IsCall(Top), Top.pc # "done" \/ Top.op \notin NestedOps
    PROVE  /\ Alone /\ Top = frames[1] /\ Top \in FrameType
           /\ Top.op \in ProgramOps /\ InDOS >= 1 /\ Top.on = FirstStack(Top.op)
<1>1. Top = frames[Len(frames)] /\ Top \in FrameType
  BY TopFrame DEF StackInv
<1>2. ~(Len(frames) = 2 /\ Hooked /\ InDOS = 1)
  BY <1>1 DEF Hooked, IsCall
<1>3. ~Nested
  BY <1>1 DEF Nested, IsCall
<1>4. Alone /\ Len(frames) = 1
  BY <1>2, <1>3 DEF StackInv, Alone
<1>5. QED
  BY <1>1, <1>4 DEF Alone, IsCall

(* The only call in progress goes on.                                      *)
LEMMA StaysKept ==
    ASSUME StackInv, frames # <<>>, IsCall(Top), Top.pc # "done" \/ Top.op \notin NestedOps,
           Stays, UNCHANGED <<breakEna, use>>
    PROVE  Kept
<1>1. /\ Alone /\ Top = frames[1] /\ Len(frames) = 1
      /\ Top.op \in ProgramOps /\ InDOS >= 1 /\ Top.on = FirstStack(Top.op)
  BY OnlyCall DEF Alone
<1>2. PICK t \in FrameType : /\ t.op = Top.op /\ t.on = Top.on
                             /\ frames' = SetTop(t) /\ InDOS' = InDOS
  BY DEF Stays
<1>3. frames' \in Seq(FrameType) /\ Len(frames') = 1 /\ frames'[1] = t /\ frames' # <<>>
  BY <1>1, <1>2, TopReplaced DEF StackInv
<1>4. frames' # <<>>
  BY <1>3
<1>5. Alone'
  BY <1>1, <1>2, <1>3 DEF Alone, FirstStack
<1>6. StackInv'
  BY <1>2, <1>3, <1>5 DEF StackInv
<1>7. ~Nested'
  BY <1>3 DEF Nested
<1>8. ASSUME ExactInv
      PROVE  ExactInv'
  <2>1. InDOS = 1
    BY <1>1, <1>8 DEF ExactInv, IsCall
  <2>2. frames'[1].op # Int23
    BY <1>1, <1>2, <1>3 DEF ProgramOps, Int23
  <2>3. QED
    BY <1>2, <1>4, <1>6, <1>7, <1>8, <2>1, <2>2 DEF ExactInv
<1>9. QED
  BY <1>6, <1>8 DEF Kept

(* The only call in progress is left for INT 23h.                          *)
LEMMA BrokenKept ==
    ASSUME StackInv, frames # <<>>, IsCall(Top), Top.pc # "done" \/ Top.op \notin NestedOps,
           Broken, UNCHANGED <<breakEna, use>>
    PROVE  Kept
<1>1. /\ Alone /\ Top = frames[1] /\ Len(frames) = 1 /\ Top \in FrameType
      /\ Top.op \in ProgramOps /\ InDOS >= 1
  BY OnlyCall DEF Alone
<1> DEFINE t == Handler(Int23, Top)
<1>2. t \in FrameType /\ t.op = Int23 /\ t.on = "user" /\ t.want = Top.op
  BY <1>1, HandlerFrame
<1>3. frames' = SetTop(t) /\ InDOS' = InDOS - 1
  BY DEF Broken
<1> HIDE DEF t
<1>4. frames' \in Seq(FrameType) /\ Len(frames') = 1 /\ frames'[1] = t /\ frames' # <<>>
  BY <1>1, <1>2, <1>3, TopReplaced DEF StackInv
<1>5. frames' # <<>>
  BY <1>4
<1>6. Alone'
  BY <1>1, <1>2, <1>4 DEF Alone
<1>7. InDOS' \in Nat
  BY <1>1, <1>3 DEF StackInv
<1>8. StackInv'
  BY <1>4, <1>6, <1>7 DEF StackInv
<1>9. ~Nested'
  BY <1>4 DEF Nested
<1>10. ASSUME ExactInv
       PROVE  ExactInv'
  <2>1. InDOS = 1
    BY <1>1, <1>10 DEF ExactInv, ProgramOps, Int23
  <2>2. InDOS' = 0
    BY <1>3, <2>1
  <2>3. QED
    BY <1>2, <1>4, <1>5, <1>8, <1>9, <1>10, <2>2 DEF ExactInv
<1>11. QED
  BY <1>8, <1>10 DEF Kept

(* The program makes a call while nothing is in progress.                  *)
LEMMA CalledFirst ==
    ASSUME StackInv, NEW op \in ProgramOps, Called(<<>>, op), UNCHANGED <<breakEna, use>>
    PROVE  StackInv' /\ (InDOS = 0 /\ breakEna \in Breaks => ExactInv')
<1> DEFINE fs == <<>>
<1>1. fs \in Seq(FrameType) /\ Len(fs) = 0
  BY EmptySeq
<1>2. Called(fs, op)
  OBVIOUS
<1> HIDE DEF fs
<1>3. ASSUME NEW f \in FrameType, frames' = Append(fs, f)
      PROVE  frames' \in Seq(FrameType) /\ Len(frames') = 1 /\ frames'[1] = f /\ frames' # <<>>
  BY <1>1, <1>3, OneMore
<1>4. CASE Entering(fs, op)
  <2>1. PICK f \in FrameType : /\ f.op = op /\ f.on = Call(op).on
                               /\ frames' = Append(fs, f) /\ InDOS' = InDOS + 1
    BY <1>4 DEF Entering
  <2>2. frames' \in Seq(FrameType) /\ Len(frames') = 1 /\ frames'[1] = f /\ frames' # <<>>
    BY <1>3, <2>1
  <2>3. InDOS' \in Nat /\ InDOS' >= 1 /\ (InDOS' > 1 <=> InDOS # 0)
    BY <2>1 DEF StackInv
  <2>4. f.on = FirstStack(op)'
    BY <2>1, <2>3 DEF Call, FirstStack
  <2>5. Alone'
    BY <2>1, <2>2, <2>3, <2>4 DEF Alone, FirstStack
  <2>6. StackInv'
    BY <2>2, <2>3, <2>5 DEF StackInv
  <2>7. ~Nested' /\ frames'[1].op # Int23
    BY <2>1, <2>2 DEF Nested, ProgramOps, Int23
  <2>8. QED
    BY <2>1, <2>2, <2>6, <2>7 DEF ExactInv
<1>5. CASE LeftAtOnce(fs, op)
  <2>1. PICK f \in FrameType : /\ f.op = Int23 /\ f.on = "user" /\ f.want = op
                               /\ frames' = Append(fs, f) /\ InDOS' = InDOS
    BY <1>5 DEF LeftAtOnce
  <2>2. frames' \in Seq(FrameType) /\ Len(frames') = 1 /\ frames'[1] = f /\ frames' # <<>>
    BY <1>3, <2>1
  <2>3. Alone'
    BY <2>1, <2>2 DEF Alone
  <2>4. StackInv'
    BY <2>1, <2>2, <2>3 DEF StackInv
  <2>5. ~Nested'
    BY <2>2 DEF Nested
  <2>6. QED
    BY <2>1, <2>2, <2>4, <2>5 DEF ExactInv
<1>6. QED
  BY <1>2, <1>4, <1>5 DEF Called

(* A call is made while INT 28h runs in another.                           *)
LEMMA CalledNested ==
    ASSUME StackInv, InDOS = 1, NEW fs \in Seq(FrameType), Len(fs) = 2,
           fs[1].op \in CharOps, fs[1].on = "char", fs[2].op = Hook, fs[2].on = "user",
           NEW op \in NestedOps, Called(fs, op), UNCHANGED <<breakEna, use>>
    PROVE  StackInv' /\ (HandlersReturn /\ op \in HookOps /\ breakEna \in Breaks => ExactInv')
<1>1. ASSUME NEW f \in FrameType, frames' = Append(fs, f)
      PROVE  /\ frames' \in Seq(FrameType) /\ Len(frames') = 3 /\ frames'[3] = f /\ frames' # <<>>
             /\ Hooked'
  <2>1. /\ frames' \in Seq(FrameType) /\ Len(frames') = 3 /\ frames'[3] = f /\ frames' # <<>>
        /\ frames'[1] = fs[1] /\ frames'[2] = fs[2]
    <3> DEFINE g == Append(fs, f)
    <3>1. /\ g \in Seq(FrameType) /\ Len(g) = Len(fs) + 1 /\ g[Len(fs) + 1] = f /\ g # <<>>
          /\ \A i \in 1 .. Len(fs) : g[i] = fs[i]
      BY OneMore
    <3> HIDE DEF g
    <3>2. Len(g) = 3 /\ g[3] = f /\ g[1] = fs[1] /\ g[2] = fs[2]
      BY <3>1
    <3>3. QED
      BY <1>1, <3>1, <3>2 DEF g
  <2>2. QED
    BY <2>1 DEF Hooked
<1>2. CASE Entering(fs, op)
  <2>1. PICK f \in FrameType : /\ f.op = op /\ f.on = Call(op).on /\ f.pc = "done"
                               /\ frames' = Append(fs, f) /\ InDOS' = InDOS + 1
    BY <1>2 DEF Entering
  <2>2. /\ frames' \in Seq(FrameType) /\ Len(frames') = 3 /\ frames'[3] = f /\ frames' # <<>>
        /\ Hooked'
    BY <1>1, <2>1
  <2>3. InDOS' = 2
    BY <2>1
  <2>4. f.on \in {"caller", "disk"}
    BY <2>1 DEF Call
  <2>5. Nested'
    BY <2>1, <2>2, <2>3, <2>4 DEF Nested
  <2>6. StackInv'
    BY <2>2, <2>3, <2>5 DEF StackInv
  <2>7. ~Alone'
    BY <2>2 DEF Alone
  <2>8. QED
    BY <2>1, <2>2, <2>6, <2>7 DEF ExactInv
<1>3. CASE LeftAtOnce(fs, op)
  <2>1. PICK f \in FrameType : /\ f.op = Int23 /\ f.on = "user" /\ f.want = op
                               /\ op # "25" /\ (breakEna \/ op \notin {"25", "0D"})
                               /\ frames' = Append(fs, f) /\ InDOS' = InDOS
    BY <1>3 DEF LeftAtOnce
  <2>2. /\ frames' \in Seq(FrameType) /\ Len(frames') = 3 /\ frames'[3] = f /\ Hooked'
    BY <1>1, <2>1
  <2>3. Nested'
    BY <2>1, <2>2 DEF Nested
  <2>4. StackInv'
    BY <2>1, <2>2, <2>3 DEF StackInv
  <2>5. ~(HandlersReturn /\ op \in HookOps /\ breakEna \in Breaks)
    <3>1. op \in HookOps => op = "0D"
      BY <2>1, ConAssumption
    <3>2. op = "0D" => breakEna
      BY <2>1
    <3>3. breakEna => breakEna = TRUE
      BY DEF StackInv
    <3>4. QED
      BY <3>1, <3>2, <3>3 DEF HandlersReturn
  <2>6. QED
    BY <2>4, <2>5
<1>4. QED
  BY <1>2, <1>3 DEF Called

(* The program, or a handler of INT 28h, makes a call.                     *)
LEMMA RequestKept ==
    ASSUME StackInv, Request
    PROVE  Kept
<1>1. CASE frames = <<>>
  <2>1. \E op \in use.ops, flush \in BOOLEAN : Enter(frames, op, flush)
    BY <1>1 DEF Request, Running
  <2>2. PICK op \in use.ops : \E flush \in BOOLEAN : Enter(frames, op, flush)
    BY <2>1
  <2>3. op \in ProgramOps /\ op \in Ops
    BY ConAssumption DEF StackInv, ProgramOps, Ops
  <2>4. Called(frames, op) /\ UNCHANGED <<breakEna, use>>
    BY <2>2, <2>3, EnterOne DEF StackInv
  <2>5. StackInv' /\ (InDOS = 0 /\ breakEna \in Breaks => ExactInv')
    BY <1>1, <2>3, <2>4, CalledFirst
  <2>6. ExactInv => InDOS = 0 /\ breakEna \in Breaks
    BY <1>1 DEF ExactInv
  <2>7. QED
    BY <2>5, <2>6 DEF Kept
<1>2. CASE frames # <<>>
  <2>1. PICK op \in HookOps : Top.op = Hook /\ Enter(frames, op, FALSE)
    BY <1>2 DEF Request, Running
  <2>2. op \in NestedOps /\ op \in Ops
    BY ConAssumption DEF NestedOps, ProgramOps, Ops
  <2>3. Called(frames, op) /\ UNCHANGED <<breakEna, use>>
    BY <2>1, <2>2, EnterOne DEF StackInv
  <2>4. Top = frames[Len(frames)]
    BY <1>2, TopFrame DEF StackInv
  <2>5. ~Alone /\ ~Nested
    BY <2>1, <2>4 DEF Alone, Nested, Hook, Int23, ProgramOps, NestedOps
  <2>6. Len(frames) = 2 /\ Hooked /\ InDOS = 1
    BY <1>2, <2>5 DEF StackInv
  <2>7. StackInv' /\ (HandlersReturn /\ op \in HookOps /\ breakEna \in Breaks => ExactInv')
    <3>1. frames \in Seq(FrameType)
      BY DEF StackInv
    <3>2. QED
      BY <2>2, <2>3, <2>6, <3>1, CalledNested DEF Hooked
  <2>8. QED
    BY <2>1, <2>7 DEF Kept, ExactInv
<1>3. QED
  BY <1>1, <1>2

(* The bytes of a line are handed over inside the call.                    *)
LEMMA HandOverKept ==
    ASSUME StackInv, HandOver
    PROVE  Kept
<1>1. frames # <<>> /\ Top.op = "3F"
  BY DEF HandOver, Running
<1>2. Top \in FrameType
  BY <1>1, TopFrame DEF StackInv
<1>3. Done \in FrameType /\ Done.op = Top.op /\ Done.on = Top.on
  BY <1>2, MovedFrame DEF Done, Places
<1>4. Stays /\ UNCHANGED <<breakEna, use>>
  BY <1>3 DEF HandOver, Stays
<1>5. IsCall(Top) /\ Top.op \notin NestedOps
  BY <1>1 DEF IsCall, NestedOps, Hook, Int23
<1>6. QED
  BY <1>1, <1>4, <1>5, StaysKept

(* A byte is read.                                                         *)
LEMMA ReadsKept ==
    ASSUME StackInv, Reads
    PROVE  Kept
<1>1. Reading /\ (Stays \/ Broken) /\ UNCHANGED <<breakEna, use>>
  BY ReadsOne
<1>2. frames # <<>> /\ IsCall(Top) /\ Top.pc # "done"
  BY <1>1 DEF Reading
<1>3. QED
  BY <1>1, <1>2, StaysKept, BrokenKept

(* A call waits: INT 28h runs, or nothing happens.                         *)
LEMMA IdleKept ==
    ASSUME StackInv, Idle
    PROVE  Kept
<1>1. frames # <<>> /\ IsCall(Top) /\ Top.pc # "done" /\ Top.op \in CharOps
  BY DEF Idle, Reading, Running, IsCall, Hook, Int23, CharOps
<1>2. /\ Alone /\ Top = frames[1] /\ Len(frames) = 1 /\ Top \in FrameType
      /\ Top.op \in ProgramOps /\ InDOS >= 1 /\ Top.on = FirstStack(Top.op)
  BY <1>1, OnlyCall DEF Alone
<1> DEFINE p == IF Top.pc = "idle" THEN "done" ELSE Top.pc
           t == [Top EXCEPT !.pc = p]
           h == Handler(Hook, [Top EXCEPT !.pc = "done"])
<1>3. p \in Places
  BY <1>2 DEF FrameType, Places
<1>4. t = [Top EXCEPT !.pc = IF @ = "idle" THEN "done" ELSE @]
  OBVIOUS
<1> HIDE DEF p
<1>5. t \in FrameType /\ t.op = Top.op /\ t.on = Top.on
  BY <1>2, <1>3, MovedFrame
<1> HIDE DEF t
<1>6. UNCHANGED <<breakEna, use, InDOS>>
  BY DEF Idle
<1>7. CASE InDOS > 1
  <2>1. frames' = SetTop(t)
    BY <1>4, <1>7 DEF Idle
  <2>2. Stays
    BY <1>5, <1>6, <2>1 DEF Stays
  <2>3. QED
    BY <1>1, <1>6, <2>2, StaysKept
<1>8. CASE ~(InDOS > 1)
  <2>1. InDOS = 1 /\ Top.on = "char"
    BY <1>1, <1>2, <1>8 DEF StackInv, FirstStack, CharOps
  <2>2. /\ SetTop(t) \in Seq(FrameType) /\ Len(SetTop(t)) = 1 /\ SetTop(t)[1] = t
    BY <1>1, <1>2, <1>5, TopReplaced DEF StackInv
  <2>3. h \in FrameType /\ h.op = Hook /\ h.on = "user"
    BY <1>2, MovedFrame, HandlerFrame DEF Places
  <2>4. frames' = Append(SetTop(t), h)
    BY <1>4, <1>8 DEF Idle
  <2> DEFINE s == SetTop(t)
  <2>5. s \in Seq(FrameType) /\ Len(s) = 1 /\ s[1] = t /\ frames' = Append(s, h)
    BY <2>2, <2>4
  <2> HIDE DEF s, h
  <2>6. /\ frames' \in Seq(FrameType) /\ Len(frames') = 2 /\ frames'[2] = h /\ frames'[1] = t
        /\ frames' # <<>>
    <3>1. /\ frames' \in Seq(FrameType) /\ Len(frames') = Len(s) + 1 /\ frames'[Len(s) + 1] = h
          /\ \A i \in 1 .. Len(s) : frames'[i] = s[i]
          /\ frames' # <<>>
      BY <2>3, <2>5, OneMore
    <3>2. QED
      BY <2>5, <3>1
  <2>7. Hooked'
    BY <1>1, <1>5, <2>1, <2>3, <2>6 DEF Hooked
  <2>8. StackInv'
    BY <1>6, <2>1, <2>6, <2>7 DEF StackInv
  <2>9. ~Alone' /\ ~Nested'
    BY <2>6 DEF Alone, Nested
  <2>10. QED
    BY <1>6, <2>6, <2>8, <2>9 DEF Kept, ExactInv
<1>9. QED
  BY <1>7, <1>8

(* The frame on top goes: what is below goes on as it was.                 *)
LEMMA DroppedOne ==
    ASSUME StackInv, frames # <<>>, frames' = Front(frames), UNCHANGED <<breakEna, use>>
    PROVE  /\ frames' \in Seq(FrameType)
           /\ Len(frames) = 1 => frames' = <<>>
           /\ Len(frames) # 1 => frames' # <<>>
           /\ Len(frames) = 2 => Len(frames') = 1 /\ frames'[1] = frames[1]
           /\ Len(frames) = 3 => Len(frames') = 2 /\ frames'[1] = frames[1] /\ frames'[2] = frames[2]
<1>1. frames \in Seq(FrameType)
  BY DEF StackInv
<1> DEFINE F == Front(frames)
<1>2. /\ F \in Seq(FrameType) /\ Len(F) = Len(frames) - 1
      /\ Len(frames) \in Nat /\ Len(frames) >= 1
      /\ \A i \in 1 .. Len(frames) - 1 : F[i] = frames[i]
      /\ Len(frames) = 1 <=> F = <<>>
  BY <1>1, OneLess
<1>3. frames' = F
  OBVIOUS
<1> HIDE DEF F
<1>4. Len(frames) = 2 => Len(F) = 1 /\ F[1] = frames[1]
  BY <1>2
<1>5. Len(frames) = 3 => Len(F) = 2 /\ F[1] = frames[1] /\ F[2] = frames[2]
  BY <1>2
<1>6. (Len(frames) = 1 => F = <<>>) /\ (Len(frames) # 1 => F # <<>>) /\ F \in Seq(FrameType)
  BY <1>2
<1>7. QED
  BY <1>3, <1>4, <1>5, <1>6

(* A call returns.                                                         *)
LEMMA ReturnKept ==
    ASSUME StackInv, Return
    PROVE  Kept
<1>1. /\ frames # <<>> /\ IsCall(Top) /\ InDOS' = InDOS - 1
      /\ UNCHANGED <<breakEna, use>>
  BY DEF Return
<1>2. Top = frames[Len(frames)]
  BY <1>1, TopFrame DEF StackInv
<1>3. ~(Len(frames) = 2 /\ Hooked /\ InDOS = 1)
  BY <1>1, <1>2 DEF Hooked, IsCall
<1>4. CASE Alone
  <2>1. Top.op \in ProgramOps /\ InDOS >= 1 /\ Len(frames) = 1 /\ Top = frames[1]
    BY <1>1, <1>2, <1>4 DEF Alone, IsCall
  <2>2. frames' = <<>>
    <3>1. CASE Top.op = "00"
      BY <3>1 DEF Return
    <3>2. CASE Top.op # "00"
      BY <1>1, <2>1, <3>2, DroppedOne DEF Return
    <3>3. QED
      BY <3>1, <3>2
  <2>3. InDOS' \in Nat
    BY <1>1, <2>1 DEF StackInv
  <2>4. frames' \in Seq(FrameType) /\ Len(frames') = 0
    BY <2>2, EmptySeq
  <2>5. StackInv'
    BY <1>1, <2>2, <2>3, <2>4 DEF StackInv
  <2>6. ~Alone' /\ ~Nested'
    BY <2>4 DEF Alone, Nested
  <2>7. ExactInv => InDOS = 1
    BY <1>4, <2>1 DEF ExactInv, ProgramOps, Int23
  <2>8. ExactInv => InDOS' = 0
    BY <1>1, <2>7
  <2>9. QED
    BY <1>1, <2>5, <2>6, <2>8 DEF Kept, ExactInv
<1>5. CASE Nested
  <2>1. Hooked /\ Len(frames) = 3 /\ InDOS = 2 /\ Top = frames[3]
    BY <1>1, <1>2, <1>5 DEF Nested, IsCall
  <2>2. InDOS' = 1
    BY <1>1, <2>1
  <2>3. CASE Top.op = "00"
    <3>1. frames' = <<>>
      BY <2>3 DEF Return
    <3>2. frames' \in Seq(FrameType)
      BY <3>1, EmptySeq
    <3>3. StackInv'
      BY <1>1, <2>2, <3>1, <3>2 DEF StackInv
    <3>4. ~ExactInv
      BY <1>5, <2>1, <2>3, ConAssumption DEF ExactInv
    <3>5. QED
      BY <3>3, <3>4 DEF Kept
  <2>4. CASE Top.op # "00"
    <3>1. frames' = Front(frames)
      BY <2>4 DEF Return
    <3>2. /\ frames' \in Seq(FrameType) /\ Len(frames') = 2 /\ frames' # <<>>
          /\ frames'[1] = frames[1] /\ frames'[2] = frames[2]
      BY <1>1, <2>1, <3>1, DroppedOne
    <3>3. Hooked'
      BY <2>1, <3>2 DEF Hooked
    <3>4. StackInv'
      BY <1>1, <2>2, <3>2, <3>3 DEF StackInv
    <3>5. ~Alone' /\ ~Nested'
      BY <3>2 DEF Alone, Nested
    <3>6. QED
      BY <1>1, <3>2, <3>4, <3>5 DEF Kept, ExactInv
  <2>5. QED
    BY <2>3, <2>4
<1>6. QED
  BY <1>1, <1>3, <1>4, <1>5 DEF StackInv

(* A handler of the program returns.                                       *)
LEMMA HandlerEndsKept ==
    ASSUME StackInv, HandlerEnds
    PROVE  Kept
<1>1. /\ frames # <<>> /\ Top.op \in {Hook, Int23} /\ frames' = Front(frames)
      /\ UNCHANGED <<breakEna, use, InDOS>>
  BY DEF HandlerEnds, Running
<1>2. Top = frames[Len(frames)]
  BY <1>1, TopFrame DEF StackInv
<1>3. frames' \in Seq(FrameType)
  BY <1>1, DroppedOne
<1>4. CASE Alone
  <2>1. Len(frames) = 1 /\ frames[1].op = Int23
    BY <1>1, <1>2, <1>4 DEF Alone, ProgramOps, Hook, Int23
  <2>2. frames' = <<>>
    BY <1>1, <2>1, DroppedOne
  <2>3. StackInv'
    BY <1>1, <1>3, <2>2 DEF StackInv
  <2>4. Len(frames') = 0
    BY <2>2
  <2>5. ~Alone' /\ ~Nested'
    BY <2>4 DEF Alone, Nested
  <2>6. QED
    BY <1>1, <1>4, <2>1, <2>3, <2>5 DEF Kept, ExactInv
<1>5. CASE Len(frames) = 2 /\ Hooked /\ InDOS = 1
  <2>1. Len(frames') = 1 /\ frames'[1] = frames[1] /\ frames' # <<>>
    BY <1>1, <1>5, DroppedOne
  <2>2. frames'[1].op \in CharOps /\ frames'[1].on = "char" /\ frames'[1].op # Int23
    BY <1>5, <2>1 DEF Hooked, CharOps, Int23
  <2>3. FirstStack(frames[1].op)' = "char"
    BY <1>1, <1>5, <2>1, <2>2 DEF FirstStack, CharOps
  <2>4. Alone'
    BY <1>1, <1>5, <2>1, <2>2, <2>3 DEF Alone, CharOps, ProgramOps, FirstStack
  <2>5. StackInv'
    BY <1>1, <1>3, <2>4 DEF StackInv
  <2>6. ~Nested'
    BY <2>1 DEF Nested
  <2>7. QED
    BY <1>1, <1>5, <2>1, <2>2, <2>5, <2>6 DEF Kept, ExactInv
<1>6. CASE Nested
  <2>1. Len(frames) = 3 /\ Hooked /\ InDOS = 1 /\ frames[3].op = Int23
    BY <1>1, <1>2, <1>6 DEF Nested, NestedOps, Hook, Int23
  <2>2. /\ Len(frames') = 2 /\ frames' # <<>>
        /\ frames'[1] = frames[1] /\ frames'[2] = frames[2]
    BY <1>1, <2>1, DroppedOne
  <2>3. Hooked'
    BY <2>1, <2>2 DEF Hooked
  <2>4. StackInv'
    BY <1>1, <1>3, <2>1, <2>2, <2>3 DEF StackInv
  <2>5. ~Alone' /\ ~Nested'
    BY <2>2 DEF Alone, Nested
  <2>6. QED
    BY <1>1, <2>2, <2>4, <2>5 DEF Kept, ExactInv
<1>7. QED
  BY <1>1, <1>4, <1>5, <1>6 DEF StackInv

(* INT 23h makes the call again, or ends the program.                      *)
LEMMA AgainKept ==
    ASSUME StackInv, Respawn \/ Terminate
    PROVE  Kept
<1>1. frames # <<>> /\ Top.op = Int23
  BY DEF Respawn, Terminate, Running
<1>2. PICK op \in {Top.want, "00"} : Enter(Front(frames), op, FALSE)
  BY DEF Respawn, Terminate
<1>3. Top = frames[Len(frames)]
  BY <1>1, TopFrame DEF StackInv
<1>4. Front(frames) \in Seq(FrameType) /\ Len(Front(frames)) = Len(frames) - 1
  BY <1>1, OneLess DEF StackInv
<1>5. CASE Alone
  <2>1. Len(frames) = 1 /\ Top.want \in ProgramOps /\ Top = frames[1]
    BY <1>1, <1>3, <1>5 DEF Alone, ProgramOps, Int23
  <2>2. Front(frames) = <<>>
    BY <1>1, <2>1, OneLess DEF StackInv
  <2>3. op \in ProgramOps /\ op \in Ops
    BY <1>2, <2>1 DEF ProgramOps, Ops
  <2>4. Called(Front(frames), op) /\ UNCHANGED <<breakEna, use>>
    BY <1>2, <1>4, <2>3, EnterOne
  <2>5. StackInv' /\ (InDOS = 0 /\ breakEna \in Breaks => ExactInv')
    BY <2>2, <2>3, <2>4, CalledFirst
  <2>6. ExactInv => InDOS = 0 /\ breakEna \in Breaks
    BY <1>1, <1>5, <2>1 DEF ExactInv
  <2>7. QED
    BY <2>5, <2>6 DEF Kept
<1>6. CASE ~Alone
  <2>1. ~(Len(frames) = 2 /\ Hooked /\ InDOS = 1)
    BY <1>1, <1>3 DEF Hooked, Hook, Int23
  <2>2. Nested
    BY <1>1, <1>6, <2>1 DEF StackInv
  <2>3. Len(frames) = 3 /\ Hooked /\ InDOS = 1 /\ Top.want \in NestedOps /\ Top = frames[3]
    BY <1>1, <1>3, <2>2 DEF Nested, NestedOps, Int23
  <2>4. op \in NestedOps /\ op \in Ops
    BY <1>2, <2>3 DEF NestedOps, ProgramOps, Ops
  <2>5. Called(Front(frames), op) /\ UNCHANGED <<breakEna, use>>
    BY <1>2, <1>4, <2>4, EnterOne
  <2> DEFINE fs == Front(frames)
  <2>6. /\ fs \in Seq(FrameType) /\ Len(fs) = 2
        /\ fs[1].op \in CharOps /\ fs[1].on = "char" /\ fs[2].op = Hook /\ fs[2].on = "user"
    <3>1. \A i \in 1 .. 2 : fs[i] = frames[i]
      BY <1>1, <2>3, OneLess DEF StackInv
    <3>2. fs[1] = frames[1] /\ fs[2] = frames[2]
      BY <3>1
    <3>3. QED
      BY <1>4, <2>3, <3>2 DEF Hooked
  <2>7. Called(fs, op)
    BY <2>5
  <2> HIDE DEF fs
  <2>8. StackInv'
    BY <2>3, <2>4, <2>5, <2>6, <2>7, CalledNested
  <2>9. ~ExactInv
    BY <1>1, <2>2, <2>3, ConAssumption DEF ExactInv, Int23
  <2>10. QED
    BY <2>8, <2>9 DEF Kept
<1>7. QED
  BY <1>5, <1>6

(* What else happens leaves the calls alone.                               *)
LEMMA SameKept ==
    ASSUME StackInv, UNCHANGED <<frames, InDOS, breakEna, use>>
    PROVE  Kept
<1>1. StackInv'
  BY DEF StackInv, Alone, Hooked, Nested, FirstStack
<1>2. ExactInv => ExactInv'
  BY <1>1 DEF ExactInv, Alone, Hooked, Nested, FirstStack
<1>3. QED
  BY <1>1, <1>2 DEF Kept

(* Every step.                                                             *)
LEMMA StepKept ==
    ASSUME StackInv, [Next]_vars
    PROVE  Kept
<1>1. CASE World
  <2>1. UNCHANGED <<frames, InDOS, breakEna, use>>
    BY <1>1 DEF World
  <2>2. QED
    BY <2>1, SameKept
<1>2. CASE UNCHANGED vars
  <2>1. UNCHANGED <<frames, InDOS, breakEna, use>>
    BY <1>2 DEF vars
  <2>2. QED
    BY <2>1, SameKept
<1>3. QED
  BY <1>1, <1>2, RequestKept, ReadsKept, HandOverKept, ReturnKept, IdleKept, HandlerEndsKept,
     AgainKept DEF Next

(* It holds at the start.                                                  *)
LEMMA StackInit ==
    ASSUME Init
    PROVE  StackInv /\ ExactInv
<1>1. frames = <<>> /\ InDOS = 0 /\ use \in Uses /\ breakEna \in Breaks
  BY DEF Init
<1>2. frames \in Seq(FrameType) /\ Len(frames) = 0
  BY <1>1, EmptySeq
<1>3. StackInv
  BY <1>1, <1>2, ConAssumption DEF StackInv
<1>4. ~Alone /\ ~Nested
  BY <1>2 DEF Alone, Nested
<1>5. QED
  BY <1>1, <1>3, <1>4 DEF ExactInv

(* A state with the calls in order has no two on one stack.                *)
LEMMA ApartFromStack ==
    ASSUME StackInv
    PROVE  StacksApart
<1>1. \A i \in DOMAIN frames : i \in 1 .. Len(frames)
  BY LenProperties DEF StackInv
<1>2. CASE frames = <<>> \/ Len(frames) = 1
  <2>1. \A i, j \in DOMAIN frames : i = j
    <3>1. frames = <<>> => Len(frames) = 0
      OBVIOUS
    <3>2. QED
      BY <1>1, <1>2, <3>1
  <2>2. QED
    BY <2>1 DEF StacksApart
<1>3. CASE Len(frames) = 2 /\ Hooked
  BY <1>1, <1>3 DEF StacksApart, Hooked
<1>4. CASE Nested
  <2>1. frames[1].on = "char" /\ frames[2].on = "user" /\ frames[3].on \in {"user", "caller", "disk"}
    BY <1>4 DEF Nested, Hooked
  <2>2. \A i \in DOMAIN frames : i \in {1, 2, 3}
    BY <1>1, <1>4 DEF Nested
  <2>3. QED
    BY <2>1, <2>2 DEF StacksApart
<1>5. QED
  BY <1>2, <1>3, <1>4 DEF StackInv, Alone

(* StacksApart: for any keys, calls and handlers, no two calls in progress run on the same stack
   of the kernel, over breaks, restarted calls and calls from INT 28h. *)
THEOREM StacksAreApart == Spec => []StacksApart
<1>1. Init => StackInv
  BY StackInit
<1>2. StackInv /\ [Next]_vars => StackInv'
  BY StepKept DEF Kept
<1>3. StackInv => StacksApart
  BY ApartFromStack
<1>4. QED
  BY <1>1, <1>2, <1>3, PTL DEF Spec

(* The calls in progress, counted.                                         *)
LEMMA ExactFromStack ==
    ASSUME ExactInv
    PROVE  InDosExact
<1> DEFINE Calls == {i \in DOMAIN frames : IsCall(frames[i])}
<1>1. DOMAIN frames = 1 .. Len(frames) /\ StackInv
  BY LenProperties DEF ExactInv, StackInv
<1>2. CASE frames = <<>>
  <2>1. Calls = {}
    BY <1>2
  <2>2. QED
    BY <1>2, <2>1, FS_EmptySet DEF InDosExact, ExactInv
<1>3. CASE Alone
  <2>1. CASE frames[1].op = Int23
    <3>1. Calls = {}
      BY <1>1, <1>3, <2>1 DEF Alone, IsCall
    <3>2. QED
      BY <1>3, <2>1, <3>1, FS_EmptySet DEF InDosExact, ExactInv
  <2>2. CASE frames[1].op # Int23
    <3>1. Calls = {1}
      BY <1>1, <1>3, <2>2 DEF Alone, IsCall, ProgramOps, Hook, Int23
    <3>2. Cardinality({1}) = 1
      BY FS_Singleton
    <3>3. QED
      BY <1>3, <2>2, <3>1, <3>2 DEF InDosExact, ExactInv
  <2>3. QED
    BY <2>1, <2>2
<1>4. CASE Len(frames) = 2 /\ Hooked /\ InDOS = 1
  <2>1. Calls = {1}
    BY <1>1, <1>4 DEF Hooked, IsCall, CharOps, Hook, Int23
  <2>2. Cardinality({1}) = 1
    BY FS_Singleton
  <2>3. QED
    BY <1>4, <2>1, <2>2 DEF InDosExact
<1>5. CASE Nested
  <2>1. frames[3].op \in HookOps /\ frames[3].op # Int23 /\ frames[3].op # Hook
    BY <1>5, ConAssumption DEF ExactInv, Int23, Hook
  <2>2. InDOS = 2
    BY <1>5, <2>1 DEF Nested
  <2>3. /\ IsCall(frames[1]) /\ ~IsCall(frames[2]) /\ IsCall(frames[3])
    BY <1>5, <2>1 DEF Nested, Hooked, IsCall, CharOps, Hook, Int23
  <2>4. DOMAIN frames = {1, 2, 3}
    BY <1>1, <1>5 DEF Nested
  <2>5. Calls = {1} \cup {3}
    BY <2>3, <2>4
  <2>6. Cardinality({1} \cup {3}) = 2
    <3>1. IsFiniteSet({1}) /\ Cardinality({1}) = 1
      BY FS_Singleton
    <3>2. Cardinality({1} \cup {3}) = IF 3 \in {1} THEN Cardinality({1}) ELSE Cardinality({1}) + 1
      BY <3>1, FS_AddElement
    <3>3. QED
      BY <3>1, <3>2
  <2>7. QED
    BY <2>2, <2>5, <2>6 DEF InDosExact
<1>6. QED
  BY <1>1, <1>2, <1>3, <1>4, <1>5 DEF StackInv

(* InDosExact: when no handler of INT 28h is ended by ^C inside a call of its own, InDOS is the
   number of calls in progress, so it is 0 whenever the program runs. *)
THEOREM InDosIsExact == HandlersReturn => (Spec => []InDosExact)
<1> SUFFICES ASSUME HandlersReturn
             PROVE  Spec => []InDosExact
  OBVIOUS
<1>1. Init => ExactInv
  BY StackInit
<1>2. ExactInv /\ [Next]_vars => ExactInv'
  BY StepKept DEF Kept, ExactInv
<1>3. ExactInv => InDosExact
  BY ExactFromStack
<1>4. QED
  BY <1>1, <1>2, <1>3, PTL DEF Spec

(***************************************************************************)
(* The line of INT 21h/3Fh.                                                *)
(***************************************************************************)
(* What is typed, and what a buffer holds.                                 *)
Keys    == UNION {u.keys : u \in Uses}
Chars   == Keys \cup Ext \cup {Nul, Eof, "CR", "LF", "^Z"}
KbdType == [keys : Seq(Keys), scan : Ext \cup {Nul}, flag : BOOLEAN, gone : BOOLEAN]
LineBuf == [size : Nat, count : Nat, buf : Seq(Chars)]
Wants   == {"char", "skip", "ext", "F2", "F4"}

Holds(kp) == kp \in LineBuf /\ kp.size <= Len(kp.buf)

(* The editor's line leaves room for the CR, and its stored line is inside *)
(* the buffer.                                                             *)
IsLine(l)   == l = [buf |-> l.buf, tpl |-> l.tpl, pos |-> l.pos, ins |-> l.ins,
                    first |-> l.first, cu |-> l.cu]
Fits(l, kp) == /\ IsLine(l) /\ l.buf \in Seq(Chars) /\ l.tpl \in Nat /\ l.pos \in Nat
               /\ Len(l.buf) = 0 \/ Len(l.buf) <= kp.size - 1
               /\ l.tpl <= Len(kp.buf)

(* The next piece to hand over is what is still owed.                      *)
PieceNext ==
    inputptr # 0 /\ owed # NoOwed =>
        /\ inputptr <= kb.count + 1 /\ kb.count <= Len(kb.buf)
        /\ SubSeq(kb.buf, inputptr, kb.count) = owed

InputInv  == kbd \in KbdType /\ aux \in Seq(Keys)
BufferInv ==
    /\ Holds(kb) /\ Len(kb.buf) = KBD_MAXLENGTH /\ kb.size \in {0, ConSize}
    /\ Holds(usr)
    /\ inputptr \in Nat /\ PieceNext

(* A call that edits a line, in the program's buffer or in kb_buf.         *)
Edits(f)  == f.op \in {"0A", "3F"} /\ f.pc \notin {"hand", "done"}
Target(f) == IF f.op = "0A" THEN usr ELSE kb

(* 3Fh edits only when the last line was handed over; an extended key is   *)
(* taken in one go.                                                        *)
LineFrame(f) ==
    /\ IF Edits(f) THEN Fits(line, Target(f)) ELSE line = NoLine
    /\ f.op = "0A" => /\ f.want = "char"
                      /\ f.echo => f.next = "get" \/ (f.next = "done" /\ line = NoLine)
    /\ f.op = "3F" =>
        /\ f.want \in Wants
        /\ f.echo => f.next = "get"
        /\ f.pc = "hand" => inputptr # 0
        /\ Edits(f) => /\ inputptr = 0 /\ kb.size = ConSize
                       /\ f.want = "ext" => f.pc = "get" /\ ~f.echo /\ kbd.scan \in Ext

LineInv == /\ IF frames = <<>> THEN line = NoLine ELSE LineFrame(frames[1])
           /\ Len(frames) = 3 /\ frames[3].op \in {"00", Int23} => line = NoLine

HandInv == StackInv /\ InputInv /\ BufferInv /\ LineInv

(***************************************************************************)
(* Sequences of characters.                                                *)
(***************************************************************************)
(* The lesser of two numbers.                                              *)
LEMMA MinOfTwo ==
    ASSUME NEW a \in Int, NEW b \in Int
    PROVE  Min({a, b}) = IF a <= b THEN a ELSE b
<1> DEFINE s == IF a <= b THEN a ELSE b
<1>1. s \in {a, b} /\ \A y \in {a, b} : s <= y
  OBVIOUS
<1>2. \A x \in {a, b} : (\A y \in {a, b} : x <= y) => x = s
  OBVIOUS
<1> HIDE DEF s
<1>3. QED
  BY <1>1, <1>2 DEF Min, s

(* The least of some numbers is one of them.                               *)
LEMMA MinIn ==
    ASSUME NEW S, S \subseteq Nat, S # {}
    PROVE  Min(S) \in S
<1> DEFINE R == {ss \in Nat \X Nat : ss[1] < ss[2]}
<1>1. IsWellFoundedOn(R, Nat)
  BY NatLessThanWellFounded DEF OpToRel
<1>2. PICK i \in S : \A j \in S : <<j, i>> \notin R
  <2> HIDE DEF R
  <2> QED  BY <1>1, WFMin
<1>3. ASSUME NEW j \in S
      PROVE  i <= j
  <2>1. <<j, i>> \in Nat \X Nat /\ <<j, i>> \notin R
    BY <1>2
  <2>2. ~(j < i)
    BY <2>1
  <2>3. QED
    BY <2>2
<1>4. QED
  BY <1>3 DEF Min

(* A sequence written over the start of another.                           *)
LEMMA OverSeq ==
    ASSUME NEW buf \in Seq(Chars), NEW s \in Seq(Chars)
    PROVE  /\ Over(buf, s) \in Seq(Chars) /\ Len(Over(buf, s)) = Len(buf)
           /\ \A i \in 1 .. Len(buf) : Over(buf, s)[i] = IF i <= Len(s) THEN s[i] ELSE buf[i]
<1>1. DOMAIN buf = 1 .. Len(buf) /\ Len(buf) \in Nat /\ Len(s) \in Nat
  BY LenProperties
<1>2. Over(buf, s) = [i \in 1 .. Len(buf) |-> IF i <= Len(s) THEN s[i] ELSE buf[i]]
  BY <1>1 DEF Over
<1>3. ASSUME NEW i \in 1 .. Len(buf)
      PROVE  (IF i <= Len(s) THEN s[i] ELSE buf[i]) \in Chars
  <2>1. CASE i <= Len(s)
    <3>1. i \in 1 .. Len(s)
      BY <1>1, <2>1
    <3>2. QED
      BY <2>1, <3>1, ElementOfSeq
  <2>2. CASE ~(i <= Len(s))
    BY <2>2, ElementOfSeq
  <2>3. QED
    BY <2>1, <2>2
<1>4. Over(buf, s) \in [1 .. Len(buf) -> Chars]
  BY <1>2, <1>3
<1>5. QED
  BY <1>1, <1>2, <1>4

(* A piece of a sequence, from one place to another.                       *)
LEMMA Piece ==
    ASSUME NEW s \in Seq(Chars), NEW m \in Nat \ {0}, NEW n \in Nat, n <= Len(s), m <= n + 1
    PROVE  /\ SubSeq(s, m, n) \in Seq(Chars) /\ Len(SubSeq(s, m, n)) = n - m + 1
           /\ \A i \in 1 .. n - m + 1 : SubSeq(s, m, n)[i] = s[m + i - 1]
<1>1. \A i \in m .. n : s[i] \in Chars
  <2>1. TAKE i \in m .. n
  <2>2. i \in 1 .. Len(s)
    BY LenProperties
  <2>3. QED
    BY <2>2, ElementOfSeq
<1>2. /\ SubSeq(s, m, n) \in Seq(Chars)
      /\ Len(SubSeq(s, m, n)) = IF m <= n THEN n - m + 1 ELSE 0
      /\ \A i \in 1 .. n - m + 1 : SubSeq(s, m, n)[i] = s[m + i - 1]
  BY <1>1, SubSeqProperties
<1>3. (IF m <= n THEN n - m + 1 ELSE 0) = n - m + 1
  OBVIOUS
<1>4. QED
  BY <1>2, <1>3

(* A piece of a piece.                                                     *)
LEMMA PieceOfPiece ==
    ASSUME NEW s \in Seq(Chars), NEW p \in Nat \ {0}, NEW n \in Nat, n <= Len(s), NEW m \in Nat,
           p + m <= n
    PROVE  SubSeq(s, p + m, n) = SubSeq(SubSeq(s, p, n), m + 1, Len(SubSeq(s, p, n)))
<1> DEFINE r == SubSeq(s, p, n)
           k == Len(r)
           q == p + m
           h == m + 1
           a == SubSeq(s, q, n)
           b == SubSeq(r, h, k)
<1>1. r \in Seq(Chars) /\ k = n - p + 1 /\ \A i \in 1 .. n - p + 1 : r[i] = s[p + i - 1]
  BY Piece
<1> HIDE DEF r, k
<1>2. k \in Nat /\ k = Len(r) /\ h \in Nat \ {0} /\ h <= k /\ q \in Nat \ {0} /\ q <= n
  BY <1>1 DEF k
<1> HIDE DEF q, h
<1>3. /\ a \in Seq(Chars) /\ Len(a) = n - q + 1
      /\ \A i \in 1 .. n - q + 1 : a[i] = s[q + i - 1]
  BY <1>2, Piece
<1>4. /\ b \in Seq(Chars) /\ Len(b) = k - h + 1
      /\ \A i \in 1 .. k - h + 1 : b[i] = r[h + i - 1]
  BY <1>1, <1>2, Piece
<1> HIDE DEF a, b
<1>5. Len(a) = Len(b) /\ Len(a) \in Nat
  <2>1. q = p + m /\ h = m + 1 /\ k = n - p + 1
    BY <1>1 DEF q, h
  <2>2. n - q + 1 = k - h + 1
    BY <2>1
  <2>3. n - q + 1 \in Nat
    BY <1>2
  <2>4. QED
    BY <1>3, <1>4, <2>2, <2>3
<1>6. ASSUME NEW i \in 1 .. Len(a)
      PROVE  a[i] = b[i]
  <2>1. i \in 1 .. n - q + 1 /\ i \in 1 .. k - h + 1
    BY <1>3, <1>4, <1>5
  <2>2. h + i - 1 \in 1 .. n - p + 1 /\ p + (h + i - 1) - 1 = q + i - 1
    BY <1>1, <1>2, <2>1 DEF q, h
  <2>3. QED
    BY <1>1, <1>3, <1>4, <2>1, <2>2, ZenonT(30)
<1>7. a = b
  BY <1>3, <1>4, <1>5, <1>6, SeqEqual
<1>8. QED
  BY <1>7 DEF a, b, r, k, q, h

(***************************************************************************)
(* The line editor, over a buffer.                                         *)
(***************************************************************************)
(* What the editor works on: a line, the buffer it is read into, a column. *)
IsEdit(E) == E = [l |-> E.l, kp |-> E.kp, col |-> E.col]

(* An editor's state in order: its buffer is the size that kp is.          *)
Editing(E, kp) == /\ IsEdit(E) /\ Fits(E.l, E.kp) /\ Holds(E.kp)
                  /\ E.kp.size = kp.size /\ Len(E.kp.buf) = Len(kp.buf)

(* The parts of an editor's state, each changed alone.                     *)
WithBuf(E, b) == [E EXCEPT !.l.buf = b]
WithPos(E, p) == [E EXCEPT !.l.pos = p]
WithCol(E, d) == [E EXCEPT !.col = d]

(* Its buffer: nothing else changes.                                       *)
LEMMA BufChanged ==
    ASSUME NEW E, IsEdit(E), IsLine(E.l), NEW b
    PROVE  /\ IsEdit(WithBuf(E, b)) /\ IsLine(WithBuf(E, b).l) /\ WithBuf(E, b).kp = E.kp
           /\ WithBuf(E, b).l.buf = b /\ WithBuf(E, b).l.tpl = E.l.tpl
           /\ WithBuf(E, b).l.pos = E.l.pos
BY DEF IsEdit, IsLine, WithBuf

(* Its place in the template: nothing else changes.                        *)
LEMMA PosChanged ==
    ASSUME NEW E, IsEdit(E), IsLine(E.l), NEW p
    PROVE  /\ IsEdit(WithPos(E, p)) /\ IsLine(WithPos(E, p).l) /\ WithPos(E, p).kp = E.kp
           /\ WithPos(E, p).l.buf = E.l.buf /\ WithPos(E, p).l.tpl = E.l.tpl
           /\ WithPos(E, p).l.pos = p
BY DEF IsEdit, IsLine, WithPos

(* Its column: nothing else changes.                                       *)
LEMMA ColChanged ==
    ASSUME NEW E, IsEdit(E), IsLine(E.l), NEW d
    PROVE  /\ IsEdit(WithCol(E, d)) /\ WithCol(E, d).kp = E.kp /\ WithCol(E, d).l = E.l
BY DEF IsEdit, WithCol

(* A character is put into the line.                                       *)
LEMMA PutParts ==
    ASSUME NEW E, IsEdit(E), IsLine(E.l), NEW c
    PROVE  /\ IsEdit(Put(E, c)) /\ IsLine(Put(E, c).l) /\ Put(E, c).kp = E.kp
           /\ Put(E, c).l.tpl = E.l.tpl
           /\ Put(E, c).l.buf = IF Room(E) \/ c = "CR" THEN Append(E.l.buf, c) ELSE E.l.buf
           /\ Put(E, c).l.pos = IF E.l.pos < E.l.tpl /\ ~E.l.ins THEN E.l.pos + 1 ELSE E.l.pos
<1> DEFINE b == IF Room(E) \/ c = "CR" THEN Append(E.l.buf, c) ELSE E.l.buf
           d == IF Room(E) \/ c = "CR" THEN echo_char(E.col, c) ELSE E.col
           p == IF E.l.pos < E.l.tpl /\ ~E.l.ins THEN E.l.pos + 1 ELSE E.l.pos
           F == WithBuf(E, b)
           G == WithCol(F, d)
<1>1. Put(E, c) = [E EXCEPT !.l.buf = b, !.col = d, !.l.pos = p]
  BY DEF Put
<1> HIDE DEF b, d, p
<1>2. Put(E, c) = WithPos(G, p)
  BY <1>1 DEF IsEdit, IsLine, WithBuf, WithCol, WithPos
<1>3. /\ IsEdit(F) /\ IsLine(F.l) /\ F.kp = E.kp
      /\ F.l.buf = b /\ F.l.tpl = E.l.tpl /\ F.l.pos = E.l.pos
  BY BufChanged
<1> HIDE DEF F
<1>4. IsEdit(G) /\ IsLine(G.l) /\ G.kp = F.kp /\ G.l = F.l
  BY <1>3, ColChanged
<1> HIDE DEF G
<1>5. /\ IsEdit(WithPos(G, p)) /\ IsLine(WithPos(G, p).l) /\ WithPos(G, p).kp = G.kp
      /\ WithPos(G, p).l.buf = G.l.buf /\ WithPos(G, p).l.tpl = G.l.tpl /\ WithPos(G, p).l.pos = p
  BY <1>4, PosChanged
<1>6. QED
  BY <1>2, <1>3, <1>4, <1>5 DEF b, p

(* A piece is copied to the line.                                          *)
Copied(E, b, p, d) == [E EXCEPT !.l.buf = b, !.l.pos = p, !.col = d]

(* What a copy changes.                                                    *)
LEMMA CopyParts ==
    ASSUME NEW E, IsEdit(E), IsLine(E.l), NEW b, NEW p, NEW d
    PROVE  /\ IsEdit(Copied(E, b, p, d)) /\ IsLine(Copied(E, b, p, d).l)
           /\ Copied(E, b, p, d).kp = E.kp
           /\ Copied(E, b, p, d).l.buf = b /\ Copied(E, b, p, d).l.tpl = E.l.tpl
           /\ Copied(E, b, p, d).l.pos = p
<1> DEFINE F == WithBuf(E, b)
           G == WithPos(F, p)
<1>1. Copied(E, b, p, d) = WithCol(G, d)
  BY DEF IsEdit, IsLine, Copied, WithBuf, WithPos, WithCol
<1>2. /\ IsEdit(F) /\ IsLine(F.l) /\ F.kp = E.kp
      /\ F.l.buf = b /\ F.l.tpl = E.l.tpl
  BY BufChanged
<1> HIDE DEF F
<1>3. /\ IsEdit(G) /\ IsLine(G.l) /\ G.kp = F.kp
      /\ G.l.buf = F.l.buf /\ G.l.tpl = F.l.tpl /\ G.l.pos = p
  BY <1>2, PosChanged
<1> HIDE DEF G
<1>4. IsEdit(WithCol(G, d)) /\ WithCol(G, d).kp = G.kp /\ WithCol(G, d).l = G.l
  BY <1>3, ColChanged
<1>5. QED
  BY <1>1, <1>2, <1>3, <1>4

(* What a line that starts again changes.                                  *)
LEMMA NewLineParts ==
    ASSUME NEW E, IsEdit(E), IsLine(E.l)
    PROVE  /\ IsEdit(NewLine(E)) /\ IsLine(NewLine(E).l) /\ NewLine(E).kp = E.kp
           /\ NewLine(E).l.buf = <<>> /\ NewLine(E).l.tpl = E.l.tpl /\ NewLine(E).l.pos = 0
<1> DEFINE l == [E.l EXCEPT !.buf = <<>>, !.pos = 0, !.ins = FALSE]
           F == [E EXCEPT !.l = l]
           n == FALSE
           z == <<>>
<1>1. IsLine(l) /\ l.buf = <<>> /\ l.tpl = E.l.tpl /\ l.pos = 0
  <2>1. l = [E.l EXCEPT !.buf = z, !.pos = 0, !.ins = n] /\ z = <<>>
    OBVIOUS
  <2> HIDE DEF n, z, l
  <2>2. l = [buf |-> z, tpl |-> E.l.tpl, pos |-> 0, ins |-> n, first |-> E.l.first, cu |-> E.l.cu]
    BY <2>1 DEF IsLine
  <2>3. QED
    BY <2>1, <2>2 DEF IsLine
<1>2. NewLine(E) = [E EXCEPT !.l = l, !.col = E.l.cu]
  BY DEF NewLine
<1> HIDE DEF l
<1>3. IsEdit(NewLine(E)) /\ NewLine(E).l = l /\ NewLine(E).kp = E.kp
  BY <1>2 DEF IsEdit
<1>4. QED
  BY <1>1, <1>3

(* A character that is not the end of the line only goes where there is    *)
(* room; a CR always goes in.                                              *)
LEMMA PutEdits ==
    ASSUME NEW kp, NEW E, Editing(E, kp), NEW c \in Chars
    PROVE  /\ c # "CR" => Editing(Put(E, c), kp)
           /\ Put(E, c).l.buf \in Seq(Chars) /\ Put(E, c).kp = E.kp
           /\ c = "CR" => Put(E, c).l.buf = Append(E.l.buf, c)
<1> DEFINE F == Put(E, c)
<1>1. /\ IsEdit(F) /\ IsLine(F.l) /\ F.kp = E.kp /\ F.l.tpl = E.l.tpl
      /\ F.l.buf = IF Room(E) \/ c = "CR" THEN Append(E.l.buf, c) ELSE E.l.buf
      /\ F.l.pos = IF E.l.pos < E.l.tpl /\ ~E.l.ins THEN E.l.pos + 1 ELSE E.l.pos
  BY PutParts DEF Editing, Fits
<1> HIDE DEF F
<1>2. /\ E.l.buf \in Seq(Chars) /\ E.l.tpl \in Nat /\ E.l.pos \in Nat /\ E.l.tpl <= Len(E.kp.buf)
      /\ Len(E.l.buf) = 0 \/ Len(E.l.buf) <= E.kp.size - 1
      /\ Holds(E.kp) /\ E.kp.size = kp.size /\ Len(E.kp.buf) = Len(kp.buf) /\ E.kp.size \in Nat
  BY DEF Editing, Fits, Holds, LineBuf
<1>3. Append(E.l.buf, c) \in Seq(Chars) /\ Len(Append(E.l.buf, c)) = Len(E.l.buf) + 1
  BY <1>2, AppendProperties
<1>4. F.l.buf \in Seq(Chars)
  BY <1>1, <1>2, <1>3
<1>5. ASSUME c # "CR"
      PROVE  Editing(F, kp)
  <2>1. Len(F.l.buf) = 0 \/ Len(F.l.buf) <= E.kp.size - 1
    BY <1>1, <1>2, <1>3, <1>5, LenProperties DEF Room
  <2>2. F.l.pos \in Nat
    BY <1>1, <1>2
  <2>3. QED
    BY <1>1, <1>2, <1>4, <2>1, <2>2 DEF Editing, Fits
<1>6. QED
  BY <1>1, <1>4, <1>5 DEF F

(* The stored line is skipped.                                             *)
LEMMA SkipEdits ==
    ASSUME NEW kp, NEW E, Editing(E, kp), NEW p \in Nat
    PROVE  Editing(SkipTo(E, p), kp)
<1> DEFINE F == WithPos(E, p)
<1>1. /\ IsEdit(F) /\ IsLine(F.l) /\ F.kp = E.kp
      /\ F.l.buf = E.l.buf /\ F.l.tpl = E.l.tpl /\ F.l.pos = p
  BY PosChanged DEF Editing, Fits
<1>2. SkipTo(E, p) = F
  BY DEF SkipTo, WithPos
<1> HIDE DEF F
<1>3. Editing(F, kp)
  BY <1>1 DEF Editing, Fits
<1>4. QED
  BY <1>2, <1>3

(* The stored line is copied, as far as there is room.                     *)
LEMMA CopyEdits ==
    ASSUME NEW kp, NEW E, Editing(E, kp), NEW new \in Nat,
           new <= E.l.pos \/ new <= Len(E.kp.buf)
    PROVE  Editing(CopyTo(E, new), kp)
<1> DEFINE n == Min({new - E.l.pos, E.kp.size - 1 - Len(E.l.buf)})
           piece == IF n > 0 THEN SubSeq(E.kp.buf, E.l.pos + 1, E.l.pos + n) ELSE <<>>
           b == E.l.buf \o piece
           p == E.l.pos + Len(piece)
           d == Columns(E.col, piece)
           F == Copied(E, b, p, d)
<1>1. /\ E.l.buf \in Seq(Chars) /\ E.l.tpl \in Nat /\ E.l.pos \in Nat /\ E.l.tpl <= Len(E.kp.buf)
      /\ Len(E.l.buf) = 0 \/ Len(E.l.buf) <= E.kp.size - 1
      /\ Holds(E.kp) /\ E.kp.size = kp.size /\ Len(E.kp.buf) = Len(kp.buf) /\ E.kp.size \in Nat
      /\ E.kp.buf \in Seq(Chars) /\ Len(E.l.buf) \in Nat /\ Len(E.kp.buf) \in Nat
  BY LenProperties DEF Editing, Fits, Holds, LineBuf
<1>2. n \in Int /\ n <= new - E.l.pos /\ n <= E.kp.size - 1 - Len(E.l.buf)
  <2> DEFINE x == new - E.l.pos
             y == E.kp.size - 1 - Len(E.l.buf)
  <2>1. x \in Int /\ y \in Int /\ n = Min({x, y})
    BY <1>1
  <2> HIDE DEF x, y, n
  <2>2. n \in Int /\ n <= x /\ n <= y
    BY <2>1, MinOfTwo
  <2>3. QED
    BY <2>2 DEF x, y
<1>3. CopyTo(E, new) = [E EXCEPT !.l.buf = b, !.l.pos = @ + Len(piece), !.col = d]
  BY DEF CopyTo
<1> HIDE DEF n
<1>4. piece \in Seq(Chars) /\ Len(piece) = IF n > 0 THEN n ELSE 0
  <2>1. CASE n > 0
    <3> DEFINE m == E.l.pos + 1
               k == E.l.pos + n
    <3>1. m \in Nat \ {0} /\ k \in Nat /\ k <= Len(E.kp.buf) /\ m <= k + 1 /\ k - m + 1 = n
      <4>1. E.l.pos \in Nat /\ n \in Nat /\ n >= 1 /\ new > E.l.pos /\ E.l.pos + n <= new
        BY <1>1, <1>2, <2>1, SMTT(30)
      <4>2. E.l.pos + n <= Len(E.kp.buf)
        BY <1>1, <4>1
      <4> DEFINE u == E.l.pos
      <4>3. u \in Nat /\ n \in Nat /\ n >= 1 /\ u + n <= Len(E.kp.buf) /\ m = u + 1 /\ k = u + n
        BY <4>1, <4>2
      <4> HIDE DEF u, m, k
      <4>4. QED
        BY <4>3
    <3> HIDE DEF m, k
    <3>2. SubSeq(E.kp.buf, m, k) \in Seq(Chars) /\ Len(SubSeq(E.kp.buf, m, k)) = k - m + 1
      BY <1>1, <3>1, Piece
    <3>3. QED
      BY <2>1, <3>1, <3>2 DEF m, k
  <2>2. CASE ~(n > 0)
    BY <2>2
  <2>3. QED
    BY <2>1, <2>2
<1> HIDE DEF piece
<1>5. b \in Seq(Chars) /\ Len(b) = Len(E.l.buf) + Len(piece)
  <2>1. E.l.buf \in Seq(Chars) /\ piece \in Seq(Chars)
    BY <1>1, <1>4
  <2>2. QED
    BY <2>1, ConcatProperties
<1>6. Len(b) = 0 \/ Len(b) <= E.kp.size - 1
  <2> DEFINE x == Len(E.l.buf)
             y == Len(piece)
             z == E.kp.size
  <2>1. /\ x \in Nat /\ z \in Nat /\ n \in Int /\ n <= z - 1 - x /\ (x = 0 \/ x <= z - 1)
        /\ y = (IF n > 0 THEN n ELSE 0) /\ Len(b) = x + y
    BY <1>1, <1>2, <1>4, <1>5
  <2> HIDE DEF x, y, z, b
  <2>2. n > 0 => Len(b) <= z - 1
    BY <2>1
  <2>3. ~(n > 0) => Len(b) = x
    BY <2>1
  <2>4. Len(b) = 0 \/ Len(b) <= z - 1
    BY <2>1, <2>2, <2>3
  <2>5. QED
    BY <2>4 DEF z
<1>7. p \in Nat
  BY <1>1, <1>2, <1>4
<1> HIDE DEF b, d
<1>8. CopyTo(E, new) = F
  BY <1>3 DEF Copied, Editing, IsEdit, Fits, IsLine
<1> HIDE DEF p
<1>9. IsEdit(F) /\ IsLine(F.l) /\ F.kp = E.kp /\ F.l.buf = b /\ F.l.tpl = E.l.tpl /\ F.l.pos = p
  BY CopyParts DEF Editing, Fits
<1> HIDE DEF F
<1>10. Editing(F, kp)
  BY <1>1, <1>5, <1>6, <1>7, <1>9 DEF Editing, Fits
<1>11. QED
  BY <1>8, <1>10

(* Where F2 and F4 find their character: inside the buffer.                *)
LEMMA FoundInside ==
    ASSUME NEW kp, NEW E, Editing(E, kp), NEW c
    PROVE  /\ Found(E, c) \in Nat
           /\ Found(E, c) <= E.l.pos \/ Found(E, c) <= Len(E.kp.buf)
<1> DEFINE last == IF E.l.pos > E.l.tpl THEN Len(E.kp.buf) ELSE E.l.tpl
           hits == {i \in E.l.pos + 1 .. last : E.kp.buf[i] = c}
<1>1. /\ E.l.tpl \in Nat /\ E.l.pos \in Nat /\ E.l.tpl <= Len(E.kp.buf) /\ Len(E.kp.buf) \in Nat
  BY LenProperties DEF Editing, Fits, Holds, LineBuf
<1>2. last \in Nat /\ last <= Len(E.kp.buf)
  BY <1>1
<1> HIDE DEF last
<1>3. \A i \in hits : i \in Nat /\ E.l.pos < i /\ i <= Len(E.kp.buf)
  BY <1>1, <1>2
<1>4. Found(E, c) = IF c = Nul \/ hits = {} THEN E.l.pos ELSE Min(hits) - E.l.pos
  BY DEF Found, last
<1> HIDE DEF hits
<1>5. CASE c = Nul \/ hits = {}
  BY <1>1, <1>4, <1>5
<1>6. CASE ~(c = Nul \/ hits = {})
  <2>1. Min(hits) \in hits
    BY <1>3, <1>6, MinIn
  <2>2. QED
    BY <1>1, <1>3, <1>4, <1>6, <2>1
<1>7. QED
  BY <1>5, <1>6

(* F2 and F4 with their character                                          *)
LEMMA UpToEdits ==
    ASSUME NEW kp, NEW E, Editing(E, kp), NEW cmd, NEW c
    PROVE  Editing(EditUpTo(E, cmd, c), kp)
<1> DEFINE new == Found(E, c)
           F == IF cmd = "F2" THEN CopyTo(E, new) ELSE E
<1>1. new \in Nat /\ (new <= E.l.pos \/ new <= Len(E.kp.buf))
  BY FoundInside
<1>2. EditUpTo(E, cmd, c) = SkipTo(F, new)
  BY DEF EditUpTo
<1> HIDE DEF new
<1>3. Editing(CopyTo(E, new), kp)
  BY <1>1, CopyEdits
<1>4. Editing(F, kp)
  BY <1>3
<1> HIDE DEF F
<1>5. QED
  BY <1>1, <1>2, <1>4, SkipEdits

(* The line starts again.                                                  *)
LEMMA NewLineEdits ==
    ASSUME NEW kp, NEW E, Editing(E, kp)
    PROVE  Editing(NewLine(E), kp)
<1> DEFINE F == NewLine(E)
<1>1. /\ IsEdit(F) /\ IsLine(F.l) /\ F.kp = E.kp
      /\ F.l.buf = <<>> /\ F.l.tpl = E.l.tpl /\ F.l.pos = 0
  BY NewLineParts DEF Editing, Fits
<1> HIDE DEF F
<1>2. F.l.buf \in Seq(Chars) /\ Len(F.l.buf) = 0
  BY <1>1
<1>3. Editing(F, kp)
  BY <1>1, <1>2 DEF Editing, Fits
<1>4. QED
  BY <1>3 DEF F

(* F5: what was typed becomes the stored line.                             *)
KeepLine(E) == [E EXCEPT !.kp.buf = Over(@, E.l.buf), !.l.tpl = Len(E.l.buf)]

(* What it changes.                                                        *)
LEMMA KeepParts ==
    ASSUME NEW E, IsEdit(E), IsLine(E.l), E.kp \in LineBuf
    PROVE  /\ IsEdit(KeepLine(E)) /\ IsLine(KeepLine(E).l)
           /\ KeepLine(E).kp = [size |-> E.kp.size, count |-> E.kp.count, buf |-> Over(E.kp.buf, E.l.buf)]
           /\ KeepLine(E).l.buf = E.l.buf /\ KeepLine(E).l.tpl = Len(E.l.buf)
           /\ KeepLine(E).l.pos = E.l.pos
<1> DEFINE o == Over(E.kp.buf, E.l.buf)
           t == Len(E.l.buf)
           F == [E EXCEPT !.kp.buf = o]
           G == [F EXCEPT !.l.tpl = t]
<1>1. KeepLine(E) = [E EXCEPT !.kp.buf = o, !.l.tpl = t]
  BY DEF KeepLine
<1> HIDE DEF o, t
<1>2. KeepLine(E) = G
  BY <1>1 DEF IsEdit, IsLine
<1>3. IsEdit(F) /\ F.l = E.l /\ F.kp = [size |-> E.kp.size, count |-> E.kp.count, buf |-> o]
  BY DEF IsEdit, LineBuf
<1> HIDE DEF F
<1>4. /\ IsEdit(G) /\ IsLine(G.l) /\ G.kp = F.kp
      /\ G.l.buf = F.l.buf /\ G.l.tpl = t /\ G.l.pos = F.l.pos
  BY <1>3 DEF IsEdit, IsLine
<1> HIDE DEF G
<1>5. QED
  BY <1>2, <1>3, <1>4 DEF o, t

(* The stored line fits the buffer.                                        *)
LEMMA KeepEdits ==
    ASSUME NEW kp, NEW E, Editing(E, kp)
    PROVE  Editing(KeepLine(E), kp)
<1> DEFINE F == KeepLine(E)
           o == Over(E.kp.buf, E.l.buf)
<1>1. /\ E.l.buf \in Seq(Chars) /\ E.kp \in LineBuf /\ E.kp.buf \in Seq(Chars)
      /\ E.kp.size \in Nat /\ E.kp.count \in Nat /\ E.kp.size <= Len(E.kp.buf)
      /\ Len(E.l.buf) = 0 \/ Len(E.l.buf) <= E.kp.size - 1
      /\ Len(E.l.buf) \in Nat /\ Len(E.kp.buf) \in Nat
  BY LenProperties DEF Editing, Fits, Holds, LineBuf
<1>2. o \in Seq(Chars) /\ Len(o) = Len(E.kp.buf)
  BY <1>1, OverSeq
<1>3. /\ IsEdit(F) /\ IsLine(F.l) /\ F.l.buf = E.l.buf /\ F.l.tpl = Len(E.l.buf) /\ F.l.pos = E.l.pos
      /\ F.kp = [size |-> E.kp.size, count |-> E.kp.count, buf |-> o]
  BY <1>1, KeepParts DEF Editing, Fits
<1> HIDE DEF F, o
<1>4. Holds(F.kp) /\ F.kp.size = E.kp.size /\ F.kp.buf = o
  BY <1>1, <1>2, <1>3 DEF Holds, LineBuf
<1>5. Editing(F, kp)
  <2>1. F.l.tpl <= Len(F.kp.buf) /\ F.l.tpl \in Nat
    BY <1>1, <1>2, <1>3, <1>4
  <2>2. QED
    BY <1>1, <1>2, <1>3, <1>4, <2>1 DEF Editing, Fits
<1>6. QED
  BY <1>5 DEF F

(* Backspace                                                               *)
Back(E) == [E EXCEPT !.l.buf = IF @ = <<>> THEN @ ELSE Front(@),
                     !.col = IF E.l.buf = <<>> THEN @ ELSE Erase(E.l, @),
                     !.l.pos = IF @ > 0 THEN @ - 1 ELSE @]

(* It takes the last character of the line.                                *)
LEMMA BackEdits ==
    ASSUME NEW kp, NEW E, Editing(E, kp)
    PROVE  Editing(Back(E), kp)
<1> DEFINE b == IF E.l.buf = <<>> THEN E.l.buf ELSE Front(E.l.buf)
           d == IF E.l.buf = <<>> THEN E.col ELSE Erase(E.l, E.col)
           p == IF E.l.pos > 0 THEN E.l.pos - 1 ELSE E.l.pos
           F == Copied(E, b, p, d)
<1>1. /\ E.l.buf \in Seq(Chars) /\ E.l.tpl \in Nat /\ E.l.pos \in Nat /\ E.l.tpl <= Len(E.kp.buf)
      /\ Len(E.l.buf) = 0 \/ Len(E.l.buf) <= E.kp.size - 1
      /\ Holds(E.kp) /\ E.kp.size = kp.size /\ Len(E.kp.buf) = Len(kp.buf) /\ E.kp.size \in Nat
      /\ Len(E.l.buf) \in Nat
  BY LenProperties DEF Editing, Fits, Holds, LineBuf
<1>2. b \in Seq(Chars) /\ Len(b) <= Len(E.l.buf) /\ Len(b) \in Nat
  <2>1. CASE E.l.buf = <<>>
    BY <1>1, <2>1
  <2>2. CASE E.l.buf # <<>>
    <3> DEFINE n == Len(E.l.buf) - 1
               m == 1
    <3>1. Len(E.l.buf) > 0
      BY <1>1, <2>2, EmptySeq
    <3>2. n \in Nat /\ n <= Len(E.l.buf) /\ m \in Nat \ {0} /\ m <= n + 1 /\ n - m + 1 = n
      BY <1>1, <3>1
    <3>3. Front(E.l.buf) = SubSeq(E.l.buf, m, n)
      BY DEF Front
    <3> HIDE DEF n, m
    <3>4. SubSeq(E.l.buf, m, n) \in Seq(Chars) /\ Len(SubSeq(E.l.buf, m, n)) = n - m + 1
      BY <1>1, <3>2, Piece
    <3>5. QED
      BY <1>1, <2>2, <3>2, <3>3, <3>4
  <2>3. QED
    BY <2>1, <2>2
<1>3. p \in Nat
  BY <1>1
<1>4. Back(E) = [E EXCEPT !.l.buf = b, !.col = d, !.l.pos = p]
  BY DEF Back
<1> HIDE DEF b, d, p
<1>5. Back(E) = F
  BY <1>4 DEF Copied, Editing, IsEdit, Fits, IsLine
<1>6. IsEdit(F) /\ IsLine(F.l) /\ F.kp = E.kp /\ F.l.buf = b /\ F.l.tpl = E.l.tpl /\ F.l.pos = p
  BY CopyParts DEF Editing, Fits
<1> HIDE DEF F
<1>7. Len(F.l.buf) = 0 \/ Len(F.l.buf) <= E.kp.size - 1
  BY <1>1, <1>2, <1>6
<1>8. Editing(F, kp)
  BY <1>1, <1>2, <1>3, <1>6, <1>7 DEF Editing, Fits
<1>9. QED
  BY <1>5, <1>8

(* The line editor on a character that does not end the line.              *)
LEMMA EditEdits ==
    ASSUME NEW kp, NEW E, Editing(E, kp), NEW c \in Chars, c # "CR"
    PROVE  Editing(Edit(E, c), kp)
<1>1. /\ E.l.tpl \in Nat /\ E.l.pos \in Nat /\ E.l.tpl <= Len(E.kp.buf) /\ Len(E.kp.buf) \in Nat
      /\ IsEdit(E) /\ IsLine(E.l) /\ Fits(E.l, E.kp)
  BY LenProperties DEF Editing, Fits, Holds, LineBuf
<1>2. CASE c = "LF"
  <2> DEFINE d == IF E.l.first THEN E.col ELSE 0
             F == [E EXCEPT !.col = d]
  <2>1. Edit(E, c) = F
    BY <1>2 DEF Edit
  <2> HIDE DEF d
  <2>2. IsEdit(F) /\ F.l = E.l /\ F.kp = E.kp
    BY <1>1 DEF IsEdit
  <2> HIDE DEF F
  <2>3. QED
    BY <2>1, <2>2 DEF Editing
<1>3. CASE c = "F1"
  <2> DEFINE q == E.l.pos + 1
  <2>1. Edit(E, c) = E \/ (E.l.pos < E.l.tpl /\ Edit(E, c) = CopyTo(E, q))
    BY <1>3 DEF Edit
  <2>2. CASE E.l.pos < E.l.tpl
    <3>1. q \in Nat /\ q <= Len(E.kp.buf)
      BY <1>1, <2>2
    <3> HIDE DEF q
    <3>2. Editing(CopyTo(E, q), kp)
      BY <3>1, CopyEdits
    <3>3. QED
      BY <2>1, <3>2
  <2>3. QED
    BY <2>1, <2>2
<1>4. CASE c = "F3"
  <2> DEFINE F == CopyTo(E, E.l.tpl)
  <2>1. Editing(F, kp)
    BY <1>1, CopyEdits
  <2>2. Edit(E, c) = SkipTo(F, E.l.tpl)
    BY <1>4 DEF Edit
  <2> HIDE DEF F
  <2>3. QED
    BY <1>1, <2>1, <2>2, SkipEdits
<1>5. CASE c = "F5"
  <2>1. Edit(E, c) = NewLine(KeepLine(E))
    BY <1>5 DEF Edit, KeepLine
  <2>2. QED
    BY <2>1, KeepEdits, NewLineEdits
<1>6. CASE c = "ESC"
  BY <1>6, NewLineEdits DEF Edit
<1>7. CASE c = "INS"
  <2> DEFINE x == ~E.l.ins
             l == [E.l EXCEPT !.ins = x]
             F == [E EXCEPT !.l = l]
  <2>1. Edit(E, c) = [E EXCEPT !.l.ins = x]
    BY <1>7 DEF Edit
  <2> HIDE DEF x
  <2>2. IsLine(l) /\ l.buf = E.l.buf /\ l.tpl = E.l.tpl /\ l.pos = E.l.pos
    BY <1>1 DEF IsLine
  <2>3. Edit(E, c) = F
    BY <1>1, <2>1 DEF IsEdit
  <2> HIDE DEF l
  <2>4. IsEdit(F) /\ F.l = l /\ F.kp = E.kp
    BY <1>1 DEF IsEdit
  <2> HIDE DEF F
  <2>5. QED
    BY <1>1, <2>2, <2>3, <2>4 DEF Editing, Fits
<1>8. CASE c = "DEL"
  <2> DEFINE q == E.l.pos + 1
  <2>1. Edit(E, c) = SkipTo(E, q)
    BY <1>8 DEF Edit, SkipTo
  <2>2. q \in Nat
    BY <1>1
  <2> HIDE DEF q
  <2>3. QED
    BY <2>1, <2>2, SkipEdits
<1>9. CASE c = "BS"
  <2>1. Edit(E, c) = Back(E)
    BY <1>9 DEF Edit, Back
  <2>2. QED
    BY <2>1, BackEdits
<1>10. CASE c \notin {"LF", "F1", "F3", "F5", "ESC", "INS", "DEL", "BS"}
  <2> DEFINE x == IF c = "F6" THEN "^Z" ELSE c
  <2>1. Edit(E, c) = Put(E, x)
    BY <1>10 DEF Edit
  <2>2. x \in Chars /\ x # "CR"
    BY DEF Chars
  <2> HIDE DEF x
  <2>3. QED
    BY <2>1, <2>2, PutEdits
<1>11. QED
  BY <1>2, <1>3, <1>4, <1>5, <1>6, <1>7, <1>8, <1>9, <1>10

(***************************************************************************)
(* Keys.                                                                   *)
(***************************************************************************)
(* A key that is taken: one of two bytes leaves its scan code.             *)
LEMMA KeyTaken ==
    ASSUME kbd \in KbdType
    PROVE  /\ CommonNdRdExit(kbd) \in Chars
           /\ Ready(kbd) => KbdRdChar(kbd) \in KbdType
           /\ Ready(kbd) /\ CommonNdRdExit(kbd) = Nul => KbdRdChar(kbd).scan \in Ext
           /\ kbd.scan \in Ext => CommonNdRdExit(kbd) = kbd.scan /\ Ready(kbd)
           /\ ConInpFlush(kbd) \in KbdType
<1>1. /\ kbd.keys \in Seq(Keys) /\ kbd.scan \in Ext \cup {Nul} /\ Nul \notin Ext
      /\ kbd.flag \in BOOLEAN /\ kbd.gone \in BOOLEAN /\ Nul \notin Keys
  BY ConAssumption DEF KbdType, Keys
<1>2. kbd.keys # <<>> => Head(kbd.keys) \in Keys /\ Tail(kbd.keys) \in Seq(Keys)
  BY <1>1, HeadTailProperties
<1>3. CommonNdRdExit(kbd) \in Chars
  BY <1>1, <1>2 DEF CommonNdRdExit, Chars
<1>4. ASSUME Ready(kbd)
      PROVE  /\ KbdRdChar(kbd) \in KbdType
             /\ CommonNdRdExit(kbd) = Nul => KbdRdChar(kbd).scan \in Ext
  <2>1. CASE kbd.scan # Nul
    BY <1>1, <2>1 DEF KbdRdChar, KbdType, CommonNdRdExit
  <2>2. CASE kbd.scan = Nul
    <3> DEFINE t == Tail(kbd.keys)
               x == IF Head(kbd.keys) \in Ext THEN Head(kbd.keys) ELSE Nul
               k == [kbd EXCEPT !.keys = t]
    <3>1. kbd.keys # <<>>
      BY <1>4, <2>2 DEF Ready
    <3>2. t \in Seq(Keys) /\ x \in Ext \cup {Nul}
      BY <1>2, <3>1
    <3>3. CommonNdRdExit(kbd) = Nul => x \in Ext
      BY <1>1, <1>2, <2>2, <3>1 DEF CommonNdRdExit
    <3>4. KbdRdChar(kbd) = [kbd EXCEPT !.keys = t, !.scan = x]
      BY <2>2 DEF KbdRdChar
    <3> HIDE DEF t, x
    <3>5. k \in KbdType
      BY <3>2 DEF KbdType
    <3>6. KbdRdChar(kbd) = [k EXCEPT !.scan = x]
      BY <3>4
    <3> HIDE DEF k
    <3>7. QED
      BY <3>2, <3>3, <3>5, <3>6 DEF KbdType
  <2>3. QED
    BY <2>1, <2>2
<1>5. ConInpFlush(kbd) \in KbdType
  <2> DEFINE e == <<>>
             k == [kbd EXCEPT !.keys = e]
  <2>1. ConInpFlush(kbd) = [kbd EXCEPT !.keys = e, !.scan = Nul] /\ e \in Seq(Keys)
    BY DEF ConInpFlush
  <2> HIDE DEF e
  <2>2. k \in KbdType
    BY <2>1 DEF KbdType
  <2>3. ConInpFlush(kbd) = [k EXCEPT !.scan = Nul]
    BY <2>1
  <2> HIDE DEF k
  <2>4. QED
    BY <2>2, <2>3 DEF KbdType
<1>6. kbd.scan \in Ext => CommonNdRdExit(kbd) = kbd.scan /\ Ready(kbd)
  BY <1>1 DEF CommonNdRdExit, Ready
<1>7. QED
  BY <1>3, <1>4, <1>5, <1>6

(* The flag alone changes.                                                 *)
LEMMA FlagOnly ==
    ASSUME NEW k \in KbdType, NEW x \in BOOLEAN
    PROVE  [k EXCEPT !.flag = x] \in KbdType /\ [k EXCEPT !.flag = x].scan = k.scan
BY DEF KbdType

(* A break empties the queue of its device and drops the line.             *)
LEMMA BreakHand ==
    ASSUME InputInv, NEW dev, NEW fs, NEW depth, handle_break(dev, fs, depth)
    PROVE  InputInv' /\ line' = NoLine /\ UNCHANGED <<kb, usr, inputptr, owed>>
<1> DEFINE n == FALSE
           k == ConInpFlush(kbd)
<1>1. k \in KbdType
  BY KeyTaken DEF InputInv
<1>2. /\ kbd' = [kbd EXCEPT !.flag = n] \/ kbd' = [k EXCEPT !.flag = n]
      /\ aux' = <<>> \/ aux' = aux
      /\ line' = NoLine /\ UNCHANGED <<kb, usr, inputptr, owed>> /\ n \in BOOLEAN
  BY DEF handle_break
<1> HIDE DEF n, k
<1>3. kbd' \in KbdType
  BY <1>1, <1>2, FlagOnly DEF InputInv
<1>4. aux' \in Seq(Keys)
  <2>1. CASE aux' = <<>>
    BY <2>1, EmptySeq
  <2>2. CASE aux' = aux
    BY <2>2 DEF InputInv
  <2>3. QED
    BY <1>2, <2>1, <2>2
<1>5. QED
  BY <1>2, <1>3, <1>4 DEF InputInv

(***************************************************************************)
(* Lines and frames.                                                       *)
(***************************************************************************)
(* What leaves the buffers alone.                                          *)
LEMMA SameBuffers ==
    ASSUME BufferInv, UNCHANGED <<kb, usr, inputptr, owed>>
    PROVE  BufferInv'
BY DEF BufferInv, PieceNext, Holds

(* An empty line fits any buffer.                                          *)
LEMMA NoLineFits ==
    ASSUME NEW kp, Holds(kp)
    PROVE  Fits(NoLine, kp)
<1>1. kp.buf \in Seq(Chars) /\ Len(kp.buf) \in Nat
  BY LenProperties DEF Holds, LineBuf
<1> DEFINE e == <<>>
           t == TRUE
           f == FALSE
<1>2. NoLine = [buf |-> e, tpl |-> 0, pos |-> 0, ins |-> f, first |-> t, cu |-> 0]
  BY DEF NoLine
<1>3. e \in Seq(Chars) /\ Len(e) = 0
  BY EmptySeq
<1> HIDE DEF e, t, f
<1>4. IsLine(NoLine) /\ NoLine.buf = e /\ NoLine.tpl = 0 /\ NoLine.pos = 0
  BY <1>2 DEF IsLine
<1>5. QED
  BY <1>1, <1>3, <1>4 DEF Fits

(* One call in progress, and its line.                                     *)
LEMMA OneLine ==
    ASSUME NEW t, frames' # <<>>, Len(frames') = 1, frames'[1] = t, LineFrame(t)'
    PROVE  LineInv'
BY DEF LineInv, LineFrame, Edits, Target

(* A frame that edits no line                                              *)
LEMMA IdleLine ==
    ASSUME NEW t, t.op \notin {"0A", "3F"}, line' = NoLine
    PROVE  LineFrame(t)'
BY DEF LineFrame, Edits, Target

(* The only frame is replaced.                                             *)
LEMMA OnlyReplaced ==
    ASSUME StackInv, StackInv', Len(frames) = 1, NEW t, frames' = SetTop(t)
    PROVE  frames' # <<>> /\ Len(frames') = 1 /\ frames'[1] = t
<1>1. frames \in Seq(FrameType) /\ frames' \in Seq(FrameType)
  BY DEF StackInv
<1>2. DOMAIN frames = 1 .. 1 /\ DOMAIN frames' = 1 .. Len(frames') /\ Len(frames') \in Nat
  BY <1>1, LenProperties
<1>3. frames' = [frames EXCEPT ![1] = t]
  BY DEF SetTop
<1>4. DOMAIN frames' = 1 .. 1 /\ frames'[1] = t
  BY <1>2, <1>3
<1>5. Len(frames') = 1
  <2> DEFINE n == Len(frames')
  <2>1. n \in Nat /\ 1 .. n = 1 .. 1
    BY <1>2, <1>4
  <2> HIDE DEF n
  <2>2. 1 \in 1 .. n
    BY <2>1
  <2>3. n \in 1 .. n
    BY <2>1, <2>2
  <2>4. n \in 1 .. 1
    BY <2>1, <2>3
  <2>5. QED
    BY <2>4 DEF n
<1>6. QED
  BY <1>1, <1>4, <1>5, EmptySeq

(* A frame that waits for ^S still knows where it goes on.                 *)
LEMMA PausedParts ==
    ASSUME NEW f \in FrameType, NEW k
    PROVE  /\ Paused(f, k) \in FrameType
           /\ Paused(f, k).op = f.op /\ Paused(f, k).want = f.want
           /\ \/ Paused(f, k) = f
              \/ /\ CommonNdRdExit(k) = "^S" /\ Paused(f, k).echo
                 /\ Paused(f, k).next = f.pc /\ Paused(f, k).pc = "get"
<1> DEFINE y == TRUE
           g == [f EXCEPT !.next = f.pc]
           h == [g EXCEPT !.pc = "get"]
           t == [h EXCEPT !.echo = y]
<1>1. g \in FrameType /\ g.op = f.op /\ g.want = f.want /\ g.next = f.pc
  BY DEF FrameType
<1>2. Paused(f, k) = f \/ (CommonNdRdExit(k) = "^S" /\ Paused(f, k) = t)
  BY DEF Paused
<1> HIDE DEF g
<1>3. h \in FrameType /\ h.op = f.op /\ h.want = f.want /\ h.next = f.pc /\ h.pc = "get"
  BY <1>1 DEF FrameType, Places
<1> HIDE DEF h
<1>4. y \in BOOLEAN /\ y
  OBVIOUS
<1> HIDE DEF y
<1>5. t.op = f.op /\ t.want = f.want /\ t.next = f.pc /\ t.pc = "get" /\ t.echo = y
  BY <1>3 DEF FrameType
<1> HIDE DEF t
<1>6. QED
  BY <1>2, <1>4, <1>5, PausedFrame

(* The frame of an edit, when it goes on.                                  *)
LEMMA WantingParts ==
    ASSUME NEW f \in FrameType, NEW w \in Wants
    PROVE  LET t == [f EXCEPT !.want = w, !.pc = "get"]
           IN /\ t \in FrameType /\ t.op = f.op /\ t.want = w /\ t.pc = "get"
              /\ t.echo = f.echo /\ t.next = f.next
<1> DEFINE g == [f EXCEPT !.want = w]
<1>1. g \in FrameType /\ g.op = f.op /\ g.want = w /\ g.echo = f.echo /\ g.next = f.next
  BY DEF FrameType, Wants
<1>2. [f EXCEPT !.want = w, !.pc = "get"] = [g EXCEPT !.pc = "get"]
  OBVIOUS
<1> HIDE DEF g
<1>3. QED
  BY <1>1, <1>2 DEF FrameType, Places

(* A frame at another place.                                               *)
LEMMA MovedParts ==
    ASSUME NEW f \in FrameType, NEW p \in Places
    PROVE  LET t == [f EXCEPT !.pc = p]
           IN /\ t \in FrameType /\ t.op = f.op /\ t.want = f.want /\ t.pc = p
              /\ t.echo = f.echo /\ t.next = f.next
BY DEF FrameType

(* A call that reads is the only one in progress.                          *)
LEMMA ReadingHand ==
    ASSUME HandInv, Reading
    PROVE  /\ Len(frames) = 1 /\ Top = frames[1] /\ Top \in FrameType /\ frames # <<>>
           /\ LineFrame(Top) /\ Top.pc \in {"get", "held", "after"} /\ IsCall(Top)
           /\ Edits(Top) <=> Top.op \in {"0A", "3F"}
<1>1. frames # <<>> /\ IsCall(Top) /\ Top.pc \in {"get", "held", "after"}
  BY DEF Reading
<1>2. Alone /\ Top = frames[1] /\ Top \in FrameType
  BY <1>1, OnlyCall DEF HandInv
<1>3. Len(frames) = 1 /\ LineFrame(Top)
  BY <1>1, <1>2 DEF Alone, HandInv, LineInv
<1>4. QED
  BY <1>1, <1>2, <1>3 DEF Edits

(***************************************************************************)
(* The line editor's steps.                                                *)
(***************************************************************************)
(* The editor goes on: its line fits the buffer it is read into.           *)
LEMMA GoOnHand ==
    ASSUME HandInv, StackInv', Reading, Top.op \in {"0A", "3F"}, ~Top.echo,
           NEW E, Editing(E, Target(Top)), NEW want \in Wants, NEW k \in KbdType, kbd' = k,
           GoOn(E, want, k), Top.op = "0A" => want = "char", want = "ext" => k.scan \in Ext
    PROVE  BufferInv' /\ LineInv'
<1> DEFINE f == [Top EXCEPT !.want = want, !.pc = "get"]
           t == Paused(f, k)
           n == FALSE
           l == [E.l EXCEPT !.first = n]
<1>1. /\ Len(frames) = 1 /\ Top = frames[1] /\ Top \in FrameType /\ frames # <<>>
      /\ LineFrame(Top) /\ Edits(Top)
  BY ReadingHand
<1>2. /\ f \in FrameType /\ f.op = Top.op /\ f.want = want /\ f.pc = "get" /\ ~f.echo
  BY <1>1, WantingParts
<1>3. /\ frames' = SetTop(t) /\ line' = l
      /\ IF Top.op = "0A" THEN usr' = E.kp /\ kb' = kb ELSE kb' = E.kp /\ usr' = usr
      /\ UNCHANGED <<inputptr, owed>>
  BY DEF GoOn
<1> HIDE DEF f, n
<1>4. /\ t.op = Top.op /\ t.want = want
      /\ t = f \/ (CommonNdRdExit(k) = "^S" /\ t.echo /\ t.next = "get" /\ t.pc = "get")
  BY <1>2, PausedParts
<1> HIDE DEF t
<1>13. PICK u : u = t
  OBVIOUS
<1>5. t.pc = "get" /\ (t.echo => t.next = "get")
  BY <1>2, <1>4
<1>6. want = "ext" => ~t.echo
  <2>1. want = "ext" => CommonNdRdExit(k) \in Ext
    BY ConAssumption DEF CommonNdRdExit
  <2>2. want = "ext" => CommonNdRdExit(k) # "^S"
    BY <2>1, ConAssumption
  <2>3. QED
    BY <1>2, <1>4, <2>2
<1>7. IsLine(l) /\ l.buf = E.l.buf /\ l.tpl = E.l.tpl /\ l.pos = E.l.pos
  BY DEF IsLine, Editing, Fits
<1> HIDE DEF l
<1>8. Fits(l, E.kp) /\ Holds(E.kp)
  BY <1>7 DEF Fits, Editing
<1>9. frames' # <<>> /\ Len(frames') = 1 /\ frames'[1] = u
  BY <1>1, <1>3, <1>13, OnlyReplaced DEF HandInv
<1>10. CASE Top.op = "0A"
  <2>1. usr' = E.kp /\ kb' = kb /\ inputptr' = inputptr /\ owed' = owed
    BY <1>3, <1>10
  <2>2. BufferInv'
    BY <1>8, <2>1 DEF HandInv, BufferInv, PieceNext, Holds
  <2>3. LineFrame(u)'
    BY <1>3, <1>13, <1>4, <1>5, <1>8, <1>10, <2>1 DEF LineFrame, Edits, Target
  <2>4. QED
    BY <1>9, <2>2, <2>3, OneLine
<1>11. CASE Top.op = "3F"
  <2>1. kb' = E.kp /\ usr' = usr /\ inputptr' = inputptr /\ owed' = owed
    BY <1>3, <1>11
  <2>2. inputptr = 0 /\ kb.size = ConSize
    BY <1>1, <1>11 DEF LineFrame
  <2>3. E.kp.size = kb.size /\ Len(E.kp.buf) = Len(kb.buf)
    BY <1>11 DEF Editing, Target
  <2>4. BufferInv'
    BY <1>8, <2>1, <2>2, <2>3 DEF HandInv, BufferInv, PieceNext, Holds
  <2>5. LineFrame(u)'
    BY <1>3, <1>13, <1>4, <1>5, <1>6, <1>8, <1>11, <2>1, <2>2, <2>3 DEF LineFrame, Edits, Target
  <2>6. QED
    BY <1>9, <2>4, <2>5, OneLine
<1>12. QED
  BY <1>10, <1>11

(* The end of a line: the count leaves a CR out.                           *)
LEMMA FinishHolds ==
    ASSUME NEW kp, Holds(kp), NEW b \in Seq(Chars), NEW c, c = "CR" => Len(b) >= 1
    PROVE  /\ Holds(Finish(kp, b, c)) /\ Finish(kp, b, c).size = kp.size
           /\ Finish(kp, b, c).count = Len(b) - (IF c = "CR" THEN 1 ELSE 0)
           /\ Finish(kp, b, c).buf = Over(kp.buf, b)
<1> DEFINE o == Over(kp.buf, b)
           n == Len(b) - (IF c = "CR" THEN 1 ELSE 0)
           g == [kp EXCEPT !.buf = o]
           F == [g EXCEPT !.count = n]
<1>1. /\ kp \in LineBuf /\ kp.buf \in Seq(Chars) /\ Len(b) \in Nat /\ kp.size \in Nat
      /\ kp.size <= Len(kp.buf)
  BY LenProperties DEF Holds, LineBuf
<1>2. o \in Seq(Chars) /\ Len(o) = Len(kp.buf)
  BY <1>1, OverSeq
<1>3. n \in Nat
  BY <1>1
<1>4. Finish(kp, b, c) = [kp EXCEPT !.buf = o, !.count = n]
  BY DEF Finish
<1> HIDE DEF o, n
<1>5. Finish(kp, b, c) = F
  BY <1>4
<1>6. g \in LineBuf /\ g.size = kp.size /\ g.buf = o
  BY <1>1, <1>2 DEF LineBuf
<1> HIDE DEF g
<1>7. F \in LineBuf /\ F.size = kp.size /\ F.buf = o /\ F.count = n
  BY <1>3, <1>6 DEF LineBuf
<1> HIDE DEF F
<1>8. Holds(F)
  BY <1>1, <1>2, <1>7 DEF Holds
<1>9. QED
  BY <1>5, <1>7, <1>8 DEF o, n

(* A long line runs over kb_buf, within the bytes that follow.             *)
LEMMA OverflowHolds ==
    ASSUME NEW k, Holds(k), Len(k.buf) = KBD_MAXLENGTH, k.size \in {0, ConSize}, NEW b \in Seq(Chars)
    PROVE  /\ Holds(Overflow(k, b)) /\ Len(Overflow(k, b).buf) = KBD_MAXLENGTH
           /\ Overflow(k, b).size \in {0, ConSize}
           /\ Len(b) <= ConSize => Overflow(k, b) = k
<1>1. CASE Len(b) <= ConSize
  BY <1>1 DEF Overflow
<1>2. CASE ~(Len(b) <= ConSize)
  <2> DEFINE m == ConSize + 3
             n == Len(b)
             s == SubSeq(b, m, n)
             o == Over(k.buf, s)
             d == IF Len(b) > ConSize + 1 THEN KBD_MAXLENGTH ELSE k.count
             F == [size |-> 0, count |-> d, buf |-> o]
  <2>1. k.buf \in Seq(Chars) /\ k.count \in Nat
    BY DEF Holds, LineBuf
  <2>2. m \in Nat \ {0} /\ n \in Nat /\ n = Len(b) /\ \A i \in m .. n : b[i] \in Chars
    <3>1. m \in Nat \ {0} /\ n \in Nat
      BY ConAssumption, LenProperties
    <3>2. \A i \in m .. n : i \in 1 .. Len(b)
      BY <3>1
    <3>3. QED
      BY <3>1, <3>2, ElementOfSeq
  <2>3. d \in Nat
    BY <2>1, ConAssumption DEF KBD_MAXLENGTH
  <2>4. Overflow(k, b) = F
    BY <1>2 DEF Overflow
  <2> HIDE DEF m, n, d
  <2>5. s \in Seq(Chars)
    BY <2>2, SubSeqProperties
  <2> HIDE DEF s
  <2>6. o \in Seq(Chars) /\ Len(o) = Len(k.buf)
    BY <2>1, <2>5, OverSeq
  <2> HIDE DEF o
  <2>7. F \in LineBuf /\ F.size = 0 /\ F.buf = o
    BY <2>3, <2>6 DEF LineBuf
  <2> HIDE DEF F
  <2>8. Holds(F)
    BY <2>6, <2>7, ConAssumption DEF Holds, KBD_MAXLENGTH
  <2>9. QED
    BY <1>2, <2>4, <2>6, <2>7, <2>8
<1>3. QED
  BY <1>1, <1>2

(* The line that 3Fh hands over: what was typed, and LF after a CR.        *)
Handed(b, c) == IF c = "CR" THEN Append(b, "LF") ELSE b
Ready3F(f, c) == IF c = "CR" THEN [f EXCEPT !.count = @ + 2, !.buf[f.count + 2] = "LF"] ELSE f

(* kb_buf starts with it.                                                  *)
Starts(k, kp, s) == /\ Holds(k) /\ Len(k.buf) = KBD_MAXLENGTH /\ k.size = kp.size
                    /\ 1 <= k.count + 1 /\ k.count <= Len(k.buf)
                    /\ SubSeq(k.buf, 1, k.count) = s

(* And so it does when a line has ended.                                   *)
LEMMA HandedWhole ==
    ASSUME NEW kp, Holds(kp), Len(kp.buf) = KBD_MAXLENGTH, NEW b \in Seq(Chars), Len(b) <= ConSize,
           NEW c, c = "CR" => Len(b) >= 1
    PROVE  Starts(Ready3F(Finish(kp, b, c), c), kp, Handed(b, c))
<1> DEFINE f == Finish(kp, b, c)
           k == Ready3F(f, c)
           o == Over(kp.buf, b)
           one == 1
<1>1. /\ Holds(f) /\ f.size = kp.size /\ f.count = Len(b) - (IF c = "CR" THEN 1 ELSE 0) /\ f.buf = o
  BY FinishHolds
<1>2. /\ kp.buf \in Seq(Chars) /\ Len(b) \in Nat /\ Len(kp.buf) = ConSize + 1 /\ ConSize \in Nat
      /\ ConSize >= 1
  BY ConAssumption, LenProperties DEF Holds, LineBuf, KBD_MAXLENGTH
<1>3. /\ o \in Seq(Chars) /\ Len(o) = ConSize + 1
      /\ \A i \in 1 .. ConSize + 1 : o[i] = IF i <= Len(b) THEN b[i] ELSE kp.buf[i]
  BY <1>2, OverSeq
<1> HIDE DEF f, o
<1>4. CASE c # "CR"
  <2>1. k = f /\ Handed(b, c) = b /\ f.count = Len(b)
    BY <1>1, <1>2, <1>4 DEF Ready3F, Handed
  <2> DEFINE s == SubSeq(o, one, f.count)
  <2>2. one \in Nat \ {0} /\ f.count \in Nat /\ f.count <= Len(o) /\ one <= f.count + 1
        /\ f.count - one + 1 = Len(b)
    BY <1>2, <1>3, <2>1
  <2> HIDE DEF one
  <2>3. /\ s \in Seq(Chars) /\ Len(s) = f.count - one + 1
        /\ \A i \in 1 .. f.count - one + 1 : s[i] = o[one + i - 1]
    BY <1>3, <2>2, Piece
  <2> HIDE DEF s
  <2>4. ASSUME NEW i \in 1 .. Len(b)
        PROVE  s[i] = b[i]
    <3>1. one + i - 1 = i /\ i \in 1 .. ConSize + 1 /\ i <= Len(b)
      BY <1>2 DEF one
    <3>2. QED
      BY <1>3, <2>2, <2>3, <3>1
  <2>5. s = b
    BY <2>2, <2>3, <2>4, SeqEqual
  <2>6. SubSeq(f.buf, 1, f.count) = s
    BY <1>1, <2>1 DEF s, one
  <2>7. 1 <= f.count + 1 /\ f.count <= Len(f.buf) /\ Len(f.buf) = KBD_MAXLENGTH
    BY <1>1, <1>3, <2>2 DEF KBD_MAXLENGTH
  <2>8. Starts(f, kp, b)
    BY <1>1, <2>5, <2>6, <2>7 DEF Starts
  <2>9. QED
    BY <2>1, <2>8 DEF f
<1>5. CASE c = "CR"
  <2> DEFINE n == Len(b) + 1
             x == [o EXCEPT ![n] = "LF"]
             a == Append(b, "LF")
             s == SubSeq(x, one, n)
  <2>1. n \in Nat \ {0} /\ n \in 1 .. Len(o) /\ f.count + 2 = n /\ n <= ConSize + 1
    BY <1>1, <1>2, <1>3, <1>5
  <2>2. "LF" \in Chars
    BY DEF Chars
  <2>3. a \in Seq(Chars) /\ Len(a) = n /\ a[n] = "LF" /\ \A i \in 1 .. Len(b) : a[i] = b[i]
    BY <2>2, AppendProperties
  <2>4. k = [f EXCEPT !.count = @ + 2, !.buf[f.count + 2] = "LF"]
    BY <1>5 DEF Ready3F
  <2> HIDE DEF n
  <2>5. k = [f EXCEPT !.count = n, !.buf[n] = "LF"]
    BY <2>1, <2>4
  <2>6. f \in LineBuf
    BY <1>1 DEF Holds
  <2>7. /\ x \in Seq(Chars) /\ Len(x) = Len(o)
        /\ \A j \in 1 .. Len(o) : x[j] = IF j = n THEN "LF" ELSE o[j]
    BY <1>3, <2>1, <2>2, ExceptSeq
  <2> HIDE DEF x, a, k
  <2>8. k = [size |-> f.size, count |-> n, buf |-> x]
    BY <1>1, <2>5, <2>6 DEF LineBuf, x
  <2>9. k \in LineBuf /\ k.count = n /\ k.buf = x /\ k.size = f.size
    BY <2>1, <2>6, <2>7, <2>8 DEF LineBuf
  <2>10. Holds(k)
    BY <1>1, <2>7, <2>9 DEF Holds
  <2>11. one \in Nat \ {0} /\ n <= Len(x) /\ one <= n + 1 /\ n - one + 1 = n
    BY <2>1, <2>7
  <2> HIDE DEF one
  <2>12. /\ s \in Seq(Chars) /\ Len(s) = n - one + 1
         /\ \A i \in 1 .. n - one + 1 : s[i] = x[one + i - 1]
    BY <2>1, <2>7, <2>11, Piece
  <2> HIDE DEF s
  <2>13. ASSUME NEW i \in 1 .. n
         PROVE  s[i] = a[i]
    <3>1. one + i - 1 = i /\ i \in 1 .. ConSize + 1 /\ i \in 1 .. Len(o)
      BY <1>3, <2>1 DEF one
    <3>2. s[i] = IF i = n THEN "LF" ELSE o[i]
      BY <2>7, <2>11, <2>12, <3>1
    <3>3. i # n => i \in 1 .. Len(b) /\ i <= Len(b)
      BY <1>2 DEF n
    <3>4. i # n => o[i] = b[i] /\ a[i] = b[i]
      BY <1>3, <2>3, <3>1, <3>3
    <3>5. QED
      BY <2>3, <3>2, <3>4
  <2>14. s = a
    BY <2>3, <2>11, <2>12, <2>13, SeqEqual
  <2>15. SubSeq(k.buf, 1, k.count) = s
    BY <2>9 DEF s, one
  <2>16. Handed(b, c) = a
    BY <1>5 DEF Handed, a
  <2>17. 1 <= k.count + 1 /\ k.count <= Len(k.buf) /\ Len(k.buf) = KBD_MAXLENGTH
    BY <1>3, <2>1, <2>7, <2>9 DEF KBD_MAXLENGTH
  <2>18. Starts(k, kp, a)
    BY <1>1, <2>9, <2>10, <2>14, <2>15, <2>17 DEF Starts
  <2>19. QED
    BY <2>16, <2>18 DEF k, f
<1>6. QED
  BY <1>4, <1>5

(* 3Fh goes on with kb_buf.                                                *)
LEMMA HandNextLine ==
    ASSUME HandInv, StackInv', Reading, Top.op = "3F", ~Top.echo, NEW k, HandNext(k), line' = NoLine
    PROVE  LineInv' /\ kb' = k /\ inputptr' \in {0, 1}
<1> DEFINE p == IF k.buf[1] = "^Z" THEN "done" ELSE "hand"
           t == [Top EXCEPT !.pc = p]
<1>1. Len(frames) = 1 /\ Top \in FrameType /\ LineFrame(Top)
  BY ReadingHand
<1>2. /\ kb' = k /\ inputptr' \in {0, 1} /\ frames' = SetTop(t)
      /\ p \in Places /\ p \in {"done", "hand"} /\ (p = "hand" => inputptr' # 0)
  BY DEF HandNext, Places
<1> HIDE DEF p
<1>3. t.op = "3F" /\ t.want = Top.want /\ t.pc = p /\ ~t.echo
  BY <1>1, <1>2, MovedParts
<1> HIDE DEF t
<1>4. PICK u : u = t
  OBVIOUS
<1>5. frames' # <<>> /\ Len(frames') = 1 /\ frames'[1] = u
  BY <1>1, <1>2, <1>4, OnlyReplaced DEF HandInv
<1>6. u.pc \in {"done", "hand"} /\ (u.pc = "hand" => inputptr' # 0) /\ u.want \in Wants
  BY <1>1, <1>2, <1>3, <1>4 DEF LineFrame
<1>7. LineFrame(u)'
  BY <1>3, <1>4, <1>6 DEF LineFrame, Edits, Target
<1>8. QED
  BY <1>2, <1>5, <1>7, OneLine

(* A line ends.                                                            *)
LEMMA EndLineHand ==
    ASSUME HandInv, StackInv', Reading, Top.op \in {"0A", "3F"}, ~Top.echo,
           NEW E, Holds(E.kp), E.kp.size = Target(Top).size, Len(E.kp.buf) = Len(Target(Top).buf),
           E.l.buf \in Seq(Chars), NEW c, c = "CR" => Len(E.l.buf) >= 1,
           Top.op = "3F" => Len(E.l.buf) <= ConSize, NEW k, EndLine(E, c, k)
    PROVE  BufferInv' /\ LineInv'
<1> DEFINE b == E.l.buf
           f == Finish(E.kp, b, c)
<1>1. Len(frames) = 1 /\ Top = frames[1] /\ Top \in FrameType /\ LineFrame(Top)
  BY ReadingHand
<1>2. line' = NoLine
  BY DEF EndLine
<1>3. BufferInv /\ StackInv
  BY DEF HandInv
<1>4. CASE Top.op = "0A"
  <2> DEFINE t == Paused(Done, k)
             o == Overflow(kb, b)
  <2>1. /\ usr' = f /\ kb' = o /\ inputptr' = inputptr /\ frames' = SetTop(t)
        /\ owed' = IF Len(b) > ConSize THEN NoOwed ELSE owed
    BY <1>4 DEF EndLine
  <2>2. Holds(f)
    BY FinishHolds
  <2>3. /\ Holds(o) /\ Len(o.buf) = KBD_MAXLENGTH /\ o.size \in {0, ConSize}
        /\ Len(b) <= ConSize => o = kb
    BY <1>3, OverflowHolds DEF BufferInv
  <2>4. Done.op = "0A" /\ Done.want = "char" /\ Done.pc = "done" /\ ~Done.echo /\ Done \in FrameType
    BY <1>1, <1>4, MovedParts DEF Done, Places, LineFrame
  <2> HIDE DEF f, o
  <2>5. /\ t.op = "0A" /\ t.want = "char"
        /\ (t.pc = "done" /\ ~t.echo) \/ (t.pc = "get" /\ t.next = "done")
    BY <2>4, PausedParts
  <2> HIDE DEF t
  <2>6. PICK u : u = t
    OBVIOUS
  <2>7. frames' # <<>> /\ Len(frames') = 1 /\ frames'[1] = u
    BY <1>1, <1>3, <2>1, <2>6, OnlyReplaced
  <2>8. Len(b) \in Nat /\ ConSize \in Nat
    BY ConAssumption, LenProperties
  <2>9. owed' # NoOwed => kb' = kb /\ owed' = owed
    BY <2>1, <2>3, <2>8
  <2>10. PieceNext'
    BY <1>3, <2>1, <2>9 DEF BufferInv, PieceNext
  <2>11. BufferInv'
    BY <1>3, <2>1, <2>2, <2>3, <2>10 DEF BufferInv, Holds
  <2>12. Fits(NoLine, f)
    BY <2>2, NoLineFits
  <2>13. LineFrame(u)'
    BY <1>2, <2>1, <2>5, <2>6, <2>12 DEF LineFrame, Edits, Target
  <2>14. QED
    BY <2>7, <2>11, <2>13, OneLine
<1>5. CASE Top.op = "3F"
  <2> DEFINE g == Ready3F(f, c)
  <2>1. /\ HandNext(g) /\ usr' = usr
        /\ owed' = IF inputptr' = 0 THEN NoOwed ELSE Handed(b, c)
    BY <1>5 DEF EndLine, Ready3F, Handed
  <2>2. E.kp.size = kb.size /\ Len(E.kp.buf) = KBD_MAXLENGTH
    BY <1>3, <1>5 DEF Target, BufferInv
  <2>3. Starts(g, E.kp, Handed(b, c))
    BY <1>5, <2>2, HandedWhole
  <2> HIDE DEF g
  <2>4. LineInv' /\ kb' = g /\ inputptr' \in {0, 1}
    BY <1>2, <1>5, <2>1, HandNextLine
  <2>5. PieceNext'
    BY <2>1, <2>3, <2>4 DEF PieceNext, Starts
  <2>6. BufferInv'
    BY <1>3, <2>1, <2>2, <2>3, <2>4, <2>5 DEF BufferInv, Holds, Starts
  <2>7. QED
    BY <2>4, <2>6
<1>6. QED
  BY <1>4, <1>5

(* The only frame is replaced by one that edits no line.                   *)
LEMMA LeftHand ==
    ASSUME HandInv, StackInv', Reading, NEW t, frames' = SetTop(t), line' = NoLine,
           t.op \notin {"0A", "3F"}
    PROVE  LineInv'
<1>1. Len(frames) = 1
  BY ReadingHand
<1>2. frames' # <<>> /\ Len(frames') = 1 /\ frames'[1] = t
  BY <1>1, OnlyReplaced DEF HandInv
<1>3. LineFrame(t)'
  BY IdleLine
<1>4. QED
  BY <1>2, <1>3, OneLine

(* The stream of a call ends.                                              *)
LEMMA EndOfStreamHand ==
    ASSUME HandInv, StackInv', Reading, ~Top.echo, EndOfStream
    PROVE  BufferInv' /\ LineInv'
<1>1. Len(frames) = 1 /\ Top = frames[1] /\ Top \in FrameType /\ LineFrame(Top)
  BY ReadingHand
<1>2. BufferInv
  BY DEF HandInv
<1>3. CASE sig = "handler"
  <2> DEFINE t == Handler(Int23, Top)
  <2>1. frames' = SetTop(t) /\ line' = NoLine /\ UNCHANGED <<kb, usr, inputptr, owed>>
    BY <1>3 DEF EndOfStream, Signal
  <2>2. t.op = Int23
    BY <1>1, HandlerFrame
  <2> HIDE DEF t
  <2>3. PICK u : u = t
    OBVIOUS
  <2>4. u.op \notin {"0A", "3F"}
    BY <2>2, <2>3 DEF Int23
  <2>5. LineInv'
    BY <2>1, <2>3, <2>4, LeftHand
  <2>6. QED
    BY <1>2, <2>1, <2>5, SameBuffers
<1>4. CASE sig # "handler" /\ Top.op = "3F"
  <2>1. HandNext(kb) /\ owed' = NoOwed /\ line' = NoLine /\ usr' = usr
    BY <1>4 DEF EndOfStream
  <2>2. LineInv' /\ kb' = kb /\ inputptr' \in {0, 1}
    BY <1>4, <2>1, HandNextLine
  <2>3. PieceNext'
    BY <2>1 DEF PieceNext
  <2>4. QED
    BY <1>2, <2>1, <2>2, <2>3 DEF BufferInv, Holds
<1>5. CASE sig # "handler" /\ Top.op # "3F"
  <2>1. frames' = SetTop(Done) /\ line' = NoLine /\ UNCHANGED <<kb, usr, inputptr, owed>>
    BY <1>5 DEF EndOfStream
  <2>2. /\ Done.op = Top.op /\ Done.want = Top.want /\ Done.pc = "done" /\ ~Done.echo
    BY <1>1, MovedParts DEF Done, Places
  <2>3. PICK u : u = Done
    OBVIOUS
  <2>4. frames' # <<>> /\ Len(frames') = 1 /\ frames'[1] = u
    BY <1>1, <2>1, <2>3, OnlyReplaced DEF HandInv
  <2>5. u.op # "3F" /\ u.pc = "done" /\ ~u.echo /\ (u.op = "0A" => u.want = "char")
    BY <1>1, <1>5, <2>2, <2>3 DEF LineFrame
  <2>6. LineFrame(u)'
    BY <2>1, <2>5 DEF LineFrame, Edits, Target
  <2>7. LineInv'
    BY <2>4, <2>6, OneLine
  <2>8. QED
    BY <1>2, <2>1, <2>7, SameBuffers
<1>6. QED
  BY <1>3, <1>4, <1>5

(* A byte for the line editor.                                             *)
LEMMA LineByteHand ==
    ASSUME HandInv, StackInv', Reading, Top.op \in {"0A", "3F"}, ~Top.echo,
           NEW E, Editing(E, Target(Top)), NEW c \in Chars, NEW k \in KbdType, kbd' = k,
           c = Nul => Top.op = "3F" /\ k.scan \in Ext,
           Top.op = "3F" /\ Top.want = "ext" => c \in Ext,
           LineByte(E, c, k)
    PROVE  BufferInv' /\ LineInv'
<1>1. /\ Len(frames) = 1 /\ Top = frames[1] /\ Top \in FrameType /\ LineFrame(Top) /\ Edits(Top)
      /\ Top.pc \in {"get", "held", "after"}
  BY ReadingHand
<1>2. /\ Top.op = "0A" => Top.want = "char"
      /\ Top.want \in Wants
      /\ Top.op = "3F" => kb.size = ConSize
  BY <1>1 DEF LineFrame, Wants
<1>3. ASSUME NEW F, Editing(F, Target(Top)), NEW want \in Wants, GoOn(F, want, k),
             Top.op = "0A" => want = "char", want = "ext" => k.scan \in Ext
      PROVE  BufferInv' /\ LineInv'
  BY <1>3, GoOnHand
<1>4. /\ Ext \cap {Nul, Eof, "CR", "^C", "^S"} = {} /\ ConSize \in Nat /\ ConSize >= 1
      /\ "char" \in Wants /\ "skip" \in Wants /\ "ext" \in Wants /\ "F2" \in Wants /\ "F4" \in Wants
  BY ConAssumption DEF Wants
<1>5. CASE Top.want = "char"
  <2>1. CharByte(E, c, k)
    BY <1>5 DEF LineByte
  <2>2. CASE c = Nul
    <3>2. Top.op = "3F" /\ k.scan \in Ext
      BY <2>2
    <3>3. ~Ends(c) /\ c \notin Ext
      BY <1>4, <2>2 DEF Ends, Nul
    <3>1. GoOn(E, "ext", k)
      BY <2>1, <2>2, <3>2, <3>3 DEF CharByte
    <3>4. QED
      BY <1>3, <1>4, <3>1, <3>2
  <2>3. CASE c # Nul /\ c \in Ext
    <3>1. GoOn(Put(E, c), "char", k)
      BY <1>4, <2>1, <2>3 DEF CharByte, Ends
    <3>2. c # "CR"
      BY <1>4, <2>3
    <3>3. Editing(Put(E, c), Target(Top))
      BY <3>2, PutEdits
    <3>4. QED
      BY <1>3, <1>4, <3>1, <3>3
  <2>4. CASE c # Nul /\ c \notin Ext /\ Ends(c)
    <3> DEFINE F == Put(E, c)
    <3>1. EndLine(F, c, k)
      BY <2>1, <2>4 DEF CharByte
    <3>2. F.l.buf \in Seq(Chars) /\ F.kp = E.kp /\ (c = "CR" => F.l.buf = Append(E.l.buf, c))
      BY PutEdits
    <3>3. c # "CR" => Editing(F, Target(Top))
      BY PutEdits
    <3> HIDE DEF F
    <3>4. /\ E.l.buf \in Seq(Chars) /\ Len(E.l.buf) \in Nat
          /\ Len(E.l.buf) = 0 \/ Len(E.l.buf) <= E.kp.size - 1
          /\ Holds(E.kp) /\ E.kp.size = Target(Top).size
          /\ Len(E.kp.buf) = Len(Target(Top).buf)
      BY LenProperties DEF Editing, Fits
    <3>5. c = "CR" => Len(F.l.buf) = Len(E.l.buf) + 1
      BY <3>2, <3>4, AppendProperties
    <3>6. Top.op = "3F" => E.kp.size = ConSize
      BY <1>2, <3>4 DEF Target
    <3>7. ASSUME Top.op = "3F"
          PROVE  Len(F.l.buf) <= ConSize
      <4>1. CASE c = "CR"
        BY <1>4, <3>4, <3>5, <3>6, <3>7, <4>1
      <4>2. CASE c # "CR"
        <5>1. Len(F.l.buf) = 0 \/ Len(F.l.buf) <= E.kp.size - 1
          BY <3>2, <3>3, <4>2 DEF Editing, Fits
        <5>2. Len(F.l.buf) \in Nat
          BY <3>2, LenProperties
        <5>3. QED
          BY <1>4, <3>6, <3>7, <5>1, <5>2
      <4>3. QED
        BY <4>1, <4>2
    <3>8. c = "CR" => Len(F.l.buf) >= 1
      BY <3>4, <3>5
    <3>9. Holds(F.kp) /\ F.kp.size = Target(Top).size /\ Len(F.kp.buf) = Len(Target(Top).buf)
      BY <3>2, <3>4
    <3>10. QED
      BY <3>1, <3>2, <3>7, <3>8, <3>9, EndLineHand
  <2>5. CASE c # Nul /\ c \notin Ext /\ ~Ends(c)
    <3>1. GoOn(Edit(E, c), "char", k)
      BY <2>1, <2>5 DEF CharByte
    <3>2. Editing(Edit(E, c), Target(Top))
      BY <2>5, EditEdits DEF Ends
    <3>3. QED
      BY <1>3, <1>4, <3>1, <3>2
  <2>6. QED
    BY <2>2, <2>3, <2>4, <2>5
<1>6. CASE Top.want = "ext"
  <2>1. Top.op = "3F" /\ c \in Ext /\ c # "CR"
    BY <1>2, <1>4, <1>6
  <2>2. CASE c \in {"F2", "F4"}
    <3>1. GoOn(E, c, k)
      BY <1>6, <2>2 DEF LineByte
    <3>2. c \in Wants /\ c # "ext"
      BY <2>2 DEF Wants
    <3>3. QED
      BY <1>3, <2>1, <3>1, <3>2
  <2>3. CASE c \notin {"F2", "F4"}
    <3>1. GoOn(Edit(E, c), "char", k)
      BY <1>6, <2>3 DEF LineByte
    <3>2. Editing(Edit(E, c), Target(Top))
      BY <2>1, EditEdits
    <3>3. QED
      BY <1>3, <1>4, <3>1, <3>2
  <2>4. QED
    BY <2>2, <2>3
<1>7. CASE Top.want = "skip"
  <2>1. GoOn(E, "char", k)
    BY <1>7 DEF LineByte
  <2>2. QED
    BY <1>3, <1>4, <2>1
<1>8. CASE Top.want \notin {"char", "ext", "skip"}
  <2>1. Top.op = "3F"
    BY <1>2, <1>8
  <2>2. CASE c = Nul
    <3>1. GoOn(E, "skip", k)
      BY <1>8, <2>2 DEF LineByte
    <3>2. QED
      BY <1>3, <1>4, <2>1, <3>1
  <2>3. CASE c # Nul
    <3>1. GoOn(EditUpTo(E, Top.want, c), "char", k)
      BY <1>8, <2>3 DEF LineByte
    <3>2. Editing(EditUpTo(E, Top.want, c), Target(Top))
      BY UpToEdits
    <3>3. QED
      BY <1>3, <1>4, <3>1, <3>2
  <2>4. QED
    BY <2>2, <2>3
<1>9. QED
  BY <1>5, <1>6, <1>7, <1>8

(* What a call does with a byte.                                           *)
LEMMA DeliverHand ==
    ASSUME HandInv, StackInv', Reading, NEW c \in Chars, NEW k \in KbdType, kbd' = k,
           Top.op = "3F" /\ c = Nul => k.scan \in Ext,
           Top.op = "3F" /\ Top.want = "ext" => c = Eof \/ c \in Ext,
           Deliver(c, k)
    PROVE  BufferInv' /\ LineInv'
<1>1. /\ Len(frames) = 1 /\ Top = frames[1] /\ Top \in FrameType /\ LineFrame(Top)
      /\ Edits(Top) <=> Top.op \in {"0A", "3F"}
  BY ReadingHand
<1>2. BufferInv /\ StackInv
  BY DEF HandInv
<1>3. CASE Top.echo
  <2> DEFINE n == FALSE
             p == Top.next
             g == [Top EXCEPT !.pc = p]
             h == [g EXCEPT !.next = "done"]
             t == [h EXCEPT !.echo = n]
  <2>1. frames' = SetTop([Top EXCEPT !.pc = p, !.next = "done", !.echo = n]) /\ Quiet
    BY <1>3 DEF Deliver
  <2>2. p \in Places /\ ~n
    BY <1>1 DEF FrameType
  <2> HIDE DEF n
  <2>3. frames' = SetTop(t)
    BY <2>1
  <2>4. p = Top.next
    OBVIOUS
  <2> HIDE DEF p
  <2>5. g \in FrameType /\ g.op = Top.op /\ g.want = Top.want /\ g.pc = p
    BY <1>1, <2>2, MovedParts
  <2> HIDE DEF g
  <2>6. h \in FrameType /\ h.op = Top.op /\ h.want = Top.want /\ h.pc = p
    BY <2>5 DEF FrameType, Places
  <2> HIDE DEF h
  <2>7. t.op = Top.op /\ t.want = Top.want /\ t.pc = p /\ ~t.echo
    BY <2>2, <2>6 DEF FrameType
  <2> HIDE DEF t
  <2>8. PICK u : u = t
    OBVIOUS
  <2>9. frames' # <<>> /\ Len(frames') = 1 /\ frames'[1] = u
    BY <1>1, <1>2, <2>3, <2>8, OnlyReplaced
  <2>10. UNCHANGED <<line, kb, usr, inputptr, owed>>
    BY <2>1 DEF Quiet
  <2>11. LineFrame(u)'
    <3>1. CASE Top.op = "0A"
      <4>1. Top.next = "get" \/ (Top.next = "done" /\ line = NoLine)
        BY <1>1, <1>3, <3>1 DEF LineFrame
      <4>2. Fits(line, usr)
        BY <1>1, <3>1 DEF LineFrame, Target
      <4>3. QED
        BY <1>1, <2>4, <2>7, <2>8, <2>10, <3>1, <4>1, <4>2 DEF LineFrame, Edits, Target
    <3>2. CASE Top.op = "3F"
      <4>1. /\ Top.next = "get" /\ Fits(line, kb) /\ Top.want \in Wants /\ inputptr = 0
            /\ kb.size = ConSize /\ Top.want # "ext"
        BY <1>1, <1>3, <3>2 DEF LineFrame, Target
      <4>2. QED
        BY <2>4, <2>7, <2>8, <2>10, <3>2, <4>1 DEF LineFrame, Edits, Target
    <3>3. CASE Top.op \notin {"0A", "3F"}
      <4>1. line = NoLine
        BY <1>1, <3>3 DEF LineFrame
      <4>2. QED
        BY <2>7, <2>8, <2>10, <3>3, <4>1, IdleLine
    <3>4. QED
      BY <3>1, <3>2, <3>3
  <2>12. LineInv'
    BY <2>9, <2>11, OneLine
  <2>13. QED
    BY <1>2, <2>10, <2>12, SameBuffers
<1>4. CASE ~Top.echo /\ Ended(c)
  BY <1>4, EndOfStreamHand DEF Deliver
<1>5. CASE ~Top.echo /\ ~Ended(c) /\ Top.op \in {"0A", "3F"}
  <2> DEFINE E == [l |-> line, kp |-> Target(Top), col |-> scr_pos]
  <2>1. LineByte(E, c, k)
    BY <1>5 DEF Deliver, Target
  <2>2. Fits(line, Target(Top)) /\ Holds(Target(Top))
    BY <1>1, <1>2, <1>5 DEF LineFrame, Target, BufferInv
  <2>3. Editing(E, Target(Top))
    BY <2>2 DEF Editing, IsEdit
  <2> HIDE DEF E
  <2>4. c = Nul => Top.op = "3F" /\ k.scan \in Ext
    BY <1>5 DEF Ended
  <2>5. Top.op = "3F" /\ Top.want = "ext" => c \in Ext
    BY <1>5 DEF Ended
  <2>6. QED
    BY <1>5, <2>1, <2>3, <2>4, <2>5, LineByteHand
<1>6. CASE ~Top.echo /\ ~Ended(c) /\ Top.op \notin {"0A", "3F"}
  <2> DEFINE t == IF Top.op = "01" THEN Paused(Done, k) ELSE Done
  <2>1. frames' = SetTop(t) /\ UNCHANGED <<line, kb, usr, inputptr, owed>>
    BY <1>6 DEF Deliver
  <2>2. Done \in FrameType /\ Done.op = Top.op
    BY <1>1, MovedParts DEF Done, Places
  <2>3. t.op = Top.op
    BY <2>2, PausedParts
  <2> HIDE DEF t
  <2>4. PICK u : u = t
    OBVIOUS
  <2>5. line' = NoLine /\ u.op \notin {"0A", "3F"}
    BY <1>1, <1>6, <2>1, <2>3, <2>4 DEF LineFrame
  <2>6. LineInv'
    BY <2>1, <2>4, <2>5, LeftHand
  <2>7. QED
    BY <1>2, <2>1, <2>6, SameBuffers
<1>7. QED
  BY <1>3, <1>4, <1>5, <1>6

(* A call that holds after ^S.                                             *)
LEMMA MovedLine ==
    ASSUME HandInv, StackInv', Reading, NEW p \in {"held", "after"},
           frames' = SetTop([Top EXCEPT !.pc = p]), UNCHANGED <<line, kb, usr, inputptr, owed>>,
           Top.op = "3F" => Top.want # "ext"
    PROVE  BufferInv' /\ LineInv'
<1> DEFINE t == [Top EXCEPT !.pc = p]
<1>1. /\ Len(frames) = 1 /\ Top \in FrameType /\ LineFrame(Top)
      /\ Edits(Top) <=> Top.op \in {"0A", "3F"}
  BY ReadingHand
<1>2. /\ t.op = Top.op /\ t.want = Top.want /\ t.pc = p /\ t.echo = Top.echo /\ t.next = Top.next
  BY <1>1, MovedParts DEF Places
<1>3. frames' = SetTop(t)
  OBVIOUS
<1> HIDE DEF t
<1>4. PICK u : u = t
  OBVIOUS
<1>5. frames' # <<>> /\ Len(frames') = 1 /\ frames'[1] = u
  BY <1>1, <1>3, <1>4, OnlyReplaced DEF HandInv
<1>6. LineFrame(u)'
  <2>1. CASE Top.op = "0A"
    <3>1. Fits(line, usr) /\ Top.want = "char"
      BY <1>1, <2>1 DEF LineFrame, Target
    <3>2. Top.echo => Top.next = "get" \/ (Top.next = "done" /\ line = NoLine)
      BY <1>1, <2>1 DEF LineFrame
    <3>3. QED
      BY <1>2, <1>4, <2>1, <3>1, <3>2 DEF LineFrame, Edits, Target
  <2>2. CASE Top.op = "3F"
    <3>1. /\ Fits(line, kb) /\ Top.want \in Wants /\ inputptr = 0 /\ kb.size = ConSize
          /\ Top.echo => Top.next = "get"
      BY <1>1, <2>2 DEF LineFrame, Target
    <3>2. QED
      BY <1>2, <1>4, <2>2, <3>1 DEF LineFrame, Edits, Target
  <2>3. CASE Top.op \notin {"0A", "3F"}
    <3>1. line = NoLine
      BY <1>1, <2>3 DEF LineFrame
    <3>2. QED
      BY <1>2, <1>4, <2>3, <3>1, IdleLine
  <2>4. QED
    BY <2>1, <2>2, <2>3
<1>7. LineInv'
  BY <1>5, <1>6, OneLine
<1>8. BufferInv'
  BY SameBuffers DEF HandInv
<1>9. QED
  BY <1>7, <1>8

(* The only call in progress is left by ^C.                                *)
LEMMA BrokenHand ==
    ASSUME HandInv, StackInv', Reading, NEW dev, handle_break(dev, frames, InDOS)
    PROVE  InputInv' /\ BufferInv' /\ LineInv'
<1> DEFINE t == Handler(Int23, Top)
<1>1. Len(frames) = 1 /\ Top = frames[1] /\ Top \in FrameType
  BY ReadingHand
<1>2. InputInv' /\ line' = NoLine /\ UNCHANGED <<kb, usr, inputptr, owed>>
  BY BreakHand DEF HandInv
<1>3. frames' = SetTop(t)
  BY <1>1, BreakReplaces DEF SetTop
<1>4. t.op = Int23
  BY <1>1, HandlerFrame
<1> HIDE DEF t
<1>5. PICK u : u = t
  OBVIOUS
<1>6. u.op \notin {"0A", "3F"}
  BY <1>4, <1>5 DEF Int23
<1>7. LineInv'
  BY <1>2, <1>3, <1>5, <1>6, LeftHand
<1>8. BufferInv'
  BY <1>2, SameBuffers DEF HandInv
<1>9. QED
  BY <1>2, <1>7, <1>8

(* A byte is read from a device.                                           *)
LEMMA GotHand ==
    ASSUME HandInv, StackInv', Reading, NEW c \in Chars, NEW dev, NEW k \in KbdType,
           Top.op = "3F" /\ c = Nul => k.scan \in Ext,
           Top.op = "3F" /\ Top.want = "ext" => c = Eof \/ c \in Ext,
           Got(c, dev, k)
    PROVE  InputInv' /\ BufferInv' /\ LineInv'
<1> DEFINE checks == Top.pc = "get" /\ (Top.chk \/ Top.echo)
           x == k.flag /\ ~(c = "^C" /\ ~checks /\ ~breakEna)
           keep == [k EXCEPT !.flag = x]
<1>1. /\ Len(frames) = 1 /\ Top \in FrameType /\ LineFrame(Top)
      /\ Edits(Top) <=> Top.op \in {"0A", "3F"}
  BY ReadingHand
<1>2. CASE c = "^C" /\ (checks \/ Top.pc = "held")
  <2>1. handle_break(dev, frames, InDOS)
    BY <1>2 DEF Got
  <2>2. QED
    BY <2>1, BrokenHand
<1>3. CASE ~(c = "^C" /\ (checks \/ Top.pc = "held"))
  <2>1. /\ kbd' = keep
        /\ aux' = IF dev = "aux" /\ aux # <<>> THEN Tail(aux) ELSE aux
        /\ IF checks /\ c = "^S" THEN frames' = SetTop([Top EXCEPT !.pc = "held"]) /\ Quiet
           ELSE IF Top.pc = "held" THEN frames' = SetTop([Top EXCEPT !.pc = "after"]) /\ Quiet
           ELSE Deliver(c, keep)
    BY <1>3 DEF Got
  <2>2. x \in BOOLEAN
    OBVIOUS
  <2>3. checks => Top.pc = "get"
    OBVIOUS
  <2> HIDE DEF checks, x
  <2>4. keep \in KbdType /\ keep.scan = k.scan
    BY <2>2, FlagOnly
  <2>5. aux' \in Seq(Keys)
    <3>1. aux # <<>> => Tail(aux) \in Seq(Keys)
      BY HeadTailProperties DEF HandInv, InputInv
    <3>2. QED
      BY <2>1, <3>1 DEF HandInv, InputInv
  <2>6. InputInv'
    BY <2>1, <2>4, <2>5 DEF InputInv
  <2> HIDE DEF keep
  <2>7. CASE checks /\ c = "^S"
    <3>1. frames' = SetTop([Top EXCEPT !.pc = "held"]) /\ UNCHANGED <<line, kb, usr, inputptr, owed>>
      BY <2>1, <2>7 DEF Quiet
    <3>2. Top.op = "3F" => Top.want # "ext"
      BY <2>7, ConAssumption DEF Eof
    <3>3. QED
      BY <2>6, <3>1, <3>2, MovedLine
  <2>8. CASE ~(checks /\ c = "^S") /\ Top.pc = "held"
    <3>1. frames' = SetTop([Top EXCEPT !.pc = "after"]) /\ UNCHANGED <<line, kb, usr, inputptr, owed>>
      BY <2>1, <2>8 DEF Quiet
    <3>2. Top.op = "3F" => Top.want # "ext"
      BY <1>1, <2>8 DEF LineFrame
    <3>3. QED
      BY <2>6, <3>1, <3>2, MovedLine
  <2>9. CASE ~(checks /\ c = "^S") /\ Top.pc # "held"
    <3>1. Deliver(c, keep) /\ kbd' = keep
      BY <2>1, <2>9
    <3>2. QED
      BY <2>4, <2>6, <3>1, DeliverHand
  <2>10. QED
    BY <2>7, <2>8, <2>9
<1>4. QED
  BY <1>2, <1>3

(* Every read.                                                             *)
LEMMA ReadsHand ==
    ASSUME HandInv, StackInv', Reads
    PROVE  InputInv' /\ BufferInv' /\ LineInv'
<1>1. Reading
  BY DEF Reads, ReadCon, ReadGone, ReadAux, AuxLooks
<1>2. /\ LineFrame(Top) /\ Edits(Top) <=> Top.op \in {"0A", "3F"}
  BY <1>1, ReadingHand
<1>3. InputInv /\ kbd \in KbdType /\ Eof \in Chars /\ Eof # Nul
  BY DEF HandInv, InputInv, Chars, Eof, Nul
<1>4. CASE ReadCon
  <2> DEFINE c == CommonNdRdExit(kbd)
             k == KbdRdChar(kbd)
  <2>1. Ready(kbd) /\ Got(c, "con", k)
    BY <1>4 DEF ReadCon
  <2>2. c \in Chars /\ k \in KbdType /\ (c = Nul => k.scan \in Ext) /\ (kbd.scan \in Ext => c = kbd.scan)
    BY <1>3, <2>1, KeyTaken
  <2>3. Top.op = "3F" /\ Top.want = "ext" => c \in Ext
    BY <1>2, <2>2 DEF LineFrame
  <2> HIDE DEF c, k
  <2>4. QED
    BY <1>1, <2>1, <2>2, <2>3, GotHand
<1>5. CASE ReadGone
  <2>1. Got(Eof, "con", kbd)
    BY <1>5 DEF ReadGone
  <2>2. QED
    BY <1>1, <1>3, <2>1, GotHand
<1>6. CASE ReadAux
  <2> DEFINE c == Head(aux)
  <2>1. Got(c, "aux", kbd) /\ aux # <<>> /\ Top.op # "3F"
    BY <1>6 DEF ReadAux, FromAux
  <2>2. c \in Chars
    BY <1>3, <2>1, HeadTailProperties DEF InputInv, Chars
  <2> HIDE DEF c
  <2>3. QED
    BY <1>1, <1>3, <2>1, <2>2, GotHand
<1>7. CASE AuxLooks
  <2>1. handle_break("con", frames, InDOS) \/ Got(Eof, "con", ConInpFlush(kbd))
    BY <1>7 DEF AuxLooks
  <2>2. ConInpFlush(kbd) \in KbdType
    BY <1>3, KeyTaken
  <2>3. CASE handle_break("con", frames, InDOS)
    BY <1>1, <2>3, BrokenHand
  <2>4. CASE Got(Eof, "con", ConInpFlush(kbd))
    BY <1>1, <1>3, <2>2, <2>4, GotHand
  <2>5. QED
    BY <2>1, <2>3, <2>4
<1>8. QED
  BY <1>4, <1>5, <1>6, <1>7 DEF Reads

(***************************************************************************)
(* The other steps.                                                        *)
(***************************************************************************)
(* What is left of the line is handed over, as much as is asked for.       *)
LEMMA HandOverHand ==
    ASSUME HandInv, StackInv', HandOver
    PROVE  InputInv' /\ BufferInv' /\ LineInv'
<1>1. frames # <<>> /\ Top.op = "3F" /\ Top.pc = "hand"
  BY DEF HandOver, Running
<1>2. IsCall(Top) /\ Top.op \notin NestedOps
  BY <1>1 DEF IsCall, NestedOps, Hook, Int23
<1>3. Len(frames) = 1 /\ Top = frames[1] /\ Top \in FrameType
  BY <1>1, <1>2, OnlyCall DEF HandInv, Alone
<1>4. LineFrame(Top)
  BY <1>1, <1>3 DEF HandInv, LineInv
<1>5. inputptr # 0 /\ line = NoLine /\ Top.want \in Wants /\ (Top.echo => Top.next = "get")
  BY <1>1, <1>4 DEF LineFrame, Edits
<1>6. PICK n \in ReadSizes :
        LET left == kb.count - inputptr + 1
            m    == Min({n, left})
        IN /\ inputptr' = IF m = left THEN 0 ELSE inputptr + m
           /\ owed' = IF owed = NoOwed \/ m = left THEN NoOwed ELSE SubSeq(owed, m + 1, Len(owed))
           /\ frames' = SetTop(Done)
  BY DEF HandOver
<1> DEFINE left == kb.count - inputptr + 1
           m    == Min({n, left})
<1>7. /\ inputptr' = IF m = left THEN 0 ELSE inputptr + m
      /\ owed' = IF owed = NoOwed \/ m = left THEN NoOwed ELSE SubSeq(owed, m + 1, Len(owed))
      /\ frames' = SetTop(Done) /\ UNCHANGED <<kbd, aux, line, kb, usr>>
  BY <1>6 DEF HandOver
<1>8. n \in Nat /\ kb.count \in Nat /\ inputptr \in Nat /\ kb.buf \in Seq(Chars) /\ BufferInv
  BY ConAssumption DEF HandInv, BufferInv, Holds, LineBuf
<1>9. left \in Int /\ left = kb.count - inputptr + 1
  BY <1>8
<1> HIDE DEF left
<1>10. m = IF n <= left THEN n ELSE left
  BY <1>8, <1>9, MinOfTwo
<1> HIDE DEF m
<1>11. m # left => m \in Nat /\ m < left
  BY <1>8, <1>9, <1>10
<1>12. inputptr' \in Nat
  BY <1>7, <1>8, <1>11
<1>13. ASSUME inputptr' # 0, owed' # NoOwed
       PROVE  inputptr' <= kb.count + 1 /\ kb.count <= Len(kb.buf)
              /\ SubSeq(kb.buf, inputptr', kb.count) = owed'
  <2>1. /\ m # left /\ owed # NoOwed /\ inputptr' = inputptr + m
        /\ owed' = SubSeq(owed, m + 1, Len(owed))
    BY <1>7, <1>13
  <2>2. m \in Nat /\ inputptr + m <= kb.count
    BY <1>8, <1>9, <1>11, <2>1
  <2>3. kb.count <= Len(kb.buf) /\ SubSeq(kb.buf, inputptr, kb.count) = owed
    BY <1>5, <1>8, <2>1 DEF BufferInv, PieceNext
  <2>4. inputptr \in Nat \ {0}
    BY <1>5, <1>8
  <2> DEFINE p == inputptr
             k == kb.count
             s == kb.buf
  <2>5. /\ p \in Nat \ {0} /\ k \in Nat /\ k <= Len(s) /\ m \in Nat /\ p + m <= k /\ s \in Seq(Chars)
        /\ SubSeq(s, p, k) = owed
    BY <1>8, <2>2, <2>3, <2>4
  <2> HIDE DEF p, k, s
  <2>6. SubSeq(s, p + m, k) = SubSeq(owed, m + 1, Len(owed))
    BY <2>5, PieceOfPiece
  <2>7. SubSeq(kb.buf, inputptr', kb.count) = owed'
    BY <2>1, <2>6 DEF p, k, s
  <2>8. inputptr' <= kb.count + 1
    BY <1>8, <2>1, <2>2
  <2>9. QED
    BY <2>3, <2>7, <2>8
<1>14. PieceNext'
  BY <1>7, <1>13 DEF PieceNext
<1>15. BufferInv'
  BY <1>7, <1>8, <1>12, <1>14 DEF BufferInv, Holds
<1>16. InputInv'
  BY <1>7 DEF HandInv, InputInv
<1>17. /\ Done.op = "3F" /\ Done.want = Top.want /\ Done.pc = "done"
       /\ Done.echo = Top.echo /\ Done.next = Top.next
  BY <1>1, <1>3, MovedParts DEF Done, Places
<1>18. PICK u : u = Done
  OBVIOUS
<1>19. frames' # <<>> /\ Len(frames') = 1 /\ frames'[1] = u
  BY <1>3, <1>7, <1>18, OnlyReplaced DEF HandInv
<1>20. LineFrame(u)'
  BY <1>5, <1>7, <1>17, <1>18 DEF LineFrame, Edits, Target
<1>21. QED
  BY <1>15, <1>16, <1>19, <1>20, OneLine

(* What happens outside the calls.                                         *)
LEMMA WorldHand ==
    ASSUME HandInv, StackInv', World
    PROVE  InputInv' /\ BufferInv' /\ LineInv'
<1>1. UNCHANGED <<frames, line, kb, usr, inputptr, owed>>
  BY DEF World
<1>2. use.keys \subseteq Keys
  BY DEF HandInv, StackInv, Keys
<1>3. kbd \in KbdType /\ aux \in Seq(Keys)
  BY DEF HandInv, InputInv
<1> DEFINE y == TRUE
<1>4. y \in BOOLEAN
  OBVIOUS
<1>5. kbd' \in KbdType /\ kbd'.scan = kbd.scan /\ aux' \in Seq(Keys)
  <2>1. CASE \E k \in use.keys : Type(k)
    <3>1. PICK k \in use.keys : Type(k)
      BY <2>1
    <3> DEFINE q == Append(kbd.keys, k)
    <3>2. kbd.keys \in Seq(Keys) /\ k \in Keys
      BY <1>2, <1>3, <3>1 DEF KbdType
    <3>3. q \in Seq(Keys)
      BY <3>2, AppendProperties
    <3>4. kbd' = [kbd EXCEPT !.keys = q] /\ aux' = aux
      BY <3>1 DEF Type
    <3> HIDE DEF q
    <3>5. QED
      BY <1>3, <3>3, <3>4 DEF KbdType
  <2>2. CASE \E c \in use.keys \ Ext : AuxByte(c)
    <3>1. PICK c \in use.keys \ Ext : AuxByte(c)
      BY <2>2
    <3>2. c \in Keys /\ aux' = Append(aux, c) /\ kbd' = kbd
      BY <1>2, <3>1 DEF AuxByte
    <3>3. QED
      BY <1>3, <3>2, AppendProperties
  <2>3. CASE CtrlBreak
    <3>1. kbd' = [kbd EXCEPT !.flag = y] /\ aux' = aux
      BY <2>3 DEF CtrlBreak
    <3> HIDE DEF y
    <3>2. QED
      BY <1>3, <1>4, <3>1 DEF KbdType
  <2>4. CASE HangUp
    <3>1. kbd' = [kbd EXCEPT !.gone = y] /\ aux' = aux
      BY <2>4 DEF HangUp
    <3> HIDE DEF y
    <3>2. QED
      BY <1>3, <1>4, <3>1 DEF KbdType
  <2>5. QED
    BY <2>1, <2>2, <2>3, <2>4 DEF World
<1>6. BufferInv'
  BY <1>1, SameBuffers DEF HandInv
<1>7. LineInv'
  BY <1>1, <1>5 DEF HandInv, LineInv, LineFrame, Edits, Target
<1>8. QED
  BY <1>5, <1>6, <1>7 DEF InputInv

(* The first frame stays, and so does its line.                            *)
LEMMA FirstStays ==
    ASSUME HandInv, frames # <<>>, frames' # <<>>, frames'[1] = frames[1], Len(frames') \in {1, 2},
           UNCHANGED <<kbd, aux, line, kb, usr, inputptr, owed>>
    PROVE  InputInv' /\ BufferInv' /\ LineInv'
<1>1. BufferInv'
  BY SameBuffers DEF HandInv
<1>2. LineFrame(frames[1])
  BY DEF HandInv, LineInv
<1>3. PICK u : u = frames[1]
  OBVIOUS
<1>4. LineFrame(u)'
  BY <1>2, <1>3 DEF LineFrame, Edits, Target
<1>5. frames'[1] = u
  BY <1>3
<1>6. LineInv'
  BY <1>4, <1>5 DEF LineInv, LineFrame, Edits, Target
<1>7. QED
  BY <1>1, <1>6 DEF HandInv, InputInv

(* Nothing is in progress any more, and no line.                           *)
LEMMA NothingLeft ==
    ASSUME HandInv, frames' = <<>>, line = NoLine,
           UNCHANGED <<kbd, aux, line, kb, usr, inputptr, owed>>
    PROVE  InputInv' /\ BufferInv' /\ LineInv'
<1>1. BufferInv'
  BY SameBuffers DEF HandInv
<1>2. Len(frames') # 3
  BY EmptySeq
<1>3. LineInv'
  BY <1>2 DEF LineInv
<1>4. QED
  BY <1>1, <1>3 DEF HandInv, InputInv

(* A call returns.                                                         *)
LEMMA ReturnHand ==
    ASSUME HandInv, StackInv', Return
    PROVE  InputInv' /\ BufferInv' /\ LineInv'
<1>1. /\ frames # <<>> /\ IsCall(Top) /\ Top.pc = "done" /\ StackInv
      /\ frames' = IF Top.op = "00" THEN <<>> ELSE Front(frames)
      /\ UNCHANGED <<breakEna, use, kbd, aux, line, kb, usr, inputptr, owed>>
  BY DEF Return, HandInv
<1>2. Top = frames[Len(frames)]
  BY <1>1, TopFrame DEF StackInv
<1>3. ~(Len(frames) = 2 /\ Hooked /\ InDOS = 1)
  BY <1>1, <1>2 DEF Hooked, IsCall
<1>4. CASE Alone
  <2>1. Len(frames) = 1 /\ Top = frames[1]
    BY <1>2, <1>4 DEF Alone
  <2>2. frames' = <<>>
    BY <1>1, <2>1, DroppedOne
  <2>3. line = NoLine
    BY <1>1, <2>1 DEF HandInv, LineInv, LineFrame, Edits
  <2>4. QED
    BY <1>1, <2>2, <2>3, NothingLeft
<1>5. CASE Nested
  <2>1. Len(frames) = 3 /\ Top = frames[3]
    BY <1>2, <1>5 DEF Nested
  <2>2. CASE Top.op = "00"
    <3>1. frames' = <<>> /\ line = NoLine
      BY <1>1, <2>1, <2>2 DEF HandInv, LineInv
    <3>2. QED
      BY <1>1, <3>1, NothingLeft
  <2>3. CASE Top.op # "00"
    <3>1. Len(frames') = 2 /\ frames' # <<>> /\ frames'[1] = frames[1]
      BY <1>1, <2>1, <2>3, DroppedOne
    <3>2. QED
      BY <1>1, <3>1, FirstStays
  <2>4. QED
    BY <2>2, <2>3
<1>6. QED
  BY <1>1, <1>3, <1>4, <1>5 DEF StackInv

(* A handler of the program returns.                                       *)
LEMMA HandlerEndsHand ==
    ASSUME HandInv, StackInv', HandlerEnds
    PROVE  InputInv' /\ BufferInv' /\ LineInv'
<1>1. /\ frames # <<>> /\ Top.op \in {Hook, Int23} /\ frames' = Front(frames) /\ StackInv
      /\ UNCHANGED <<breakEna, use, kbd, aux, line, kb, usr, inputptr, owed>>
  BY DEF HandlerEnds, Running, HandInv
<1>2. Top = frames[Len(frames)]
  BY <1>1, TopFrame DEF StackInv
<1>3. CASE Alone
  <2>1. Len(frames) = 1 /\ Top = frames[1]
    BY <1>2, <1>3 DEF Alone
  <2>2. frames' = <<>>
    BY <1>1, <2>1, DroppedOne
  <2>3. line = NoLine
    BY <1>1, <2>1 DEF HandInv, LineInv, LineFrame, Edits, Hook, Int23
  <2>4. QED
    BY <1>1, <2>2, <2>3, NothingLeft
<1>4. CASE Len(frames) = 2
  <2>1. Len(frames') = 1 /\ frames' # <<>> /\ frames'[1] = frames[1]
    BY <1>1, <1>4, DroppedOne
  <2>2. QED
    BY <1>1, <2>1, FirstStays
<1>5. CASE Nested
  <2>1. Len(frames') = 2 /\ frames' # <<>> /\ frames'[1] = frames[1]
    BY <1>1, <1>5, DroppedOne DEF Nested
  <2>2. QED
    BY <1>1, <2>1, FirstStays
<1>6. QED
  BY <1>1, <1>3, <1>4, <1>5 DEF StackInv

(* A call waits, and INT 28h may run.                                      *)
LEMMA IdleHand ==
    ASSUME HandInv, StackInv', Idle
    PROVE  InputInv' /\ BufferInv' /\ LineInv'
<1>1. /\ frames # <<>> /\ IsCall(Top) /\ Top.pc # "done" /\ Top.op \in CharOps /\ StackInv
      /\ Top.op = "0A" => Top.pc \in {"get", "held", "after"}
  BY DEF Idle, Reading, Running, IsCall, Hook, Int23, CharOps, HandInv
<1>2. Len(frames) = 1 /\ Top = frames[1] /\ Top \in FrameType
  BY <1>1, OnlyCall DEF Alone
<1>3. LineFrame(Top)
  BY <1>1, <1>2 DEF HandInv, LineInv
<1> DEFINE p == IF Top.pc = "idle" THEN "done" ELSE Top.pc
           t == [Top EXCEPT !.pc = p]
           h == Handler(Hook, [Top EXCEPT !.pc = "done"])
<1>4. p \in Places /\ (Top.op = "0A" => p = Top.pc)
  BY <1>1, <1>2 DEF FrameType, Places
<1>5. /\ frames' = SetTop(t) \/ frames' = Append(SetTop(t), h)
      /\ UNCHANGED <<kbd, aux, line, kb, usr, inputptr, owed>>
  BY DEF Idle
<1> HIDE DEF p
<1>6. /\ t \in FrameType /\ t.op = Top.op /\ t.want = Top.want /\ t.pc = p
      /\ t.echo = Top.echo /\ t.next = Top.next
  BY <1>2, <1>4, MovedParts
<1>7. h \in FrameType
  BY <1>2, MovedFrame, HandlerFrame DEF Places
<1> HIDE DEF t, h
<1>8. PICK u : u = t
  OBVIOUS
<1>9. frames' # <<>> /\ Len(frames') \in {1, 2} /\ frames'[1] = u
  <2> DEFINE s == SetTop(t)
  <2>1. s \in Seq(FrameType) /\ Len(s) = 1 /\ s[1] = t /\ s # <<>>
    BY <1>1, <1>2, <1>6, TopReplaced DEF StackInv
  <2> HIDE DEF s
  <2>2. /\ Len(Append(s, h)) = 2 /\ Append(s, h) # <<>> /\ Append(s, h)[1] = s[1]
    <3>1. /\ Len(Append(s, h)) = Len(s) + 1 /\ Append(s, h) # <<>>
          /\ \A i \in 1 .. Len(s) : Append(s, h)[i] = s[i]
      BY <1>7, <2>1, OneMore
    <3>2. QED
      BY <2>1, <3>1
  <2>3. QED
    BY <1>5, <1>8, <2>1, <2>2 DEF s
<1>10. LineFrame(u)'
  <2>1. CASE Top.op = "0A"
    <3>1. Edits(Top) /\ p \notin {"hand", "done"}
      BY <1>1, <1>4, <2>1 DEF Edits
    <3>2. /\ Fits(line, usr) /\ Top.want = "char"
          /\ Top.echo => Top.next = "get" \/ (Top.next = "done" /\ line = NoLine)
      BY <1>3, <2>1, <3>1 DEF LineFrame, Target
    <3>3. QED
      BY <1>5, <1>6, <1>8, <2>1, <3>1, <3>2 DEF LineFrame, Edits, Target
  <2>2. CASE Top.op # "0A"
    <3>1. Top.op \notin {"0A", "3F"}
      BY <1>1, <2>2 DEF CharOps
    <3>2. line' = NoLine
      BY <1>3, <1>5, <3>1 DEF LineFrame, Edits
    <3>3. QED
      BY <1>6, <1>8, <3>1, <3>2, IdleLine
  <2>3. QED
    BY <2>1, <2>2
<1>11. LineInv'
  BY <1>9, <1>10 DEF LineInv, LineFrame, Edits, Target
<1>12. QED
  BY <1>5, <1>11, SameBuffers DEF HandInv, InputInv

(* The frame a call is entered with.                                       *)
LEMMA CallParts ==
    ASSUME StackInv, NEW op \in Ops, NEW k
    PROVE  LET t == [Call(op) EXCEPT !.pc = Start(op, k)]
           IN /\ t.op = op /\ t.pc = Start(op, k) /\ t.next = "done" /\ ~t.echo /\ t.want = "char"
<1> DEFINE n == FALSE
           chk == op \in {"01", "03", "0A"} \/ (op \notin CharOps /\ breakEna)
           on == IF op = "25" THEN "disk" ELSE IF InDOS # 0 THEN "caller"
                 ELSE IF op \in CharOps THEN "char" ELSE "disk"
           p == Start(op, k)
<1>1. ~n /\ Call(op) = [op |-> op, chk |-> chk, on |-> on, pc |-> "get", next |-> "done",
                        echo |-> n, want |-> "char"]
  BY DEF Call
<1> HIDE DEF n, chk, on, p
<1>2. LET t == [Call(op) EXCEPT !.pc = p]
      IN /\ t.op = op /\ t.pc = p /\ t.next = "done" /\ ~t.echo /\ t.want = "char"
  BY <1>1
<1>3. QED
  BY <1>2 DEF p

(* The editor starts on a buffer, and kb_buf is made anew if it was run    *)
(* over.                                                                   *)
LEMMA BeginFits ==
    ASSUME NEW kp, Holds(kp)
    PROVE  Fits(Begin(kp), kp)
<1> DEFINE n == Stored(kp)
           l == [NoLine EXCEPT !.tpl = n]
<1>1. n \in Nat /\ n <= Len(kp.buf)
  BY LenProperties DEF Stored, Holds, LineBuf
<1>2. Begin(kp) = [NoLine EXCEPT !.tpl = n, !.cu = scr_pos]
  BY DEF Begin
<1> HIDE DEF n
<1>3. Fits(NoLine, kp)
  BY NoLineFits
<1>4. IsLine(l) /\ l.buf = NoLine.buf /\ l.tpl = n /\ l.pos = NoLine.pos
  BY <1>3 DEF Fits, IsLine
<1>5. Begin(kp) = [l EXCEPT !.cu = scr_pos]
  BY <1>2, <1>3 DEF Fits, IsLine
<1> HIDE DEF l
<1>6. IsLine(Begin(kp)) /\ Begin(kp).buf = l.buf /\ Begin(kp).tpl = n /\ Begin(kp).pos = l.pos
  BY <1>4, <1>5 DEF IsLine
<1>7. QED
  BY <1>1, <1>3, <1>4, <1>6 DEF Fits

(* kb_buf made anew.                                                       *)
Anew(k) == IF k.size # ConSize THEN [k EXCEPT !.count = 0, !.size = ConSize] ELSE k

(* It has the size of a line again.                                        *)
LEMMA AnewHolds ==
    ASSUME NEW k, Holds(k), Len(k.buf) = KBD_MAXLENGTH, k.size \in {0, ConSize}
    PROVE  Holds(Anew(k)) /\ Anew(k).size = ConSize /\ Anew(k).buf = k.buf
<1>1. CASE k.size = ConSize
  BY <1>1 DEF Anew
<1>2. CASE k.size # ConSize
  <2> DEFINE z == 0
             g == [k EXCEPT !.count = z]
             F == [g EXCEPT !.size = ConSize]
  <2>1. Anew(k) = [k EXCEPT !.count = z, !.size = ConSize] /\ z \in Nat
    BY <1>2 DEF Anew
  <2> HIDE DEF z
  <2>2. k \in LineBuf
    BY DEF Holds
  <2>3. Anew(k) = F
    BY <2>1
  <2>4. g \in LineBuf /\ g.buf = k.buf
    BY <2>1, <2>2 DEF LineBuf
  <2> HIDE DEF g
  <2>5. F \in LineBuf /\ F.size = ConSize /\ F.buf = k.buf
    BY <2>4, ConAssumption DEF LineBuf
  <2> HIDE DEF F
  <2>6. Holds(F)
    BY <2>5, ConAssumption DEF Holds, KBD_MAXLENGTH
  <2>7. QED
    BY <2>3, <2>5, <2>6
<1>3. QED
  BY <1>1, <1>2

(* The program makes a call while nothing is in progress.                  *)
LEMMA EnteredFirst ==
    ASSUME HandInv, line = NoLine, NEW op \in ProgramOps, NEW k \in KbdType, Entered(<<>>, op, k)
    PROVE  InputInv' /\ BufferInv' /\ LineInv'
<1> DEFINE f == [Call(op) EXCEPT !.pc = Start(op, k)]
           t == IF op = "02" THEN Paused(f, k) ELSE f
<1>1. /\ StartLine(op) /\ kbd' = k /\ aux' = aux /\ UNCHANGED <<usr, inputptr, owed>>
      /\ frames' = Append(<<>>, t)
  BY DEF Entered
<1>2. StackInv /\ BufferInv /\ InputInv /\ op \in Ops
  BY DEF HandInv, ProgramOps, Ops
<1>3. f \in FrameType /\ f.op = op /\ f.pc = Start(op, k) /\ ~f.echo /\ f.want = "char"
  BY <1>2, CallFrame, CallParts
<1> HIDE DEF f
<1>4. t \in FrameType /\ t.op = op /\ (op # "02" => t = f)
  BY <1>3, PausedFrame
<1> HIDE DEF t
<1>5. frames' # <<>> /\ Len(frames') = 1 /\ frames'[1] = t
  <2> DEFINE e == <<>>
  <2>1. e \in Seq(FrameType) /\ Len(e) = 0 /\ frames' = Append(e, t)
    BY <1>1, EmptySeq
  <2> HIDE DEF e
  <2>2. /\ Len(Append(e, t)) = Len(e) + 1 /\ Append(e, t)[Len(e) + 1] = t /\ Append(e, t) # <<>>
    BY <1>4, <2>1, OneMore
  <2>3. QED
    BY <2>1, <2>2
<1>6. PICK u : u = t
  OBVIOUS
<1>7. InputInv'
  BY <1>1, <1>2 DEF InputInv
<1>8. CASE op = "0A"
  <2>1. kb' = kb
    BY <1>1, <1>8 DEF StartLine
  <2>2. BufferInv'
    BY <1>1, <1>2, <2>1, SameBuffers
  <2>3. CASE usr.size # 0 /\ ~atEof
    <3>1. line' = Begin(usr)
      BY <1>1, <1>8, <2>3 DEF StartLine
    <3>2. Fits(Begin(usr), usr)
      BY <1>2, BeginFits DEF BufferInv
    <3>3. Start(op, k) = "get"
      BY <1>8, <2>3 DEF Start
    <3> DEFINE l == Begin(usr)
    <3>4. line' = l /\ Fits(l, usr)
      BY <3>1, <3>2
    <3> HIDE DEF l
    <3>5. LineFrame(u)'
      BY <1>1, <1>3, <1>4, <1>6, <1>8, <3>3, <3>4 DEF LineFrame, Edits, Target
    <3>6. QED
      BY <1>5, <1>6, <1>7, <2>2, <3>5, OneLine
  <2>4. CASE ~(usr.size # 0 /\ ~atEof)
    <3>1. line' = NoLine
      BY <1>1, <1>8, <2>4 DEF StartLine
    <3>2. Start(op, k) = "done"
      BY <1>8, <2>4 DEF Start
    <3>3. LineFrame(u)'
      BY <1>3, <1>4, <1>6, <1>8, <3>1, <3>2 DEF LineFrame, Edits, Target
    <3>4. QED
      BY <1>5, <1>6, <1>7, <2>2, <3>3, OneLine
  <2>5. QED
    BY <2>3, <2>4
<1>9. CASE op = "3F"
  <2>1. CASE inputptr = 0 /\ ~atEof
    <3> DEFINE a == Anew(kb)
               l == Begin(a)
    <3>1. line' = l /\ kb' = a
      BY <1>1, <1>9, <2>1 DEF StartLine, Anew
    <3>2. Holds(a) /\ a.size = ConSize /\ a.buf = kb.buf
      BY <1>2, AnewHolds DEF BufferInv
    <3> HIDE DEF a
    <3>3. Fits(l, a)
      BY <3>2, BeginFits
    <3> HIDE DEF l
    <3>4. Start(op, k) = "get"
      BY <1>9, <2>1 DEF Start
    <3>5. BufferInv'
      BY <1>1, <1>2, <2>1, <3>1, <3>2 DEF BufferInv, PieceNext, Holds
    <3>6. LineFrame(u)'
      BY <1>1, <1>3, <1>4, <1>6, <1>9, <2>1, <3>1, <3>2, <3>3, <3>4
      DEF LineFrame, Edits, Target, Wants
    <3>7. QED
      BY <1>5, <1>6, <1>7, <3>5, <3>6, OneLine
  <2>2. CASE ~(inputptr = 0 /\ ~atEof)
    <3>1. line' = NoLine /\ kb' = kb
      BY <1>1, <1>9, <2>2 DEF StartLine
    <3>2. Start(op, k) = "done" \/ (Start(op, k) = "hand" /\ inputptr # 0)
      BY <1>9, <2>2 DEF Start
    <3>3. LineFrame(u)'
      BY <1>1, <1>3, <1>4, <1>6, <1>9, <3>1, <3>2 DEF LineFrame, Edits, Target, Wants
    <3>4. BufferInv'
      BY <1>1, <1>2, <3>1, SameBuffers
    <3>5. QED
      BY <1>5, <1>6, <1>7, <3>3, <3>4, OneLine
  <2>3. QED
    BY <2>1, <2>2
<1>10. CASE op \notin {"0A", "3F"}
  <2>1. line' = NoLine /\ kb' = kb
    BY <1>1, <1>10 DEF StartLine
  <2>2. u.op \notin {"0A", "3F"}
    BY <1>4, <1>6, <1>10
  <2>3. LineFrame(u)'
    BY <2>1, <2>2, IdleLine
  <2>4. BufferInv'
    BY <1>1, <1>2, <2>1, SameBuffers
  <2>5. QED
    BY <1>5, <1>6, <1>7, <2>3, <2>4, OneLine
<1>11. QED
  BY <1>8, <1>9, <1>10

(* A call from a handler of INT 28h: the call that waits keeps its line.   *)
LEMMA EnteredNested ==
    ASSUME HandInv, NEW fs \in Seq(FrameType), Len(fs) = 2, NEW op \in NestedOps,
           frames # <<>>, fs[1] = frames[1], fs[1].op \in CharOps,
           op = "00" => line = NoLine, Entered(fs, op, kbd)
    PROVE  InputInv' /\ BufferInv' /\ LineInv'
<1> DEFINE f == [Call(op) EXCEPT !.pc = Start(op, kbd)]
<1>1. /\ StartLine(op) /\ kbd' = kbd /\ aux' = aux /\ UNCHANGED <<usr, inputptr, owed>>
      /\ frames' = Append(fs, f)
  BY DEF Entered, NestedOps
<1>2. StackInv /\ BufferInv /\ InputInv /\ LineInv /\ op \in Ops
  BY DEF HandInv, NestedOps, Ops, ProgramOps
<1>3. f \in FrameType /\ f.op = op
  BY <1>2, CallFrame
<1> HIDE DEF f
<1>4. UNCHANGED <<line, kb>>
  BY <1>1 DEF StartLine, NestedOps
<1>5. InputInv' /\ BufferInv'
  BY <1>1, <1>2, <1>4, SameBuffers DEF InputInv
<1>6. frames' # <<>> /\ Len(frames') = 3 /\ frames'[3] = f /\ frames'[1] = frames[1]
  <2>1. /\ Len(frames') = Len(fs) + 1 /\ frames'[Len(fs) + 1] = f /\ frames' # <<>>
        /\ \A i \in 1 .. Len(fs) : frames'[i] = fs[i]
    BY <1>1, <1>3, OneMore
  <2>2. QED
    BY <2>1
<1>7. PICK u : u = frames[1]
  OBVIOUS
<1>8. LineFrame(u)
  BY <1>2, <1>7 DEF LineInv
<1>9. LineFrame(u)'
  BY <1>1, <1>4, <1>8 DEF LineFrame, Edits, Target
<1>10. frames'[1] = u /\ (frames'[3].op \in {"00", Int23} => line' = NoLine)
  BY <1>3, <1>4, <1>6, <1>7 DEF NestedOps, Int23
<1>11. LineInv'
  BY <1>6, <1>9, <1>10 DEF LineInv, LineFrame, Edits, Target
<1>12. QED
  BY <1>5, <1>11

(* A call that ^C leaves at once, over nothing or over INT 28h.            *)
LEMMA LeftLine ==
    ASSUME HandInv, NEW fs \in Seq(FrameType), NEW op \in Ops,
           fs = <<>> \/ (Len(fs) = 2 /\ frames # <<>> /\ fs[1] = frames[1] /\ fs[1].op \in CharOps),
           handle_break("con", Append(fs, Call(op)), InDOS + 1)
    PROVE  InputInv' /\ BufferInv' /\ LineInv'
<1> DEFINE h == Handler(Int23, Call(op))
<1>1. InputInv' /\ line' = NoLine /\ UNCHANGED <<kb, usr, inputptr, owed>>
  BY BreakHand DEF HandInv
<1>2. BufferInv'
  BY <1>1, SameBuffers DEF HandInv
<1>3. h \in FrameType /\ h.op = Int23
  BY CallFrame, HandlerFrame DEF HandInv
<1>4. frames' = Append(fs, h)
  BY LeftFrame DEF HandInv
<1> HIDE DEF h
<1>5. /\ Len(frames') = Len(fs) + 1 /\ frames'[Len(fs) + 1] = h /\ frames' # <<>>
      /\ \A i \in 1 .. Len(fs) : frames'[i] = fs[i]
  BY <1>3, <1>4, OneMore
<1>6. CASE fs = <<>>
  <2>1. Len(frames') = 1 /\ frames'[1] = h
    BY <1>5, <1>6, EmptySeq
  <2>2. PICK u : u = h
    OBVIOUS
  <2>3. u.op \notin {"0A", "3F"}
    BY <1>3, <2>2 DEF Int23
  <2>4. LineFrame(u)'
    BY <1>1, <2>3, IdleLine
  <2>5. LineInv'
    BY <1>5, <2>1, <2>2, <2>4, OneLine
  <2>6. QED
    BY <1>1, <1>2, <2>5
<1>7. CASE Len(fs) = 2 /\ frames # <<>> /\ fs[1] = frames[1] /\ fs[1].op \in CharOps
  <2>1. frames'[1] = frames[1] /\ frames[1].op \in CharOps
    BY <1>5, <1>7
  <2>2. PICK u : u = frames[1]
    OBVIOUS
  <2>3. LineFrame(u) /\ u.op # "3F"
    BY <1>7, <2>1, <2>2 DEF HandInv, LineInv, CharOps
  <2>4. Fits(NoLine, usr)
    BY NoLineFits DEF HandInv, BufferInv
  <2>5. LineFrame(u)'
    BY <1>1, <2>3, <2>4 DEF LineFrame, Edits, Target
  <2>6. frames'[1] = u
    BY <2>1, <2>2
  <2>7. LineInv'
    BY <1>1, <1>5, <2>5, <2>6 DEF LineInv, LineFrame, Edits, Target
  <2>8. QED
    BY <1>1, <1>2, <2>7
<1>8. QED
  BY <1>6, <1>7

(* A call is entered while nothing is in progress.                         *)
LEMMA FirstHand ==
    ASSUME HandInv, line = NoLine, NEW op \in ProgramOps, NEW flush \in BOOLEAN,
           Enter(<<>>, op, flush)
    PROVE  InputInv' /\ BufferInv' /\ LineInv'
<1> DEFINE k == IF flush THEN ConInpFlush(kbd) ELSE kbd
           e == <<>>
<1>1. k \in KbdType
  BY KeyTaken DEF HandInv, InputInv
<1>2. op \in Ops /\ e \in Seq(FrameType) /\ e = <<>>
  BY EmptySeq DEF ProgramOps, Ops
<1>3. handle_break("con", Append(<<>>, Call(op)), InDOS + 1) \/ Entered(<<>>, op, k)
  BY DEF Enter
<1> HIDE DEF k
<1>4. CASE Entered(<<>>, op, k)
  BY <1>1, <1>4, EnteredFirst
<1>5. CASE handle_break("con", Append(<<>>, Call(op)), InDOS + 1)
  <2>1. handle_break("con", Append(e, Call(op)), InDOS + 1)
    BY <1>5
  <2> HIDE DEF e
  <2>2. QED
    BY <1>2, <2>1, LeftLine
<1>6. QED
  BY <1>3, <1>4, <1>5

(* A call is entered by a handler of INT 28h, or again after ^C there.     *)
LEMMA NestedHand ==
    ASSUME HandInv, NEW fs \in Seq(FrameType), Len(fs) = 2, NEW op \in NestedOps,
           frames # <<>>, fs[1] = frames[1], fs[1].op \in CharOps,
           op = "00" => line = NoLine, Enter(fs, op, FALSE)
    PROVE  InputInv' /\ BufferInv' /\ LineInv'
<1>1. handle_break("con", Append(fs, Call(op)), InDOS + 1) \/ Entered(fs, op, kbd)
  BY DEF Enter
<1>2. op \in Ops
  BY DEF NestedOps, Ops, ProgramOps
<1>3. QED
  BY <1>1, <1>2, EnteredNested, LeftLine

(* The program, or a handler of INT 28h, makes a call.                     *)
LEMMA RequestHand ==
    ASSUME HandInv, StackInv', Request
    PROVE  InputInv' /\ BufferInv' /\ LineInv'
<1>1. StackInv
  BY DEF HandInv
<1>2. CASE frames = <<>>
  <2>1. \E op \in use.ops, flush \in BOOLEAN : Enter(frames, op, flush)
    BY <1>2 DEF Request, Running
  <2>2. PICK op \in use.ops, flush \in BOOLEAN : Enter(frames, op, flush)
    BY <2>1
  <2>3. op \in ProgramOps
    BY <1>1, ConAssumption DEF StackInv, ProgramOps
  <2>4. line = NoLine
    BY <1>2 DEF HandInv, LineInv
  <2>5. Enter(<<>>, op, flush)
    BY <1>2, <2>2
  <2>6. QED
    BY <2>3, <2>4, <2>5, FirstHand
<1>3. CASE frames # <<>>
  <2>1. PICK op \in HookOps : Top.op = Hook /\ Enter(frames, op, FALSE)
    BY <1>3 DEF Request, Running
  <2>2. op \in NestedOps /\ op # "00"
    BY ConAssumption DEF NestedOps
  <2>3. Top = frames[Len(frames)]
    BY <1>1, <1>3, TopFrame DEF StackInv
  <2>4. ~Alone /\ ~Nested
    BY <2>1, <2>3 DEF Alone, Nested, Hook, Int23, ProgramOps, NestedOps
  <2>5. frames \in Seq(FrameType) /\ Len(frames) = 2 /\ frames[1].op \in CharOps
    BY <1>1, <1>3, <2>4 DEF StackInv, Hooked
  <2>6. QED
    BY <1>3, <2>1, <2>2, <2>5, NestedHand
<1>4. QED
  BY <1>2, <1>3

(* INT 23h makes the call again, or ends the program.                      *)
LEMMA AgainHand ==
    ASSUME HandInv, StackInv', Respawn \/ Terminate
    PROVE  InputInv' /\ BufferInv' /\ LineInv'
<1>1. frames # <<>> /\ Top.op = Int23 /\ StackInv
  BY DEF Respawn, Terminate, Running, HandInv
<1>2. PICK op \in {Top.want, "00"} : Enter(Front(frames), op, FALSE)
  BY DEF Respawn, Terminate
<1>3. Top = frames[Len(frames)]
  BY <1>1, TopFrame DEF StackInv
<1>4. Front(frames) \in Seq(FrameType) /\ Len(Front(frames)) = Len(frames) - 1
  BY <1>1, OneLess DEF StackInv
<1>5. CASE Alone
  <2>1. Len(frames) = 1 /\ Top.want \in ProgramOps /\ Top = frames[1]
    BY <1>1, <1>3, <1>5 DEF Alone, ProgramOps, Int23
  <2>2. Front(frames) = <<>>
    BY <1>1, <2>1, OneLess DEF StackInv
  <2>3. op \in ProgramOps
    BY <1>2, <2>1 DEF ProgramOps
  <2>4. line = NoLine
    BY <1>1, <2>1 DEF HandInv, LineInv, LineFrame, Edits, Int23
  <2> DEFINE n == FALSE
  <2>5. Enter(<<>>, op, n) /\ n \in BOOLEAN
    BY <1>2, <2>2
  <2> HIDE DEF n
  <2>6. QED
    BY <2>3, <2>4, <2>5, FirstHand
<1>6. CASE ~Alone
  <2>1. ~(Len(frames) = 2 /\ Hooked /\ InDOS = 1)
    BY <1>1, <1>3 DEF Hooked, Hook, Int23
  <2>2. Nested
    BY <1>1, <1>6, <2>1 DEF StackInv
  <2>3. Len(frames) = 3 /\ Hooked /\ Top.want \in NestedOps /\ Top = frames[3]
    BY <1>1, <1>3, <2>2 DEF Nested, NestedOps, Int23
  <2>4. op \in NestedOps
    BY <1>2, <2>3 DEF NestedOps
  <2>5. line = NoLine
    BY <1>1, <2>3 DEF HandInv, LineInv
  <2> DEFINE fs == Front(frames)
  <2>6. fs \in Seq(FrameType) /\ Len(fs) = 2 /\ fs[1] = frames[1] /\ fs[1].op \in CharOps
    <3>1. \A i \in 1 .. 2 : fs[i] = frames[i]
      BY <1>1, <2>3, OneLess DEF StackInv
    <3>2. QED
      BY <1>4, <2>3, <3>1 DEF Hooked
  <2>7. Enter(fs, op, FALSE)
    BY <1>2
  <2> HIDE DEF fs
  <2>8. QED
    BY <1>1, <2>4, <2>5, <2>6, <2>7, NestedHand
<1>7. QED
  BY <1>5, <1>6

(* Every step keeps what is owed.                                          *)
LEMMA HandStep ==
    ASSUME HandInv, [Next]_vars
    PROVE  HandInv'
<1>1. StackInv'
  BY StepKept DEF HandInv, Kept
<1>2. InputInv' /\ BufferInv' /\ LineInv'
  <2>1. CASE UNCHANGED vars
    BY <2>1, SameBuffers DEF vars, HandInv, InputInv, LineInv, LineFrame, Edits, Target
  <2>2. QED
    BY <1>1, <2>1, RequestHand, ReadsHand, HandOverHand, ReturnHand, IdleHand, HandlerEndsHand,
       AgainHand, WorldHand DEF Next
<1>3. QED
  BY <1>1, <1>2 DEF HandInv

(* It holds at the start.                                                  *)
LEMMA HandInit ==
    ASSUME Init
    PROVE  HandInv
<1>1. StackInv
  BY StackInit
<1>2. InputInv
  <2> DEFINE e == <<>>
             n == FALSE
  <2>1. kbd = [keys |-> e, scan |-> Nul, flag |-> n, gone |-> n] /\ aux = e
    BY DEF Init
  <2>2. e \in Seq(Keys) /\ n \in BOOLEAN
    BY EmptySeq
  <2> HIDE DEF e, n
  <2>3. QED
    BY <2>1, <2>2 DEF InputInv, KbdType
<1>3. ASSUME NEW size \in Nat, NEW n \in Nat, size <= n
      PROVE  Holds(Buffer(size, n)) /\ Len(Buffer(size, n).buf) = n /\ Buffer(size, n).size = size
  <2> DEFINE b == [i \in 1 .. n |-> Nul]
             z == 0
  <2>1. b \in Seq(Chars) /\ Len(b) = n
    BY DEF Chars
  <2>2. Buffer(size, n) = [size |-> size, count |-> z, buf |-> b] /\ z \in Nat
    BY DEF Buffer
  <2> HIDE DEF b, z
  <2>3. QED
    BY <1>3, <2>1, <2>2 DEF Holds, LineBuf
<1>4. /\ kb = Buffer(ConSize, KBD_MAXLENGTH) /\ usr = Buffer(Size0A, Size0A) /\ inputptr = 0
      /\ frames = <<>> /\ line = NoLine
  BY DEF Init
<1>5. BufferInv
  BY <1>3, <1>4, ConAssumption DEF BufferInv, PieceNext, KBD_MAXLENGTH
<1>6. LineInv
  <2>1. Len(frames) # 3
    BY <1>4, EmptySeq
  <2>2. QED
    BY <1>4, <2>1 DEF LineInv
<1>7. QED
  BY <1>1, <1>2, <1>5, <1>6 DEF HandInv

(* The line read for 3Fh is handed over as it was typed, in as many pieces *)
(* as the program asks for: whatever keys, calls, breaks, idle handlers    *)
(* and lines of 0Ah come between, what is left of kb_buf at inputptr is    *)
(* what is still owed (read_line_handle, read_line and DosReadSftExt).     *)
THEOREM LinesAreHanded == Spec => []LineHanded
<1>1. Init => HandInv
  BY HandInit
<1>2. HandInv /\ [Next]_vars => HandInv'
  BY HandStep
<1>3. HandInv => LineHanded
  BY DEF HandInv, BufferInv, PieceNext, LineHanded
<1>4. QED
  BY <1>1, <1>2, <1>3, PTL DEF Spec
==============================================================================
