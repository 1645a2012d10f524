------------------------------ MODULE Console ------------------------------
(***************************************************************************)
(* Console calls of INT 21h (kernel/chario.c, break.c, console.asm,         *)
(* entry.asm, dosidle.asm, procsupt.asm and the calls 01h-0Ch, 25h, 3Fh of  *)
(* inthndlr.c): the keyboard's queue, the read that looks for ^S and ^C,    *)
(* the line editor, the line kept for INT 21h/3Fh, INT 28h while a call     *)
(* waits, INT 23h, and the InDOS flag.                                      *)
(***************************************************************************)
EXTENDS Integers, FiniteSets, SequencesExt, Functions

CONSTANTS Uses,      \* [keys, ops, other, ahead, max]: keys that are typed, calls the program makes,
                     \* what else happens ("aux", "break", "gone"), how many keys the keyboard holds,
                     \* and the bound on keys and such events together
          Ext,       \* keys that come as 0 and a scan code
          HookOps,   \* calls the INT 28h handler makes: "25" (INT 25h), "0D" (one above 0Ch)
          Breaks,    \* values of break_ena the program sets
          SigActs,   \* what INT 21h/8Ch has set for a hang-up: "none" or "handler"
          ConSize,   \* LINEBUFSIZECON
          Size0A,    \* size of the program's buffer for INT 21h/0Ah
          ReadSizes, \* bytes asked for with 3Fh
          TabStop,   \* 8
          MaxCol     \* bound: the column from which no 01h and 02h is made

Nul == "nul"   \* the byte 0
Eof == "256"   \* what the read functions return at the end of a stream

ASSUME ConAssumption ==
  /\ ConSize \in Nat \ {0} /\ Size0A \in Nat /\ TabStop \in Nat \ {0}
  /\ \A u \in Uses : u.ops \subseteq {"01", "02", "03", "06", "07", "0A", "0D", "3F", "3FA"}
  /\ \A u \in Uses : u.keys \cap {Nul, Eof} = {}
  /\ Ext \cap {Nul, Eof, "CR", "^C", "^S"} = {}
  /\ HookOps \subseteq {"25", "0D"} /\ Breaks \subseteq BOOLEAN /\ ReadSizes \subseteq Nat

KBD_MAXLENGTH == ConSize + 1

VARIABLES kbd,      \* keyboard: keys queued, uScanCode, the ^Break flag at 40:71, whether it is gone
          aux,      \* bytes that wait at AUX
          breakEna, sig, InDOS,
          frames,   \* the calls and interrupt handlers in progress, the one that runs last
          line,     \* locals of do_read_line, and local_buffer
          kb, usr,  \* kb_buf, and the buffer of the program's 0Ah calls: [size, count, buf]
          inputptr, \* 0 for NULL
          scr_pos, atEof,  \* atEof: SFT_FEOF of the console's SFT is off
          use,      \* the member of Uses
          typed, owed      \* bound; history: what is left of the line read for 3Fh, with its ends

vars == <<kbd, aux, breakEna, sig, InDOS, frames, line, kb, usr, inputptr, scr_pos, atEof,
          use, typed, owed>>

NoLine  == [buf |-> <<>>, tpl |-> 0, pos |-> 0, ins |-> FALSE, first |-> TRUE, cu |-> 0]
NoOwed  == <<Eof>>  \* no line is owed, or no claim is made about it

-----------------------------------------------------------------------------
(* The keyboard driver *)

(* What the driver returns for the next read without taking it: Eof stands for "busy".  A key
   that reads as a zero word was left by Ctrl-Break: it is dropped (CommonNdRdExit). *)
CommonNdRdExit(k) == IF k.scan # Nul THEN k.scan
                     ELSE IF k.keys = <<>> THEN Eof
                     ELSE IF Head(k.keys) \in Ext THEN Nul ELSE Head(k.keys)

KbdRdChar(k) == IF k.scan # Nul THEN [k EXCEPT !.scan = Nul]
                ELSE [k EXCEPT !.keys = Tail(@),
                               !.scan = IF Head(k.keys) \in Ext THEN Head(k.keys) ELSE Nul]

ConInpFlush(k) == [k EXCEPT !.keys = <<>>, !.scan = Nul]

Ready(k) == k.scan # Nul \/ k.keys # <<>>

-----------------------------------------------------------------------------
(* Columns *)

Control(c) == c \in {"^C", "^S", "^Z", "ESC", "BS"}

(* update_scr_pos for one character written; a ^Z ends the output *)
update_scr_pos(col, c) == CASE c = "CR"         -> 0
                            [] c \in {"LF", "^Z"} -> col
                            [] c = "BS"         -> IF col > 0 THEN col - 1 ELSE 0
                            [] c = "HT"         -> col + TabStop - (col % TabStop)
                            [] OTHER            -> col + 1

(* A control character is shown as ^ and a letter. *)
echo_char(col, c) == IF Control(c) THEN col + 2 ELSE update_scr_pos(col, c)

Columns(col, s) == FoldLeft(echo_char, col, s)

(* destr_bs leaves the column one to the left: BS, a blank, BS. *)
destr_bs(col) == IF col = 0 THEN 0 ELSE col - 1

Erase(l, col) ==
  LET rest == Front(l.buf)
      c    == Last(l.buf)
      goal == FoldLeft(LAMBDA p, x : IF x = "HT" THEN ((p + TabStop) \div TabStop) * TabStop
                                     ELSE IF Control(x) \/ x \in {"CR", "LF"} THEN p + 2 ELSE p + 1,
                       l.cu, rest)
  IN IF c = "HT" THEN LET one == destr_bs(col) IN IF one > goal THEN goal ELSE one
     ELSE IF Control(c) \/ c \in {"CR", "LF"} THEN destr_bs(destr_bs(col)) ELSE destr_bs(col)

-----------------------------------------------------------------------------
(* The line editor: E is [l |-> line, kp |-> the buffer read into, col |-> scr_pos]. *)

(* The stored line counts only if a CR follows it; past the end of the buffer there is none. *)
Stored(kp) == IF kp.count < Len(kp.buf) /\ kp.buf[kp.count + 1] = "CR" THEN kp.count ELSE 0

Begin(kp) == [NoLine EXCEPT !.tpl = Stored(kp), !.cu = scr_pos]

Room(E) == Len(E.l.buf) < E.kp.size - 1

Put(E, c) == [E EXCEPT !.l.buf = IF Room(E) \/ c = "CR" THEN Append(@, c) ELSE @,
                       !.col = IF Room(E) \/ c = "CR" THEN echo_char(@, c) ELSE @,
                       !.l.pos = IF E.l.pos < E.l.tpl /\ ~E.l.ins THEN @ + 1 ELSE @]

(* F1, F2, F3: the stored line from stored_pos to new_pos, as far as there is room. *)
CopyTo(E, new) ==
  LET n     == Min({new - E.l.pos, E.kp.size - 1 - Len(E.l.buf)})
      piece == IF n > 0 THEN SubSeq(E.kp.buf, E.l.pos + 1, E.l.pos + n) ELSE <<>>
  IN [E EXCEPT !.l.buf = @ \o piece, !.l.pos = @ + Len(piece), !.col = Columns(@, piece)]

SkipTo(E, new) == [E EXCEPT !.l.pos = new]

(* F2 and F4 look for c from stored_pos, and new_pos counts from there too.  With stored_pos past
   the stored line the length is a huge size_t: the search runs on through the buffer. *)
Found(E, c) ==
  LET last == IF E.l.pos > E.l.tpl THEN Len(E.kp.buf) ELSE E.l.tpl
      hits == {i \in E.l.pos + 1 .. last : E.kp.buf[i] = c}
  IN IF c = Nul \/ hits = {} THEN E.l.pos ELSE Min(hits) - E.l.pos

NewLine(E) == [E EXCEPT !.l = [@ EXCEPT !.buf = <<>>, !.pos = 0, !.ins = FALSE], !.col = E.l.cu]

(* memcpy of the line to the buffer *)
Over(buf, s) == [i \in DOMAIN buf |-> IF i <= Len(s) THEN s[i] ELSE buf[i]]

Edit(E, c) ==
  CASE c = "LF"  -> [E EXCEPT !.col = IF E.l.first THEN @ ELSE 0]
    [] c = "F1"  -> IF E.l.pos < E.l.tpl /\ Room(E) THEN CopyTo(E, E.l.pos + 1) ELSE E
    [] c = "F3"  -> SkipTo(CopyTo(E, E.l.tpl), E.l.tpl)
    [] c = "F5"  -> NewLine([E EXCEPT !.kp.buf = Over(@, E.l.buf), !.l.tpl = Len(E.l.buf)])
    [] c = "ESC" -> NewLine(E)
    [] c = "INS" -> [E EXCEPT !.l.ins = ~@]
    [] c = "DEL" -> [E EXCEPT !.l.pos = @ + 1]
    [] c = "BS"  -> [E EXCEPT !.l.buf = IF @ = <<>> THEN @ ELSE Front(@),
                              !.col = IF E.l.buf = <<>> THEN @ ELSE Erase(E.l, @),
                              !.l.pos = IF @ > 0 THEN @ - 1 ELSE @]
    [] OTHER     -> Put(E, IF c = "F6" THEN "^Z" ELSE c)

(* The second character of F2 (copy up to it) and F4 (skip up to it) *)
EditUpTo(E, cmd, c) ==
  LET new == Found(E, c) IN SkipTo(IF cmd = "F2" THEN CopyTo(E, new) ELSE E, new)

Ends(c) == c \in {"CR", "^C"}

FinishWhole(kp, buf, c) == [kp EXCEPT !.buf = Over(@, buf), !.count = Len(buf)]   \* a mutant: with the CR
(* The end of the line, by c: the count leaves a CR out. *)
Finish(kp, buf, c) == [kp EXCEPT !.buf = Over(@, buf),
                                 !.count = Len(buf) - (IF c = "CR" THEN 1 ELSE 0)]

(* local_buffer goes on into kb_buf: a line longer than LINEBUFSIZECON has overwritten the size
   (set to 0 for that), the count, with the code of a character, and the first bytes. *)
Overflow(k, buf) ==
  IF Len(buf) <= ConSize THEN k
  ELSE [size  |-> 0,
        count |-> IF Len(buf) > ConSize + 1 THEN KBD_MAXLENGTH ELSE k.count,
        buf   |-> Over(k.buf, SubSeq(buf, ConSize + 3, Len(buf)))]

-----------------------------------------------------------------------------
(* Calls: [op, chk: check_break, on: the stack it runs on, pc, next, echo, want].  A call reads in
   "get", "held" (after ^S) and "after", may run INT 28h once more in "idle", hands over bytes of
   kb_buf in "hand", and only has to return in "done".  echo: the read is the pause of an output,
   next what follows it.  want: what the next byte is for in the line editor. *)

CharOps == {"01", "02", "03", "06", "07", "0A"}
Call(op) == [op |-> op, chk |-> op \in {"01", "03", "0A"} \/ (op \notin CharOps /\ breakEna),
             on |-> IF op = "25" THEN "disk" ELSE IF InDOS # 0 THEN "caller"
                    ELSE IF op \in CharOps THEN "char" ELSE "disk",
             pc |-> "get", next |-> "done", echo |-> FALSE, want |-> "char"]
Hook     == "28"
Int23    == "23"
Handler(h, f) == [f EXCEPT !.op = h, !.want = f.op, !.on = "user"]
IsCall(f) == f.op \notin {Hook, Int23}

Top       == Last(frames)
SetTop(f) == [frames EXCEPT ![Len(frames)] = f]
Done      == [Top EXCEPT !.pc = "done"]
Running(ops) == frames # <<>> /\ Top.op \in ops
Reading   == frames # <<>> /\ IsCall(Top) /\ Top.pc \in {"get", "held", "after"}
FromAux   == Top.op \in {"03", "3FA"}

handle_breakInside(dev, fs, depth) ==   \* a mutant: the call is left without its count
  /\ IF dev = "aux" THEN aux' = <<>> /\ kbd' = [kbd EXCEPT !.flag = FALSE]
                    ELSE aux' = aux /\ kbd' = [ConInpFlush(kbd) EXCEPT !.flag = FALSE]
  /\ scr_pos' = 0 /\ atEof' = atEof /\ InDOS' = depth /\ line' = NoLine
  /\ frames' = [fs EXCEPT ![Len(fs)] = Handler(Int23, @)]
  /\ UNCHANGED <<kb, usr, inputptr, owed>>

(* handle_break: the flag and the queue of the device are cleared, ^C is shown there, the call is
   left and INT 23h entered on the stack of its caller. *)
handle_break(dev, fs, depth) ==
  /\ IF dev = "aux" THEN aux' = <<>> /\ kbd' = [kbd EXCEPT !.flag = FALSE]
                    ELSE aux' = aux /\ kbd' = [ConInpFlush(kbd) EXCEPT !.flag = FALSE]
  /\ scr_pos' = 0 /\ atEof' = atEof
  /\ InDOS' = depth - 1
  /\ frames' = [fs EXCEPT ![Len(fs)] = Handler(Int23, @)]
  /\ line' = NoLine
  /\ UNCHANGED <<kb, usr, inputptr, owed>>

BreakTyped == CommonNdRdExit(kbd) = "^C"   \* a mutant: the flag is not looked at
(* Ctrl-Break was seen at 40:71, or ^C is the next key of the console. *)
BreakWaits == kbd.flag \/ CommonNdRdExit(kbd) = "^C"

(* An output looks for ^S before each character: the call reads keys before it goes on. *)
Paused(f, k) == IF CommonNdRdExit(k) = "^S" THEN [f EXCEPT !.next = f.pc, !.pc = "get", !.echo = TRUE]
                ELSE f

-----------------------------------------------------------------------------
(* A call is entered: int21_handler and the dispatch of int21_service *)

(* The editor starts on the program's buffer, or on kb_buf, whose contents are dropped if a long
   line of 0Ah ran over it. *)
StartLine(op) ==
  IF op = "0A" /\ usr.size # 0 /\ ~atEof THEN line' = Begin(usr) /\ kb' = kb
  ELSE IF op = "3F" /\ inputptr = 0 /\ ~atEof
       THEN \E k \in {IF kb.size # ConSize THEN [kb EXCEPT !.count = 0, !.size = ConSize] ELSE kb} :
              line' = Begin(k) /\ kb' = k
  ELSE UNCHANGED <<line, kb>>

(* Where a call goes on after its dispatch *)
Start(op, k) ==
  CASE op = "06" /\ ~Ready(k)                    -> "idle"
    [] op = "3F" /\ inputptr # 0 /\ ~atEof       -> "hand"
    [] op \in {"00", "02", "0D", "25"}           -> "done"
    [] op = "0A" /\ usr.size = 0                 -> "done"
    [] atEof /\ op \notin {"03", "3FA"}          -> "done"
    [] OTHER                                     -> "get"

Entered(fs, op, k) ==
  /\ StartLine(op)
  /\ kbd' = k
  /\ \E f \in {[Call(op) EXCEPT !.pc = Start(op, k)]} :
       frames' = Append(fs, IF op = "02" THEN Paused(f, k) ELSE f)
  /\ InDOS' = InDOS + 1
  /\ scr_pos' = IF op = "02" THEN update_scr_pos(scr_pos, "x") ELSE scr_pos
  /\ atEof' = (atEof /\ op # "02")
  /\ UNCHANGED <<aux, usr, inputptr, owed>>

(* flush: INT 21h/0Ch, for the call it goes on with, which is not dispatched again. *)
Enter(fs, op, flush) ==
  /\ IF /\ breakEna \/ (~flush /\ op \in {"01", "02", "03", "0A"})
        /\ BreakWaits /\ op # "25"
     THEN handle_break("con", Append(fs, Call(op)), InDOS + 1)
     ELSE Entered(fs, op, IF flush THEN ConInpFlush(kbd) ELSE kbd)
  /\ UNCHANGED <<breakEna, sig, use, typed>>

InBounds(op) == op \in {"01", "02"} => scr_pos < MaxCol

(* The program makes a call, and so does its INT 28h handler. *)
Request == \/ frames = <<>> /\ \E op \in use.ops : InBounds(op) /\ Enter(frames, op, FALSE)
           \/ frames = <<>> /\ \E op \in use.ops \cap {"01", "07", "0A"} : InBounds(op) /\ Enter(frames, op, TRUE)
           \/ Running({Hook}) /\ \E op \in HookOps : Enter(frames, op, FALSE)

(* int21_exit; the process is gone after 00h, with all that was in progress (return_user). *)
Return ==
  /\ frames # <<>> /\ IsCall(Top) /\ Top.pc = "done"
  /\ frames' = IF Top.op = "00" THEN <<>> ELSE Front(frames)
  /\ InDOS' = InDOS - 1
  /\ UNCHANGED <<kbd, aux, breakEna, sig, line, kb, usr, inputptr, scr_pos, atEof, use, typed, owed>>

-----------------------------------------------------------------------------
(* A byte comes *)

Quiet == UNCHANGED <<line, kb, usr, inputptr, scr_pos, atEof, InDOS, owed>>

(* handle_sig when a handler is set for the hang-up: as for a break, without its clean-up *)
Signal == /\ frames' = SetTop(Handler(Int23, Top)) /\ InDOS' = InDOS - 1
          /\ line' = NoLine
          /\ UNCHANGED <<kb, usr, inputptr, scr_pos, atEof, owed>>

(* 3Fh goes on with kb_buf, whatever ended the line. *)
HandNext(k) == /\ kb' = k
               /\ inputptr' = IF k.buf[1] = "^Z" THEN 0 ELSE 1
               /\ frames' = SetTop([Top EXCEPT !.pc = IF k.buf[1] = "^Z" THEN "done" ELSE "hand"])

EndOfStream ==
  IF sig = "handler" THEN Signal
  ELSE /\ line' = NoLine
       /\ UNCHANGED <<usr, atEof, InDOS>>
       /\ scr_pos' = IF Top.op = "01" THEN scr_pos + 1 ELSE scr_pos
       /\ IF Top.op = "3F" THEN HandNext(kb) /\ owed' = NoOwed
          ELSE frames' = SetTop(Done) /\ UNCHANGED <<kb, inputptr, owed>>

(* The editor has handled a byte and goes on reading. *)
GoOn(E, want, k) ==
  /\ line' = [E.l EXCEPT !.first = FALSE] /\ scr_pos' = E.col
  /\ IF Top.op = "0A" THEN usr' = E.kp /\ kb' = kb ELSE kb' = E.kp /\ usr' = usr
  /\ frames' = SetTop(Paused([Top EXCEPT !.want = want, !.pc = "get"], k))
  /\ atEof' = FALSE
  /\ UNCHANGED <<inputptr, InDOS, owed>>

(* CR or ^C *)
EndLine(E, c, k) ==
  /\ line' = NoLine /\ scr_pos' = E.col /\ atEof' = FALSE /\ InDOS' = InDOS
  /\ IF Top.op = "0A"
     THEN /\ usr' = Finish(E.kp, E.l.buf, c) /\ kb' = Overflow(kb, E.l.buf)
          /\ frames' = SetTop(Paused(Done, k))
          /\ inputptr' = inputptr
          /\ owed' = IF Len(E.l.buf) > ConSize THEN NoOwed ELSE owed
     ELSE \E f \in {Finish(E.kp, E.l.buf, c)} :
          /\ HandNext(IF c = "CR" THEN [f EXCEPT !.count = @ + 2, !.buf[f.count + 2] = "LF"] ELSE f)
          /\ owed' = IF inputptr' = 0 THEN NoOwed
                     ELSE IF c = "CR" THEN Append(E.l.buf, "LF") ELSE E.l.buf
          /\ usr' = usr

CharByte(E, c, k) ==
  CASE c = Nul /\ Top.op = "3F" -> GoOn(E, "ext", k)
    [] c \in Ext                -> GoOn(Put(E, c), "char", k)
    [] Ends(c)                  -> EndLine(Put(E, c), c, k)
    [] OTHER                    -> GoOn(Edit(E, c), "char", k)

LineByte(E, c, k) ==
  CASE Top.want = "char" -> CharByte(E, c, k)
    [] Top.want = "ext"  -> IF c \in {"F2", "F4"} THEN GoOn(E, c, k) ELSE GoOn(Edit(E, c), "char", k)
    [] Top.want = "skip" -> GoOn(E, "char", k)
    [] OTHER             -> IF c = Nul THEN GoOn(E, "skip", k)       \* "F2", "F4"
                            ELSE GoOn(EditUpTo(E, Top.want, c), "char", k)

(* read_char_eof takes the byte 0 for the end: 0Ah ends at an extended key. *)
Ended(c) == c = Eof \/ (c = Nul /\ Top.op = "0A")

(* What the call does with the byte it has read; k is the keyboard after the read. *)
Deliver(c, k) ==
  CASE Top.echo -> frames' = SetTop([Top EXCEPT !.pc = Top.next, !.next = "done", !.echo = FALSE]) /\ Quiet
    [] ~Top.echo /\ Ended(c) -> EndOfStream
    [] ~Top.echo /\ Top.op \in {"0A", "3F"} /\ ~Ended(c) ->
         LineByte([l |-> line, kp |-> IF Top.op = "0A" THEN usr ELSE kb, col |-> scr_pos], c, k)
    [] OTHER ->
         /\ frames' = SetTop(IF Top.op = "01" THEN Paused(Done, k) ELSE Done)
         /\ scr_pos' = IF Top.op = "01" THEN update_scr_pos(scr_pos, c) ELSE scr_pos
         /\ atEof' = IF FromAux THEN atEof ELSE c = "^Z" /\ Top.op = "07"
         /\ UNCHANGED <<line, kb, usr, inputptr, InDOS, owed>>

(* read_char_sft_dev: with check_break ^C breaks, ^S holds up to the key after the next one, and
   ^C breaks while it holds, not as the last of them. *)
Got(c, dev, k) ==
  LET checks == Top.pc = "get" /\ (Top.chk \/ Top.echo)
      keep   == [k EXCEPT !.flag = @ /\ ~(c = "^C" /\ ~checks /\ ~breakEna)]
  IN IF c = "^C" /\ (checks \/ Top.pc = "held")
     THEN handle_break(dev, frames, InDOS)
     ELSE /\ kbd' = keep
          /\ aux' = IF dev = "aux" /\ aux # <<>> THEN Tail(aux) ELSE aux
          /\ IF checks /\ c = "^S" THEN frames' = SetTop([Top EXCEPT !.pc = "held"]) /\ Quiet
             ELSE IF Top.pc = "held" THEN frames' = SetTop([Top EXCEPT !.pc = "after"]) /\ Quiet
             ELSE Deliver(c, keep)

ReadCon == /\ Reading /\ (~FromAux \/ Top.echo) /\ Ready(kbd)
           /\ Got(CommonNdRdExit(kbd), "con", KbdRdChar(kbd))
           /\ UNCHANGED <<breakEna, sig, use, typed>>

(* The console is gone: its reads return 256. *)
ReadGone == /\ Reading /\ (~FromAux \/ Top.echo) /\ ~Ready(kbd) /\ kbd.gone
            /\ Got(Eof, "con", kbd)
            /\ UNCHANGED <<breakEna, sig, use, typed>>

ReadAux == /\ Reading /\ FromAux /\ ~Top.echo /\ aux # <<>>
           /\ Got(Head(aux), "aux", kbd)
           /\ UNCHANGED <<breakEna, sig, use, typed>>

(* While AUX is silent the console is asked for a break; without check_break, ^C or any extended
   key ends the stream. *)
AuxLooks ==
  /\ Reading /\ FromAux /\ ~Top.echo /\ aux = <<>>
  /\ IF Top.chk /\ Top.pc = "get" THEN BreakWaits /\ handle_break("con", frames, InDOS)
     ELSE /\ CommonNdRdExit(kbd) \in {Nul, "^C"} \/ (kbd.gone /\ ~Ready(kbd))
          /\ Got(Eof, "con", ConInpFlush(kbd))
  /\ UNCHANGED <<breakEna, sig, use, typed>>

(* n_fmemcpy of read_line_handle, and the test for ^Z of DosReadSftExt *)
HandOver ==
  /\ Running({"3F"}) /\ Top.pc = "hand"
  /\ \E n \in ReadSizes :
       LET left == kb.count - inputptr + 1
           m    == Min({n, left})
       IN /\ inputptr' = IF m = left THEN 0 ELSE inputptr + m
          /\ atEof' = (m > 0 /\ kb.buf[inputptr] = "^Z")
          /\ owed' = IF owed = NoOwed \/ m = left THEN NoOwed ELSE SubSeq(owed, m + 1, Len(owed))
          /\ frames' = SetTop(Done)
  /\ UNCHANGED <<kbd, aux, breakEna, sig, InDOS, line, kb, usr, scr_pos, use, typed>>

-----------------------------------------------------------------------------
(* Handlers of the program *)

IdleAnywhere ==   \* a mutant: also on the disk stack
  /\ Reading /\ ~Ready(kbd) /\ InDOS <= 1
  /\ frames' = Append(frames, Handler(Hook, Done))
  /\ UNCHANGED <<kbd, aux, breakEna, sig, InDOS, line, kb, usr, inputptr, scr_pos, atEof, use, typed, owed>>

(* DosIdle_int: only on the character stack, and not from a call made inside another. *)
Idle ==
  /\ \/ Reading /\ Top.op \in CharOps /\ (IF FromAux /\ ~Top.echo THEN aux = <<>> ELSE ~Ready(kbd))
     \/ Running({"06"}) /\ Top.pc = "idle"
  /\ frames' = IF InDOS > 1 THEN SetTop([Top EXCEPT !.pc = IF @ = "idle" THEN "done" ELSE @])
               ELSE Append(SetTop([Top EXCEPT !.pc = IF @ = "idle" THEN "done" ELSE @]),
                           Handler(Hook, [Top EXCEPT !.pc = "done"]))
  /\ UNCHANGED <<kbd, aux, breakEna, sig, InDOS, line, kb, usr, inputptr, scr_pos, atEof, use, typed, owed>>

(* The INT 28h handler returns; the INT 23h handler goes back into the program. *)
HandlerEnds ==
  /\ Running({Hook, Int23})
  /\ frames' = Front(frames)
  /\ UNCHANGED <<kbd, aux, breakEna, sig, InDOS, line, kb, usr, inputptr, scr_pos, atEof, use, typed, owed>>

(* spawn_int23: IRET or carry clear makes the call again, carry set makes it 00h. *)
Respawn   == Running({Int23}) /\ Enter(Front(frames), Top.want, FALSE)
Terminate == Running({Int23}) /\ Enter(Front(frames), "00", FALSE)

-----------------------------------------------------------------------------
(* The user and the hardware *)

Typing == typed < use.max /\ typed' = typed + 1
Type(k) == Typing /\ Len(kbd.keys) < use.ahead /\ kbd' = [kbd EXCEPT !.keys = Append(@, k)] /\ aux' = aux
AuxByte(c) == Typing /\ aux' = Append(aux, c) /\ kbd' = kbd
(* got_cbreak *)
CtrlBreak == Typing /\ ~kbd.flag /\ kbd' = [kbd EXCEPT !.flag = TRUE] /\ aux' = aux
HangUp == Typing /\ ~kbd.gone /\ kbd' = [kbd EXCEPT !.gone = TRUE] /\ aux' = aux

World == /\ \/ \E k \in use.keys : Type(k)
            \/ "aux" \in use.other /\ \E c \in use.keys \ Ext : AuxByte(c)
            \/ "break" \in use.other /\ CtrlBreak
            \/ "gone" \in use.other /\ HangUp
         /\ UNCHANGED <<use, breakEna, sig, InDOS, frames, line, kb, usr, inputptr, scr_pos, atEof, owed>>

-----------------------------------------------------------------------------
Buffer(size, n) == [size |-> size, count |-> 0, buf |-> [i \in 1 .. n |-> Nul]]

Init == /\ use \in Uses
        /\ kbd = [keys |-> <<>>, scan |-> Nul, flag |-> FALSE, gone |-> FALSE] /\ aux = <<>>
        /\ breakEna \in Breaks /\ sig \in SigActs /\ InDOS = 0 /\ frames = <<>>
        /\ line = NoLine /\ kb = Buffer(ConSize, KBD_MAXLENGTH) /\ usr = Buffer(Size0A, Size0A)
        /\ inputptr = 0 /\ scr_pos = 0 /\ atEof = FALSE /\ typed = 0 /\ owed = NoOwed

Reads == ReadCon \/ ReadGone \/ ReadAux \/ AuxLooks
Next  == Request \/ Reads \/ HandOver \/ Return \/ Idle \/ HandlerEnds \/ Respawn \/ Terminate \/ World

Spec == Init /\ [][Next]_vars
(* The kernel's own code goes on, and each turn of a wait looks at its device and for a break
   before it runs INT 28h again; nothing is assumed of the program, its handlers or the user. *)
FairSpec == Spec /\ SF_vars(Reads) /\ WF_vars(HandOver \/ Return)

-----------------------------------------------------------------------------
(* InDOS counts the calls in progress, over breaks, restarted calls and calls from INT 28h: it is
   0 when a program runs, so that the next call changes to a stack of the kernel. *)
InDosExact == InDOS = Cardinality({i \in DOMAIN frames : IsCall(frames[i])})

(* Two calls in progress never run on the same stack of the kernel: INT 28h runs only while the
   character stack is in use, and what its handler calls is on the disk stack or its own. *)
StacksApart == \A i, j \in DOMAIN frames :
                 i # j /\ frames[i].on = frames[j].on => frames[i].on \in {"user", "caller"}

(* The line read for 3Fh is handed over as it was typed, in as many pieces as the program asks
   for, whatever other calls come between. *)
LineHanded == inputptr # 0 /\ owed # NoOwed => SubSeq(kb.buf, inputptr, kb.count) = owed

(* F2 and F4 copy and skip the stored line up to the character that is typed next, with it or
   without it, wherever in the line the editor is. *)
UpToCharacter ==
  [][/\ Reading /\ Top.want \in {"F2", "F4"} /\ frames' = SetTop([Top EXCEPT !.want = "char"])
     /\ \E i \in line.pos + 1 .. line.tpl : kb.buf[i] = CommonNdRdExit(kbd)
     => \E i \in line.pos + 1 .. line.tpl :
          kb.buf[i] = CommonNdRdExit(kbd) /\ line'.pos \in {i - 1, i}]_vars

(* A wait ends: a key that came is taken, and a Ctrl-Break is seen by a checked read of AUX,
   unless the INT 28h handler keeps the processor. *)
WaitsForAux == \E i \in DOMAIN frames : frames[i].op = "03" /\ frames[i].pc = "get"
WaitEnds ==
  /\ (Reading /\ (~FromAux \/ Top.echo) /\ Ready(kbd)) ~> ~(Reading /\ Ready(kbd))
  /\ []<>~(WaitsForAux /\ kbd.flag) \/ <>[]~Reading
=============================================================================
